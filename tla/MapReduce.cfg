SPECIFICATION FairSpec
CONSTANTS
    Worker = {w1, w2}
    NoWorker = NoWorker
    NoMsg = NoMsg
    Review = {e1, e2}
    Chunk = {c1, c2}
    Reduce = Reduce
    MaxAttempts = 2
    Overruns = TRUE
    MaxMishaps = 1
    MaxFaults = 2
INVARIANTS TypeOK ReduceOnce FanOutOnce ReviewAccountsForAll ChunkTracked
PROPERTIES EveryLiveJobAnswered
CHECK_DEADLOCK FALSE
