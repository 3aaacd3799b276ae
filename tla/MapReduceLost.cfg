SPECIFICATION FairSpec
CONSTANTS
    Worker = {w1}
    NoWorker = NoWorker
    NoMsg = NoMsg
    Review = {e1}
    Chunk = {c1, c2}
    Reduce = Reduce
    MaxAttempts = 2
    Overruns = FALSE
    MaxMishaps = 1
    MaxFaults = 0
PROPERTIES EveryJobAnswered
CHECK_DEADLOCK FALSE
