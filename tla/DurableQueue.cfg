SPECIFICATION Spec
CONSTANTS
    Proc = {p1, p2}
    NoProc = NoProc
    Partition = {r1, r2}
    MaxAttempts = 2
    Visibility = 2
    Backoff = 1
    DeferDelay = 1
    Pauses = FALSE
    MaxMsgs = 2
    MaxTime = 3
SYMMETRY Symmetry
INVARIANTS TypeOK ExclusiveLease OneFate AttemptsBounded
PROPERTIES LeaseRespected ImplementsWorkQueue
