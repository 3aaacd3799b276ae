SPECIFICATION Spec
CONSTANTS
    Proc = {p1, p2, p3}
    NoProc = NoProc
    Partition = {r1}
    MaxAttempts = 2
    Visibility = 1
    Backoff = 1
    DeferDelay = 1
    Pauses = TRUE
    MaxMsgs = 1
    MaxTime = 3
SYMMETRY Symmetry
INVARIANTS NothingLost OneCurrentHolder
