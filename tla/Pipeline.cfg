SPECIFICATION Spec
CONSTANTS
    Worker = {w1, w2}
    Hook = {d1}
    Recon = {r1}
    Key = {k1}
    Watched = {k1}
    NoDelivery = NoDelivery
    NoKey = NoKey
    MaxAttempts = 2
    MaxCycles = 1
    TaskTimeouts = TRUE
    MaxCrashes = 1
    MaxOvertaken = 1
    MaxCopies = 2
SYMMETRY Symmetry
CONSTRAINT Explored
INVARIANTS TypeOK OneAnalysisPerKey NoFalseAlarm DeadOnlyAfterFailure
PROPERTIES TerminalIsFinal
