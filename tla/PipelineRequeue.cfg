SPECIFICATION Spec
CONSTANTS
    Worker = {w1, w2}
    Hook = {d1}
    Recon = {}
    Key = {k1}
    Watched = {}
    NoDelivery = NoDelivery
    NoKey = NoKey
    MaxAttempts = 2
    MaxCycles = 1
    TaskTimeouts = FALSE
    MaxCrashes = 0
    MaxOvertaken = 1
    MaxCopies = 2
SYMMETRY Symmetry
INVARIANTS NeverAnalysedTwice
