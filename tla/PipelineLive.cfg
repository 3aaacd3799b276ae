SPECIFICATION FairSpec
CONSTANTS
    Worker = {w1}
    Hook = {d1}
    Recon = {r1}
    Key = {k1}
    Watched = {k1}
    NoDelivery = NoDelivery
    NoKey = NoKey
    MaxAttempts = 1
    MaxCycles = 1
    TaskTimeouts = FALSE
    MaxCrashes = 1
    MaxOvertaken = 1
    MaxCopies = 1
INVARIANTS NoSilentDeath DoneMeansReturned
PROPERTIES EveryEventEnds EveryKeyAnswered
