SPECIFICATION FairSpec
CONSTANTS
    Hook = {d1, d2}
    Recon = {r1, r2, r3}
    MaxHead = 2
    NoDelivery = NoDelivery
    MaxCycles = 1
    Verify = TRUE
    MaxChanges = 2
    MaxCrashes = 1
INVARIANTS TypeOK ReconcileBounded
PROPERTIES EveryHeadAnswered
