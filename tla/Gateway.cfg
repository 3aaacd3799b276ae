SPECIFICATION Spec
CONSTANTS
    Providers = 2
    Threshold = 2
    ResetTimeout = 2
    Rate = 1
    Capacity = 2
    AttemptTimeout = 1
    MaxTime = 6
INVARIANTS TypeOK RateBounded OutageIsCheap OpenIsJustified
PROPERTIES OutageMeansAllOpen
