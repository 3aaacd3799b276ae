SPECIFICATION Spec
CONSTANTS
    worker = worker
    a1 = a1
    c1 = c1
    c2 = c2
    Process <- MCProcess
    Thread <- MCThread
    Attempt <- MCAttempt
    Caller <- MCCaller
    Home <- MCHome
    Life = 3
    Fallback = 2
    Margin = 1
    AttemptTimeout = 1
    MaxTime = 3
    PerPage = 2
    MaxId = 3
    MaxFaults = 1
INVARIANTS TypeOK PaidWorkIsDelivered NeverSilenced
PROPERTIES ExchangedOnlyWhenStale HealsToOne
CHECK_DEADLOCK FALSE
