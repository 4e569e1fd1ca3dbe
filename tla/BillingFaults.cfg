\* Every kind of request, fairly scheduled, with database errors, panics and crashes.
SPECIFICATION FairSpec
CONSTANTS
    Requests = {r1}
    Profiles <- EveryAsk
    Costs = {0, 1, 3}
    ReserveTargets = {}
    Fee = 1
    RetryTimes = 1
    TrustQuota = 3
    InitWallet = 5
    InitToken = 4
    TokenUnlimited = FALSE
    HasSubscription = TRUE
    SubLimited = TRUE
    MaxFaults = 3
    MayPanic = TRUE
    MayCrash = TRUE
INVARIANTS
    NeverOverRefunded
    NeverOvercharged
    SettledXorRefunded
PROPERTIES
    FailureReturned
    EveryRequestEnds
CHECK_DEADLOCK FALSE
