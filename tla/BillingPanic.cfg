\* A handler that panics on its first attempt.
SPECIFICATION Spec
CONSTANTS
    Requests = {r1}
    Profiles <- SubscriptionAsk
    Costs = {2}
    ReserveTargets = {}
    Fee = 1
    RetryTimes = 1
    TrustQuota = 3
    InitWallet = 4
    InitToken = 4
    TokenUnlimited = FALSE
    HasSubscription = TRUE
    SubLimited = TRUE
    MaxFaults = 0
    MayPanic = TRUE
    MayCrash = FALSE
INVARIANTS
    PanicReturnsHold
CHECK_DEADLOCK FALSE
