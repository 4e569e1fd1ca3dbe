\* Two requests racing for one wallet, one token and one subscription.
SPECIFICATION Spec
CONSTANTS
    Requests = {r1, r2}
    Profiles <- RacingAsks
    Costs = {0, 2, 3}
    ReserveTargets = {3}
    Fee = 1
    RetryTimes = 1
    TrustQuota = 2
    InitWallet = 3
    InitToken = 5
    TokenUnlimited = FALSE
    HasSubscription = TRUE
    SubLimited = TRUE
    MaxFaults = 0
    MayPanic = FALSE
    MayCrash = FALSE
INVARIANTS
    TypeOK
    ServedPaysExactly
    FailedPaysNothing
    HoldsAgree
    OverdraftBounded
PROPERTIES
    ImplementsContract
CHECK_DEADLOCK FALSE
