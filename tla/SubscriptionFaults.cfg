\* Two requests with failing and ambiguous commits, their refunds, crashes, three connections.
SPECIFICATION FairSpec
CONSTANTS
    Requests = {r1, r2}
    Subs <- OneSub
    Total <- OneTotal
    Resets <- OneSub
    Ends <- NoEnd
    Estimates = {2}
    Costs = {1, 3}
    MaxPeriod = 0
    MaxTries = 2
    MaxConns = 3
    MaxFaults = 2
    LostAcks = TRUE
    MayCancel = FALSE
    MayCrash = TRUE
    Maintainer = m
INVARIANTS
    ChargedOnce
    OverRefundNeedsFault
    MarkedMeansReturned
PROPERTIES
    RequestsEnd
    RefundArrives
CHECK_DEADLOCK FALSE
