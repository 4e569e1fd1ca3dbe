\* One request whose refund meets an error.
SPECIFICATION Spec
CONSTANTS
    Requests = {r1}
    Subs <- OneSub
    Total <- OneTotal
    Resets <- OneSub
    Ends <- NoEnd
    Estimates = {2}
    Costs = {1, 3}
    MaxPeriod = 0
    MaxTries = 1
    MaxConns = 4
    MaxFaults = 1
    LostAcks = FALSE
    MayCancel = FALSE
    MayCrash = FALSE
    Maintainer = m
INVARIANTS
    RefundIdempotent
CHECK_DEADLOCK FALSE
