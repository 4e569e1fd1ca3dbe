\* Two requests, two subscriptions of which the first ends, resets and cancellations, no row locks.
SPECIFICATION Spec
CONSTANTS
    Requests = {r1, r2}
    Subs <- TwoSubs
    Total <- TwoTotals
    Resets <- TwoSubs
    Ends <- FirstEnds
    Estimates = {2}
    Costs = {1, 3}
    MaxPeriod = 1
    MaxTries = 1
    MaxConns = 4
    MaxFaults = 0
    LostAcks = FALSE
    MayCancel = TRUE
    MayCrash = FALSE
    Maintainer = m
INVARIANTS
    NotOversold
    UsageAccounted
PROPERTIES
    EndedStaysEnded
    ResetKept
    ImplementsRows
SYMMETRY Symmetric
CHECK_DEADLOCK FALSE
