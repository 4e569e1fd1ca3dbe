\* A client brings a failed task to life, and it is refunded again.
SPECIFICATION Spec
CONSTANTS
    Tasks = {t1}
    Pollers = {p1}
    Clients = {c1}
    Kinds = {"realtime"}
    Ages = {FALSE}
    Quotas = {2}
    Actuals = {1, 4}
    SweepOn = TRUE
    MayLoseChannel = FALSE
    MayGarble = FALSE
    MayStray = FALSE
    MayHang = FALSE
    MaxFaults = 0
    MaxCrashes = 0
    MaxLooks = 1
    NoTask = none
INVARIANTS
    RefundedOnce
