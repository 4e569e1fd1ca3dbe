\* One poller and two tasks of every kind it may poll, nothing fails.
SPECIFICATION Spec
CONSTANTS
    Tasks = {t1, t2}
    Pollers = {p1}
    Clients = {}
    Kinds = {"video", "suno", "anonymous"}
    Ages = {TRUE, FALSE}
    Quotas = {0, 2}
    Actuals = {1, 4}
    SweepOn = TRUE
    MayLoseChannel = FALSE
    MayGarble = TRUE
    MayStray = FALSE
    MayHang = FALSE
    MaxFaults = 0
    MaxCrashes = 0
    MaxLooks = 0
    NoTask = none
INVARIANTS
    EndPaidFor
PROPERTIES
    ImplementsContract
