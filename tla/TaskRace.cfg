\* Two pollers and a client, a lost channel, stray reports, hanging fetches, an
\* error and a kill: one of them bills the task, and it ends.
SPECIFICATION FairSpec
CONSTANTS
    Tasks = {t1}
    Pollers = {p1, p2}
    Clients = {c1}
    Kinds = {"video", "realtime"}
    Ages = {FALSE}
    Quotas = {2}
    Actuals = {4}
    SweepOn = TRUE
    MayLoseChannel = TRUE
    MayGarble = TRUE
    MayStray = TRUE
    MayHang = TRUE
    MaxFaults = 1
    MaxCrashes = 1
    MaxLooks = 1
    NoTask = none
INVARIANTS
    BilledOnce
    TokenFollowsFund
PROPERTIES
    FinalStays
    TasksEnd
CHECK_DEADLOCK FALSE
