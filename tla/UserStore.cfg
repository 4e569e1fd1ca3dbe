\* A user who is charged, topped up and edited by two handlers, with one fault.
SPECIFICATION FairSpec
CONSTANTS
    Slots = {s1, s2}
    Handlers = {h1, h2}
    None = none
    BatchOn = TRUE
    InitQuota = 2
    Changes <- Charge
    TopUps = {4}
    Overrides = {0}
    MaxCalls = 3
    MaxFaults = 1
INVARIANTS
    Conserved
    CacheInStep
    DisabledIsRefused
PROPERTIES
    SettlesDown
CHECK_DEADLOCK FALSE
