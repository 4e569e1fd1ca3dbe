\* One request over two groups while channels are disabled, tested, edited
\* and synchronised, with a database error, a panic or a restart.
SPECIFICATION FairSpec
CONSTANTS
    Channels = {1, 2}
    Requests = {r1}
    Workers = {w1}
    NumGroups = 2
    GroupsOf <- TheGroups
    Priority <- ThePriorities
    Multi = {2}
    Keys = {k1, k2}
    FirstKey = k1
    NoKey = none
    RetryTimes = 1
    MaxEvents = 1
INVARIANTS
    TriesBounded
PROPERTIES
    PrioritiesExhausted
    ManualStays
    CacheCatchesUp
