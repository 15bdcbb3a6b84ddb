SPECIFICATION FairSpec
CONSTANTS
    Docs <- MCDocs
    Indexers = {i1, i2}
    WorkersCount = 2
    IdSpace = 8
    LosesTail = TRUE
    MaxCalls = 2
    MaxFaults = 1
    MaxSessions = 2
INVARIANTS
    FreshIdsResolve
    TrigramsComplete
PROPERTIES
    CallsReturn
CHECK_DEADLOCK FALSE
