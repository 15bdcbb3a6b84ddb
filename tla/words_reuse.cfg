SPECIFICATION Spec
CONSTANTS
    Docs <- MCDocs
    Indexers = {i1, i2}
    WorkersCount = 2
    IdSpace = 8
    LosesTail = FALSE
    MaxCalls = 2
    MaxFaults = 0
    MaxSessions = 2
INVARIANTS
    CandidatesShareTrigram
CHECK_DEADLOCK FALSE
