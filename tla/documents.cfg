SPECIFICATION FairSpec
CONSTANTS
    a = a
    b = b
    c = c
    Pages = {a, b, c}
    Sign <- MCSign
    WordsOf <- MCWords
    Skipped = {c}
    ChunkLen = 3
    Shards = 2
    WorkersCount = 1
    MaxCalls = 2
    MaxFaults = 1
    MaxSessions = 2
INVARIANTS
    PostingsHaveDocs
    SearchExact
    SignaturesHaveDocs
    SignaturesComplete
    BigramsExact
    
PROPERTIES
    ShutdownEnds
CHECK_DEADLOCK FALSE
