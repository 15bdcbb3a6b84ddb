SPECIFICATION Spec
CONSTANTS
    a = a
    b = b
    c = c
    Pages = {a, b, c}
    Links <- MCLinks
    Starts = {a}
    Workers = {w1, w2}
    LruCapacity = 1
    MaxDepth = 3
    MaxFaults = 1
INVARIANTS
    ResumedCrawlCompletes
CHECK_DEADLOCK FALSE
