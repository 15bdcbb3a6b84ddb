SPECIFICATION FairSpec
CONSTANTS
    u = u
    Handlers = 2
    Batches <- MCBatches
    ChanCapacity = 1
    OutCapacity = 0
    MaxStarts = 2
    MaxStops = 1
    MaxFaults = 1
INVARIANTS
    RunningIsTrue
    
    UrlsConserved
PROPERTIES
    UrlsArrive
    
CHECK_DEADLOCK FALSE
