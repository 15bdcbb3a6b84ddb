SPECIFICATION FairSpec
CONSTANTS
    a = a
    b = b
    c = c
    Tasks = {a, b, c}
    Priority <- MCPriority
    Workers = {w1, w2}
    Main = main
    Ticker = ticker
    Free = free
    NoTask = none
    QueueCapacity = 1
    StackLimit = 1
    MaxTimeouts = 1
    InitialStacks <- MCStacks
INVARIANTS
    TypeOK
    SlotsMatchHeap
    EmptyHeapUnreachable
    WgMatchesHeap
    TasksConserved
PROPERTIES
    
    EveryTaskRuns
    FirstWaitReturns
CHECK_DEADLOCK FALSE
