SPECIFICATION Spec
CONSTANTS
    Priorities = {1, 2, 3}
    NoPriority = 0
    Supply <- MCSupply
INVARIANTS
    TypeOK
    HeapOrder
    PeekIsRemoved
PROPERTIES
    ImplementsBuffer
