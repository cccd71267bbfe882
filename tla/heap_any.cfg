SPECIFICATION Spec
CONSTANTS
    Sizes = {1000, 3096, 4096, 5000}
    PageNumbers = {1, 2, 3, 4, 5}
    NodesPerPage = 2
    MaxBlocks = 3
INVARIANTS
    TypeOK
    BlocksDisjoint
    MallocedIsUsed
PROPERTY
    ImplementsAllocator
CHECK_DEADLOCK FALSE
