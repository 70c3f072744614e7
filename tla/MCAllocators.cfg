SPECIFICATION MCSpec
CONSTANTS
    Slab = {s1, s2, s3}
    NULL = NULL
    Handle = {h1, h2, h3, h4, h5}
    Requests <- MCRequests
    SLAB_PAGE_SIZE = 8
    BITMAP_BITS = 3
    POINTER_SIZE = 2
    WORD = 6
    CAPACITY = 4
    Pattern = Pattern
    ArenaRequests <- MCArenaRequests
    ArenaBases <- MCArenaBases
    ARENA_CAPACITY = 11
    ARENA_WORD = 64
SYMMETRY Symmetry
INVARIANTS
    TypeOK
    AllListsAreExact
    BlocksAreAligned
PROPERTIES
    ImplementsAllocator
