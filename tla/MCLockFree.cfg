CONSTANTS
    Pushers = {p1, p2}
    Poppers = {c1, c2}
    NULL = NULL
    OPS_PER_TH = 2
    SpuriousFailure = TRUE
    Node = {c1, c2, n3}
    Enqueuers = {0, 1}
    QUEUE_OPS = 1
    TagMod = 4
    MaxCas = 7
    ITERS = 2
    MaxValue = 3
    PIECES = 2
SPECIFICATION MCSpec
INVARIANTS
    MCTypeOK
    EndResults
    QueueIntact
    EmptyIsTrue
    IntactUntilAba
    CriticalSection
    PublishedObjects
PROPERTIES
    PublishedIsFrozen
    ImplementsStack
    ImplementsQueue
SYMMETRY Symmetry
