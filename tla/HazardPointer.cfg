CONSTANTS
    Producers = {p1}
    Consumers = {c1, c2}
    Addr = {a1, a2, a3}
    NULL = NULL
    OPS = 4
    MAX_THREADS = 3
    HP_PER_THREAD = 2
    RETIRE_LIMIT = 3
    SpuriousFailure = TRUE
SPECIFICATION Spec
INVARIANTS
    TypeOK
    ProtectedIsLive
    CasInstallsSuccessor
    RetiredOnce
    StackShape
    RetireFits
PROPERTIES
    ImplementsStack
SYMMETRY Symmetry
