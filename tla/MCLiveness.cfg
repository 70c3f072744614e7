CONSTANTS
    Producers = {p1, p2}
    Consumers = {c1, c2}
    Addr = {a1, a2}
    NULL = NULL
    OPS = 1
    MAX_THREADS = 4
    HP_PER_THREAD = 1
    RETIRE_LIMIT = 1
    SpuriousFailure = FALSE
    Readers = {r1}
    Writers = {w1}
    Deleters = {d1}
    Main = main
    Key = {k1, k2}
    RCU_MAX_THREADS = 5
    INITIAL = 1
    WRITE_OPS = 1
    DELETE_OPS = 1
SPECIFICATION MCSpec
INVARIANTS
    EmptyAtEnd
PROPERTIES
    WorkersEnd
    RcuEnds
