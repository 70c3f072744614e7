CONSTANTS
    Readers = {r1, r2}
    Writers = {w1}
    Deleters = {d1}
    Main = main
    Addr = {a1, a2}
    NULL = NULL
    Key = {k1, k2}
    MAX_THREADS = 5
    INITIAL = 1
    WRITE_OPS = 1
    DELETE_OPS = 1
    SpuriousFailure = FALSE
SPECIFICATION Spec
INVARIANTS
    TypeOK
    NoUseAfterFree
    GracePeriod
    ListIsExact
PROPERTIES
    FindSeesOneList
SYMMETRY Symmetry
