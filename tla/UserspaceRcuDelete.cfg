CONSTANTS
    Readers = {r1}
    Writers = {}
    Deleters = {d1, d2}
    Main = main
    Addr = {a1, a2}
    NULL = NULL
    Key = {k1, k2}
    MAX_THREADS = 5
    INITIAL = 2
    WRITE_OPS = 1
    DELETE_OPS = 1
    SpuriousFailure = FALSE
SPECIFICATION Spec
INVARIANTS
    NoUseAfterFree
SYMMETRY Symmetry
