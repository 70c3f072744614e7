CONSTANTS
    Thread = {t1, t2}
    Node = {n1, n2, n3}
    NULL = NULL
    TagMod = 4
    MaxCas = 7
    SpuriousFailure = TRUE
SPECIFICATION Spec
INVARIANTS
    TagPreventsAba
