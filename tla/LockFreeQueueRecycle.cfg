CONSTANTS
    Enqueuers = {0, 1, 2}
    Dequeuers = {c1}
    NULL = NULL
    OPS = 1
    SpuriousFailure = FALSE
SPECIFICATION MCSpec
INVARIANTS
    EnqueuedIsKept
CHECK_DEADLOCK FALSE
