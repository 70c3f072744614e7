SPECIFICATION MCSpec
CONSTANTS
    Kinds = {"modules"}
    INSERTION_THRESHOLD = 2
    RADIX = 4
    PASSES = 2
    MaxLen = 6
    MaxLeaves = 4
    MaxText = 5
    MaxKeys = 5
    MaxWords = 3
    MAX_CAND = 2
CHECK_DEADLOCK FALSE
INVARIANTS
    CyclesAreReported
