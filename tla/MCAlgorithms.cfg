SPECIFICATION MCSpec
CONSTANTS
    Kinds = {"array", "expression", "brackets", "undirected", "directed", "maze", "keys", "words"}
    INSERTION_THRESHOLD = 2
    RADIX = 4
    PASSES = 2
    MaxLen = 6
    MaxLeaves = 4
    MaxText = 5
    MaxKeys = 5
    MaxWords = 3
    MAX_CAND = 2
CHECK_DEADLOCK FALSE
INVARIANTS
    Sorted
    StacksAnswer
    GraphsAnswer
    TreesAnswer
