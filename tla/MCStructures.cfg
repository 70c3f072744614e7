SPECIFICATION StructuresSpec
CONSTANTS
    Key = {k1, k2, k3, k4}
    Value = {v1, v2}
    Missing = Missing
    Hash1 = {0, 1, 2, 3, 5, 7}
    Hash2 = {0, 1, 3}
    Units = {"chaining", "open", "robin hood", "cuckoo",
             "ring", "deque", "singly", "kernel", "vector", "dynamic array", "array stack", "sds",
             "min heap", "priority queue", "tasks", "events"}
    NULL = NULL
    TOMBSTONE = TOMBSTONE
    BucketCounts = {1, 2}
    OA_CAPACITY = 8
    Methods = {"LINEAR", "QUADRATIC", "DOUBLE"}
    UpdateBehindTombstone = FALSE
    RH_CAPACITY = 6
    CK_SIZE = 2
    MAX_LOOP = 4
    Addr = {11, 12, 13}
    SENTINEL = SENTINEL
    WORD = 8
    RingSizes = {1, 3}
    MaxCount = 4
    ArraySizes = {0, 1}
    MaxSize = 4
    Priorities = {1, 2}
    MaxSeq = 5
    MAX_EVENTS = 3
    MaxNow = 3
SYMMETRY Symmetry
INVARIANTS
    TypeOK
    StructuresAreExact
    EventsRunInTime
PROPERTIES
    ImplementsDictionary
    LosesAtMostOne
    ImplementsSequence
    ImplementsPriorityQueue
