SPECIFICATION MCSpec
CONSTANTS
    Key = {k1, k2}
    Value = {v1, v2}
    Missing = Missing
    Hash1 = {0, 1, 2, 3, 5, 7}
    Hash2 = {0, 1, 3}
    Units = {"open"}
    NULL = NULL
    TOMBSTONE = TOMBSTONE
    BucketCounts = {1, 2}
    OA_CAPACITY = 8
    Methods = {"LINEAR"}
    UpdateBehindTombstone = TRUE
    RH_CAPACITY = 6
    CK_SIZE = 2
    MAX_LOOP = 4
SYMMETRY Symmetry
PROPERTIES
    DeletedIsGone
