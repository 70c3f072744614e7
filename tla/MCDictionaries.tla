--------------------------- MODULE MCDictionaries ---------------------------
(* The four hash tables against one promise.  A behaviour is one table,    *)
(* chosen in the initial state with its hash functions, and a client; the  *)
(* variables of the other tables keep their first values.                  *)
EXTENDS HashFunctions, FiniteSets, TLC

CONSTANTS
    Units,              \* the tables under test
    NULL, TOMBSTONE,
    BucketCounts,
    OA_CAPACITY, Methods, UpdateBehindTombstone,
    RH_CAPACITY,
    CK_SIZE, MAX_LOOP

ASSUME TablesAssumption ==
    /\ BucketCounts \subseteq Nat \ {0}
    /\ {OA_CAPACITY, RH_CAPACITY, CK_SIZE} \subseteq Nat \ {0}
    /\ MAX_LOOP \in Nat
    /\ Methods \subseteq {"LINEAR", "QUADRATIC", "DOUBLE"}
    /\ NULL # TOMBSTONE
    /\ \A e \in {NULL, TOMBSTONE} : e \notin Key \X Value /\ e \notin Key \X Value \X Nat

VARIABLES
    buckets, bucket_count, hm_size,
    oa_slots, oa_size, method,
    rh_slots, rh_size,
    table1, table2, ck_size,
    unit            \* the table under test

Chaining == INSTANCE ChainingMap WITH size <- hm_size
Open == INSTANCE OpenAddressingMap WITH
    CAPACITY <- OA_CAPACITY, slots <- oa_slots, size <- oa_size
RobinHood == INSTANCE RobinHoodMap WITH
    CAPACITY <- RH_CAPACITY, slots <- rh_slots, size <- rh_size
Cuckoo == INSTANCE CuckooMap WITH size <- ck_size

chainingVars == <<buckets, bucket_count, hm_size>>
openVars     == <<oa_slots, oa_size, method>>
robinVars    == <<rh_slots, rh_size>>
cuckooVars   == <<table1, table2, ck_size>>
allVars == <<chainingVars, openVars, robinVars, cuckooVars, h1, h2, ret, unit>>

\* The hash values that matter to the table under test.
Relevant ==
    \A k \in Key :
      CASE unit = "chaining"   -> h1[k] < 4 /\ h2[k] = 1
        [] unit = "robin hood" -> h1[k] < RH_CAPACITY /\ h2[k] = 1
        [] unit = "open"       -> h1[k] \in {0, OA_CAPACITY - 1} /\ h2[k] # 0
        [] unit = "cuckoo"     -> h1[k] < CK_SIZE /\ h2[k] < CK_SIZE
        [] OTHER               -> h1[k] = 0 /\ h2[k] = 1

\* What does not run, and what a method does not use, has one initial value.
Minimal ==
    /\ unit # "chaining" => bucket_count = 1
    /\ unit # "open" => method = "LINEAR"
    /\ unit = "open" => \A k \in Key : IF method = "DOUBLE" THEN h1[k] = 0 ELSE h2[k] = 1

MCInit ==
    /\ unit \in Units
    /\ HashInit /\ Relevant
    /\ Chaining!Init /\ Open!Init /\ RobinHood!Init /\ Cuckoo!Init
    /\ Minimal

MCNext ==
    /\ UNCHANGED unit
    /\ \/ unit = "chaining" /\ Chaining!Next
          /\ UNCHANGED <<openVars, robinVars, cuckooVars>>
       \/ unit = "open" /\ Open!Next
          /\ UNCHANGED <<chainingVars, robinVars, cuckooVars>>
       \/ unit = "robin hood" /\ RobinHood!Next
          /\ UNCHANGED <<chainingVars, openVars, cuckooVars>>
       \/ unit = "cuckoo" /\ Cuckoo!Next
          /\ UNCHANGED <<chainingVars, openVars, robinVars>>

MCSpec == MCInit /\ [][MCNext]_allVars

Symmetry == Permutations(Key) \union Permutations(Value)

TypeOK == Chaining!TypeOK /\ Open!TypeOK /\ RobinHood!TypeOK /\ Cuckoo!TypeOK

\* In every table size, which decides about rehashing and refusals, counts the
\* entries, and every entry is where a lookup of its key comes.
TablesAreExact ==
    /\ Chaining!TableExact /\ Open!TableExact
    /\ RobinHood!TableExact /\ Cuckoo!TableExact

-----------------------------------------------------------------------------
\* What hm_get, oa_get, rh_get and ck_get find for a key.
Get(k) ==
    CASE unit = "chaining"   -> Chaining!hm_get(k)
      [] unit = "open"       -> Open!oa_get(k)
      [] unit = "robin hood" -> RobinHood!rh_get(k)
      [] unit = "cuckoo"     -> Cuckoo!ck_get(k)
      [] OTHER               -> Missing

IfCuckoo(a, b) == IF unit = "cuckoo" THEN a ELSE b

Exact == INSTANCE Dictionary WITH
    map <- [k \in Key |-> IfCuckoo(Missing, Get(k))],
    ret <- IfCuckoo(Missing, ret)

Lossy == INSTANCE Dictionary WITH
    map <- [k \in Key |-> IfCuckoo(Get(k), Missing)],
    ret <- IfCuckoo(ret, Missing)

\* Through any puts, updates, removals, collisions and rehashings a lookup finds
\* what was stored last, and the answers of the calls are true (open addressing:
\* if no key is updated behind a tombstone).
ImplementsDictionary == Exact!Spec

\* The cuckoo table is a map but for a put that fails: it has lost at most one
\* key, maybe another's, and changed no other (lines 105-107).
LosesAtMostOne == Lossy!LossySpec

\* A key that oa_remove has removed ("TOMBSTONE: deleted", line 17 of
\* hash_open_addressing.c) is not found any more.
DeletedIsGone ==
    [][\A k \in Key :
          unit = "open" /\ ret' = <<k, "removed">> => Open!oa_get(k)' = Missing]_allVars
=============================================================================
