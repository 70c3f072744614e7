------------------------- MODULE OpenAddressingMap --------------------------
(***************************************************************************)
(* The hash table with open addressing and tombstones of                   *)
(* src/hash_open_addressing.c, with its three ways to probe.  A slot is    *)
(* NULL, TOMBSTONE or <<key, value>>; a call is one action.                *)
(***************************************************************************)
EXTENDS HashFunctions, FiniteSets

CONSTANTS
    NULL, TOMBSTONE,
    CAPACITY,               \* MAX_SIZE
    Methods,                \* the methods oa_init is called with
    UpdateBehindTombstone   \* does the client update such keys?

VARIABLES slots, size, method

vars == <<slots, size, method, h1, h2, ret>>

Tries == 0 .. CAPACITY - 1

Init ==
    /\ HashInit
    /\ slots = [x \in Tries |-> NULL]
    /\ size = 0
    /\ method \in Methods

probe(k, i) ==
    ( h1[k] + CASE method = "LINEAR"    -> i
                [] method = "QUADRATIC" -> i * i
                [] method = "DOUBLE"    -> i * h2[k] ) % CAPACITY

Slot(k, i) == slots[probe(k, i)]

Holds(k, i) == Slot(k, i) \notin {NULL, TOMBSTONE} /\ Slot(k, i)[1] = k

\* The first try that passes the test, CAPACITY if none does.
First(Test(_)) ==
    IF \E i \in Tries : Test(i)
      THEN CHOOSE i \in Tries : Test(i) /\ \A j \in 0 .. i - 1 : ~ Test(j)
      ELSE CAPACITY

\* The try of oa_get and oa_remove that finds k, CAPACITY if none does.
Find(k) ==
    LET i == First(LAMBDA j : Slot(k, j) = NULL \/ Holds(k, j))
    IN  IF i < CAPACITY /\ Holds(k, i) THEN i ELSE CAPACITY

oa_get(k) ==
    LET i == Find(k) IN IF i = CAPACITY THEN Missing ELSE Slot(k, i)[2]

-----------------------------------------------------------------------------
Full == size >= (CAPACITY * 2) \div 3

\* The try at which oa_put stops: a slot without a key, or with its own.
Place(k) == First(LAMBDA j : Slot(k, j) \in {NULL, TOMBSTONE} \/ Holds(k, j))

PutNew(k, v) ==
    LET i == Place(k) IN
    /\ ~ Full
    /\ i < CAPACITY /\ ~ Holds(k, i)
    /\ UpdateBehindTombstone \/ oa_get(k) = Missing
    /\ slots' = [slots EXCEPT ![probe(k, i)] = <<k, v>>]
    /\ size' = size + 1
    /\ Return(k, "stored")
    /\ UNCHANGED method

PutUpdate(k, v) ==
    LET i == Place(k) IN
    /\ ~ Full
    /\ i < CAPACITY /\ Holds(k, i)
    /\ slots' = [slots EXCEPT ![probe(k, i)] = <<k, v>>]
    /\ Return(k, "stored")
    /\ UNCHANGED <<size, method>>

\* The load factor is reached, or no try finds room.
PutRefused(k) ==
    /\ Full \/ Place(k) = CAPACITY
    /\ Return(k, "refused")
    /\ UNCHANGED <<slots, size, method>>

\* Mutant: the slot becomes empty, which ends the probe path of other keys.
RemoveLeavesHole(k) ==
    LET i == Find(k) IN
    /\ i < CAPACITY
    /\ slots' = [slots EXCEPT ![probe(k, i)] = NULL]
    /\ size' = size - 1
    /\ Return(k, "removed")
    /\ UNCHANGED method

RemoveKey(k) ==
    LET i == Find(k) IN
    /\ i < CAPACITY
    /\ slots' = [slots EXCEPT ![probe(k, i)] = TOMBSTONE]
    /\ size' = size - 1
    /\ Return(k, "removed")
    /\ UNCHANGED method

RemoveAbsent(k) ==
    /\ Find(k) = CAPACITY
    /\ Return(k, "absent")
    /\ UNCHANGED <<slots, size, method>>

Next == \E k \in Key :
    \/ PutRefused(k) \/ RemoveKey(k) \/ RemoveAbsent(k)
    \/ \E v \in Value : PutNew(k, v) \/ PutUpdate(k, v)

Spec == Init /\ [][Next]_vars

-----------------------------------------------------------------------------
TypeOK ==
    /\ HashTypeOK
    /\ method \in Methods
    /\ size \in 0 .. CAPACITY
    /\ slots \in [Tries -> (Key \X Value) \union {NULL, TOMBSTONE}]

\* size counts the keys in the table, which decides when oa_put refuses
\* (line 78).
TableExact == size = Cardinality({x \in Tries : slots[x] \notin {NULL, TOMBSTONE}})
=============================================================================
