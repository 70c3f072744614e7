--------------------------- MODULE HashFunctions ----------------------------
(***************************************************************************)
(* What the four hash tables share: keys and values, the functions that    *)
(* hash a key, and the answer of the last call.  Nothing is known of the   *)
(* hash functions (src/hash_functions.c and the copies in every table):    *)
(* any keys may collide, so their values are chosen in the initial state.  *)
(***************************************************************************)
EXTENDS Integers, Sequences

CONSTANTS Key, Value,
    Missing,            \* what a lookup of an absent key returns: NULL
    Hash1, Hash2        \* the values of the two hash functions

ASSUME HashAssumption ==
    /\ Missing \notin Key \union Value
    /\ Hash1 \subseteq Nat
    /\ Hash2 \subseteq Nat

VARIABLES
    h1, h2,     \* fnv1a, called h1 in two tables; the second function
    ret         \* the key and the answer of the last call

HashInit ==
    /\ h1 \in [Key -> Hash1]
    /\ h2 \in [Key -> Hash2]
    /\ ret = Missing

\* The end of a call for key k.
Return(k, answer) ==
    /\ ret' = <<k, answer>>
    /\ UNCHANGED <<h1, h2>>

HashTypeOK ==
    /\ h1 \in [Key -> Hash1]
    /\ h2 \in [Key -> Hash2]
    /\ ret \in (Key \X {"stored", "refused", "removed", "absent"}) \union {Missing}
=============================================================================
