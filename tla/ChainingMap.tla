---------------------------- MODULE ChainingMap -----------------------------
(***************************************************************************)
(* The hash table with chains of src/hash_chaining.c.  A chain is the      *)
(* sequence of its entries <<key, value>>, first entry first; a call is    *)
(* one action, with the rehashing it does.                                 *)
(***************************************************************************)
EXTENDS HashFunctions, SequencesExt

CONSTANT BucketCounts       \* the bucket_count hm_init is called with

VARIABLES buckets, bucket_count, size

vars == <<buckets, bucket_count, size, h1, h2, ret>>

Init ==
    /\ HashInit
    /\ bucket_count \in BucketCounts
    /\ buckets = [b \in 0 .. bucket_count - 1 |-> <<>>]
    /\ size = 0

\* The place of k in a chain, 0 if it is not there.
Position(chain, k) == SelectInSeq(chain, LAMBDA e : e[1] = k)

hm_get(k) ==
    LET chain == buckets[h1[k] % bucket_count]
        at == Position(chain, k)
    IN  IF at = 0 THEN Missing ELSE chain[at][2]

-----------------------------------------------------------------------------
\* size / bucket_count > 0.75
Crowded == 4 * size > 3 * bucket_count

\* hm_rehash: every entry moves to the front of its chain of the new table, in
\* the order of the old buckets and their chains.
Rehashed ==
    LET all == FlattenSeq([b \in 1 .. bucket_count |-> buckets[b - 1]])
        idx(i) == h1[all[i][1]] % (2 * bucket_count)
        moved[i \in 0 .. Len(all)] ==
            IF i = 0 THEN [b \in 0 .. 2 * bucket_count - 1 |-> <<>>]
            ELSE [moved[i - 1] EXCEPT ![idx(i)] = <<all[i]>> \o @]
    IN  moved[Len(all)]

\* The table hm_put searches.
Table == IF Crowded THEN Rehashed ELSE buckets

Put(k, v) ==
    LET count == IF Crowded THEN 2 * bucket_count ELSE bucket_count
        idx == h1[k] % count
        at == Position(Table[idx], k)
    IN
    /\ bucket_count' = count
    /\ IF at # 0
         THEN /\ buckets' = [Table EXCEPT ![idx][at] = <<k, v>>]
              /\ UNCHANGED size
         ELSE /\ buckets' = [Table EXCEPT ![idx] = <<<<k, v>>>> \o @]
              /\ size' = size + 1
    /\ Return(k, "stored")

RemoveKey(k) ==
    LET idx == h1[k] % bucket_count
        at == Position(buckets[idx], k)
    IN
    /\ at # 0
    /\ buckets' = [buckets EXCEPT ![idx] = RemoveAt(@, at)]
    /\ size' = size - 1
    /\ Return(k, "removed")
    /\ UNCHANGED bucket_count

RemoveAbsent(k) ==
    /\ Position(buckets[h1[k] % bucket_count], k) = 0
    /\ Return(k, "absent")
    /\ UNCHANGED <<buckets, bucket_count, size>>

Next == \E k \in Key :
    RemoveKey(k) \/ RemoveAbsent(k) \/ \E v \in Value : Put(k, v)

Spec == Init /\ [][Next]_vars

-----------------------------------------------------------------------------
TypeOK ==
    /\ HashTypeOK
    /\ bucket_count \in Nat \ {0}
    /\ size \in Nat
    /\ DOMAIN buckets = 0 .. bucket_count - 1
    /\ \A b \in DOMAIN buckets : ToSet(buckets[b]) \subseteq Key \X Value

\* size counts the entries, which decides when hm_put rehashes (line 84), and
\* every entry is in the chain hm_get searches for it, once.
TableExact ==
    /\ size = Len(FlattenSeq([b \in 1 .. bucket_count |-> buckets[b - 1]]))
    /\ \A b \in DOMAIN buckets : \A x, y \in DOMAIN buckets[b] :
          /\ h1[buckets[b][x][1]] % bucket_count = b
          /\ buckets[b][x][1] = buckets[b][y][1] => x = y
=============================================================================
