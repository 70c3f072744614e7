----------------------------- MODULE CuckooMap ------------------------------
(***************************************************************************)
(* The cuckoo hash table of src/cuckoo_hash.c.  A slot of the two tables   *)
(* is NULL or <<key, value>>; a call is one action, with the entries it    *)
(* evicts and the one it frees when it gives up.                           *)
(***************************************************************************)
EXTENDS HashFunctions, FiniteSets

CONSTANTS
    NULL,
    CK_SIZE,        \* slots of a table
    MAX_LOOP        \* rounds of evictions of one put

VARIABLES table1, table2, size

vars == <<table1, table2, size, h1, h2, ret>>

Cells == 0 .. CK_SIZE - 1

Init ==
    /\ HashInit
    /\ table1 = [x \in Cells |-> NULL]
    /\ table2 = [x \in Cells |-> NULL]
    /\ size = 0

i1(k) == h1[k] % CK_SIZE
i2(k) == h2[k] % CK_SIZE

In1(k) == table1[i1(k)] # NULL /\ table1[i1(k)][1] = k
In2(k) == table2[i2(k)] # NULL /\ table2[i2(k)][1] = k

ck_get(k) ==
    IF In1(k) THEN table1[i1(k)][2] ELSE IF In2(k) THEN table2[i2(k)][2] ELSE Missing

-----------------------------------------------------------------------------
Update(k, v) ==
    /\ In1(k) \/ In2(k)
    /\ table1' = IF In1(k) THEN [table1 EXCEPT ![i1(k)] = <<k, v>>] ELSE table1
    /\ table2' = IF In1(k) THEN table2 ELSE [table2 EXCEPT ![i2(k)] = <<k, v>>]
    /\ Return(k, "stored")
    /\ UNCHANGED size

\* Mutant: the entry evicted from table2 is looked for under its second hash.
EvictAsBefore(st, loop) ==
    LET e == st.entry
        old1 == st.table1[i2(e[1])]
        first == [st.table1 EXCEPT ![i2(e[1])] = e]
        old2 == st.table2[i2(old1[1])]
        second == [st.table2 EXCEPT ![i2(old1[1])] = old1]
    IN  IF e = NULL THEN st
        ELSE IF old1 = NULL THEN [table1 |-> first, table2 |-> st.table2, entry |-> NULL]
        ELSE [table1 |-> first, table2 |-> second, entry |-> old2]

\* One round of ck_insert_entry: the entry in hand takes its slot of table1,
\* the one that was there takes its slot of table2, and the one that was there
\* is in hand.  It is over when a slot was empty: nothing is in hand.
Evict(st, loop) ==
    LET e == st.entry
        old1 == st.table1[i1(e[1])]
        first == [st.table1 EXCEPT ![i1(e[1])] = e]
        old2 == st.table2[i2(old1[1])]
        second == [st.table2 EXCEPT ![i2(old1[1])] = old1]
    IN  IF e = NULL THEN st
        ELSE IF old1 = NULL THEN [table1 |-> first, table2 |-> st.table2, entry |-> NULL]
        ELSE [table1 |-> first, table2 |-> second, entry |-> old2]

\* The entry still in hand after MAX_LOOP rounds is freed and the call fails,
\* although what it was called to insert may be in the tables.
Insert(k, v) ==
    LET start == [table1 |-> table1, table2 |-> table2, entry |-> <<k, v>>]
        round[i \in 0 .. MAX_LOOP] == IF i = 0 THEN start ELSE Evict(round[i - 1], i)
        end == round[MAX_LOOP]
    IN
    /\ ~ In1(k) /\ ~ In2(k)
    /\ table1' = end.table1
    /\ table2' = end.table2
    /\ size' = IF end.entry = NULL THEN size + 1 ELSE size
    /\ Return(k, IF end.entry = NULL THEN "stored" ELSE "refused")

RemoveKey(k) ==
    /\ In1(k) \/ In2(k)
    /\ table1' = IF In1(k) THEN [table1 EXCEPT ![i1(k)] = NULL] ELSE table1
    /\ table2' = IF In1(k) THEN table2 ELSE [table2 EXCEPT ![i2(k)] = NULL]
    /\ size' = size - 1
    /\ Return(k, "removed")

RemoveAbsent(k) ==
    /\ ~ In1(k) /\ ~ In2(k)
    /\ Return(k, "absent")
    /\ UNCHANGED <<table1, table2, size>>

Next == \E k \in Key :
    RemoveKey(k) \/ RemoveAbsent(k) \/ \E v \in Value : Update(k, v) \/ Insert(k, v)

Spec == Init /\ [][Next]_vars

-----------------------------------------------------------------------------
TypeOK ==
    /\ HashTypeOK
    /\ {table1, table2} \subseteq [Cells -> (Key \X Value) \union {NULL}]
    /\ size \in 0 .. 2 * CK_SIZE

\* size counts the entries, also after a put that gave up; every entry is in
\* the slot of its own hash value and no key is in both tables.
TableExact ==
    LET Used(table) == {x \in Cells : table[x] # NULL}
    IN  /\ size = Cardinality(Used(table1)) + Cardinality(Used(table2))
        /\ \A x \in Used(table1) : i1(table1[x][1]) = x /\ ~ In2(table1[x][1])
        /\ \A x \in Used(table2) : i2(table2[x][1]) = x
=============================================================================
