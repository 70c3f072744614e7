---------------------------- MODULE RobinHoodMap ----------------------------
(***************************************************************************)
(* The Robin Hood hash table of src/robin_hood_hash.c.  A slot is NULL or  *)
(* <<key, value, dib>>, dib being the distance from the initial bucket; a  *)
(* call is one action, with every swap or shift it does.                   *)
(***************************************************************************)
EXTENDS HashFunctions, FiniteSetsExt

CONSTANTS
    NULL,
    CAPACITY        \* RH_CAPACITY

VARIABLES slots, size

vars == <<slots, size, h1, h2, ret>>

Cells == 0 .. CAPACITY - 1

Init ==
    /\ HashInit
    /\ slots = [x \in Cells |-> NULL]
    /\ size = 0

\* The cell at distance i from the ideal one of k.
Cell(k, i) == (h1[k] + i) % CAPACITY

\* The distance at which rh_get and rh_remove stop: at an empty slot, at one
\* nearer to its ideal cell than k would be, or at k.
Stop(k) ==
    Min({CAPACITY} \union {i \in Cells :
          \/ slots[Cell(k, i)] = NULL
          \/ slots[Cell(k, i)][3] < i
          \/ slots[Cell(k, i)][1] = k})

Found(k) ==
    /\ Stop(k) < CAPACITY
    /\ LET s == slots[Cell(k, Stop(k))] IN s # NULL /\ s[3] >= Stop(k) /\ s[1] = k

rh_get(k) == IF Found(k) THEN slots[Cell(k, Stop(k))][2] ELSE Missing

-----------------------------------------------------------------------------
Full == size >= (CAPACITY * 3) \div 4

\* One iteration of rh_put's loop: the entry in hand takes an empty slot,
\* updates its key's, or goes on, as the slot's former entry if that one is
\* nearer to its ideal cell.
Probe(k, st, i) ==
    LET x == Cell(k, i)
        s == st.slots[x]
        State(e, ins, how) ==
            [slots |-> [st.slots EXCEPT ![x] = e], ins |-> ins, how |-> how]
        Carry(e) == <<e[1], e[2], e[3] + 1>>
    IN  IF st.how # "none" THEN st
        ELSE IF s = NULL THEN State(st.ins, st.ins, "new")
        ELSE IF s[1] = k THEN State(<<k, st.ins[2], s[3]>>, st.ins, "update")
        ELSE IF st.ins[3] > s[3] THEN State(st.ins, Carry(s), "none")
        ELSE State(s, Carry(st.ins), "none")

Put(k, v) ==
    LET start == [slots |-> slots, ins |-> <<k, v, 0>>, how |-> "none"]
        loop[i \in 0 .. CAPACITY] ==
            IF i = 0 THEN start ELSE Probe(k, loop[i - 1], i - 1)
        end == loop[CAPACITY]
    IN
    /\ ~ Full
    /\ slots' = end.slots
    /\ size' = IF end.how = "new" THEN size + 1 ELSE size
    /\ Return(k, IF end.how = "none" THEN "refused" ELSE "stored")

PutRefused(k) ==
    /\ Full
    /\ Return(k, "refused")
    /\ UNCHANGED <<slots, size>>

\* Mutant: entries in their ideal cell are shifted as well.
ShiftedFromHome(at) ==
    LET Behind(i) == slots[(at + i) % CAPACITY]
        run == Min({CAPACITY} \union {i \in 1 .. CAPACITY - 1 : Behind(i) = NULL})
        From(i) == <<Behind(i)[1], Behind(i)[2], Behind(i)[3] - 1>>
    IN  [x \in Cells |->
            LET i == (x - at) % CAPACITY
            IN  IF i < run - 1 THEN From(i + 1) ELSE IF i = run - 1 THEN NULL ELSE slots[x]]

\* The slots after the entry in cell `at` is gone and the entries behind it, up
\* to an empty slot or an entry in its ideal cell, are shifted back by one.
Shifted(at) ==
    LET Behind(i) == slots[(at + i) % CAPACITY]
        run == Min({CAPACITY} \union
                 {i \in 1 .. CAPACITY - 1 : Behind(i) = NULL \/ Behind(i)[3] = 0})
        From(i) == <<Behind(i)[1], Behind(i)[2], Behind(i)[3] - 1>>
    IN  [x \in Cells |->
            LET i == (x - at) % CAPACITY
            IN  IF i < run - 1 THEN From(i + 1) ELSE IF i = run - 1 THEN NULL ELSE slots[x]]

RemoveKey(k) ==
    /\ Found(k)
    /\ slots' = Shifted(Cell(k, Stop(k)))
    /\ size' = size - 1
    /\ Return(k, "removed")

RemoveAbsent(k) ==
    /\ ~ Found(k)
    /\ Return(k, "absent")
    /\ UNCHANGED <<slots, size>>

Next == \E k \in Key :
    PutRefused(k) \/ RemoveKey(k) \/ RemoveAbsent(k) \/ \E v \in Value : Put(k, v)

Spec == Init /\ [][Next]_vars

-----------------------------------------------------------------------------
TypeOK ==
    /\ HashTypeOK
    /\ size \in 0 .. CAPACITY
    /\ slots \in [Cells -> (Key \X Value \X Cells) \union {NULL}]

\* Every entry's dib is its distance from its ideal cell, the cells between
\* hold entries at least as far from theirs as the probe has come (the early
\* return of line 50 depends on it), and size counts the entries.
TableExact ==
    LET Used == {x \in Cells : slots[x] # NULL}
    IN  /\ size = Cardinality(Used)
        /\ \A x \in Used : LET k == slots[x][1] IN
              /\ x = Cell(k, slots[x][3])
              /\ \A i \in 0 .. slots[x][3] - 1 :
                    slots[Cell(k, i)] # NULL /\ slots[Cell(k, i)][3] >= i
=============================================================================
