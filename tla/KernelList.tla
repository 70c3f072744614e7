----------------------------- MODULE KernelList -----------------------------
(* The intrusive list of src/doubly_linked_list.c.  A node is the list     *)
(* member of a task; next and prev are defined on HEAD and the tasks.      *)
EXTENDS Integers, SequencesExt

CONSTANTS
    Value,          \* tasks: <<priority, ...>>
    NULL,
    Addr,           \* addresses malloc can return
    HEAD

VARIABLES list, ret

vars == <<list, ret>>

Live == DOMAIN list.task
Priority(x) == x[1]

list_init == [next |-> HEAD :> HEAD, prev |-> HEAD :> HEAD, task |-> <<>>]

Init == list = list_init /\ ret = NULL

list_empty == list.next[HEAD] = HEAD

\* task_new: which of the free addresses is taken does not matter.
NewTask == CHOOSE a \in Addr \ Live : TRUE

\* Mutant: prev of the successor is not set.
list_add_forward(l, n, p, q) ==
    [l EXCEPT !.next = [(n :> q) @@ @ EXCEPT ![p] = n], !.prev = (n :> p) @@ @]

__list_add(l, n, p, q) ==
    [l EXCEPT !.next = [(n :> q) @@ @ EXCEPT ![p] = n],
              !.prev = [(n :> p) @@ @ EXCEPT ![q] = n]]

Add(x, p, q) ==
    Live # Addr /\ list' = [__list_add(list, NewTask, p, q) EXCEPT !.task = (NewTask :> x) @@ @]

list_add(x) == Add(x, HEAD, list.next[HEAD]) /\ ret' = <<"push front", x>>
list_add_tail(x) == Add(x, list.prev[HEAD], HEAD) /\ ret' = <<"push back", x>>

\* The first task from pos on that has a lower priority, or HEAD
RECURSIVE FindLower(_, _)
FindLower(pos, x) ==
    IF pos = HEAD \/ Priority(x) > Priority(list.task[pos]) THEN pos
    ELSE FindLower(list.next[pos], x)

task_list_insert_sorted(x) ==
    LET pos == FindLower(list.next[HEAD], x)
    IN  Add(x, list.prev[pos], pos) /\ ret' = <<"insert sorted", x>>

Without(f, n) == [a \in (DOMAIN f) \ {n} |-> f[a]]

\* list_del leaves NULL in the entry, which belongs to no list until it is freed.
list_del(l, entry) ==
    LET n == [l.next EXCEPT ![l.prev[entry]] = l.next[entry]]
        p == [l.prev EXCEPT ![l.next[entry]] = l.prev[entry]]
    IN  [l EXCEPT !.next = [n EXCEPT ![entry] = NULL], !.prev = [p EXCEPT ![entry] = NULL]]

task_free(l, entry) ==
    [next |-> Without(l.next, entry), prev |-> Without(l.prev, entry),
     task |-> Without(l.task, entry)]

\* main takes the first task.
TakeFirst ==
    LET t == list.next[HEAD]
    IN  IF list_empty THEN ret' = <<"pop front", NULL>> /\ UNCHANGED list
        ELSE list' = task_free(list_del(list, t), t) /\ ret' = <<"pop front", list.task[t]>>

RECURSIVE Position(_)
Position(n) == IF list.prev[n] = HEAD THEN 0 ELSE Position(list.prev[n]) + 1

list_move_tail(n) ==
    LET l == list_del(list, n)
    IN  /\ list' = __list_add(l, n, l.prev[HEAD], HEAD)
        /\ ret' = <<"move to back", Position(n)>>

\* list_for_each_safe: the successor is read before the task is freed.
RECURSIVE FreeFrom(_, _)
FreeFrom(l, pos) ==
    IF pos = HEAD THEN l ELSE FreeFrom(task_free(list_del(l, pos), pos), l.next[pos])

FreeAll == list' = FreeFrom(list, list.next[HEAD]) /\ ret' = <<"clear">>

Next ==
    \/ \E x \in Value : list_add(x) \/ list_add_tail(x) \/ task_list_insert_sorted(x)
    \/ \E n \in Live : list_move_tail(n)
    \/ TakeFirst \/ FreeAll

Spec == Init /\ [][Next]_vars

RECURSIVE From(_, _)
From(n, left) == IF n = HEAD \/ left = 0 THEN <<>> ELSE <<n>> \o From(list.next[n], left - 1)
Nodes == From(list.next[HEAD], Cardinality(Live) + 1)
Contents == [k \in DOMAIN Nodes |-> list.task[Nodes[k]]]

\* The list holds every task there is once, and prev is next reversed.
ListExact ==
    /\ Len(Nodes) = Cardinality(Live) /\ {Nodes[k] : k \in DOMAIN Nodes} = Live
    /\ \A n \in Live \union {HEAD} : list.prev[list.next[n]] = n /\ list.next[list.prev[n]] = n
=============================================================================
