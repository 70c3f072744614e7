-------------------------------- MODULE Deque -------------------------------
(* The deque of src/priority_queue.c: a ring of nodes through a sentinel.  *)
(* next, prev and data are defined on the nodes that exist.                *)
EXTENDS Integers, SequencesExt

CONSTANTS
    Value, NULL,
    Addr,           \* addresses malloc can return
    SENTINEL

VARIABLES dq, ret

vars == <<dq, ret>>

Live == DOMAIN dq.data
Free == Addr \ Live

deque_init ==
    [next |-> SENTINEL :> SENTINEL, prev |-> SENTINEL :> SENTINEL,
     data |-> <<>>, size |-> 0]

Init == dq = deque_init /\ ret = NULL

deque_empty == dq.size = 0

\* A node at any free address goes between two neighbours; the program ends
\* when there is none.
deque_insert_between(x, p, q) ==
    LET n == CHOOSE a \in Free : TRUE
    IN  /\ Free # {}
        /\ dq' = [dq EXCEPT !.next = (n :> q) @@ [@ EXCEPT ![p] = n],
                            !.prev = (n :> p) @@ [@ EXCEPT ![q] = n],
                            !.data = (n :> x) @@ @,
                            !.size = @ + 1]

deque_push_front(x) ==
    deque_insert_between(x, SENTINEL, dq.next[SENTINEL]) /\ ret' = <<"push front", x>>

deque_push_back(x) ==
    deque_insert_between(x, dq.prev[SENTINEL], SENTINEL) /\ ret' = <<"push back", x>>

Without(f, n) == [a \in (DOMAIN f) \ {n} |-> f[a]]

deque_pop_node(target, call) ==
    IF target = SENTINEL THEN ret' = <<call, NULL>> /\ UNCHANGED dq
    ELSE /\ ret' = <<call, dq.data[target]>>
         /\ dq' = [next |-> Without([dq.next EXCEPT ![dq.prev[target]] = dq.next[target]], target),
                   prev |-> Without([dq.prev EXCEPT ![dq.next[target]] = dq.prev[target]], target),
                   data |-> Without(dq.data, target),
                   size |-> dq.size - 1]

deque_pop_front == deque_pop_node(dq.next[SENTINEL], "pop front")
deque_pop_back == deque_pop_node(dq.prev[SENTINEL], "pop back")

Peek(call, n) == ret' = <<call, IF deque_empty THEN NULL ELSE dq.data[n]>> /\ UNCHANGED dq

deque_peek_front == Peek("front", dq.next[SENTINEL])
deque_peek_back == Peek("back", dq.prev[SENTINEL])

\* Pops until the size is 0.
deque_destroy == dq' = deque_init /\ ret' = <<"clear">>

Next ==
    \/ \E x \in Value : deque_push_front(x) \/ deque_push_back(x)
    \/ deque_pop_front \/ deque_pop_back \/ deque_peek_front \/ deque_peek_back
    \/ deque_destroy

Spec == Init /\ [][Next]_vars

\* The nodes met from the sentinel on, and their values
RECURSIVE From(_, _)
From(n, left) == IF n = SENTINEL \/ left = 0 THEN <<>> ELSE <<n>> \o From(dq.next[n], left - 1)
Nodes == From(dq.next[SENTINEL], dq.size + 1)
Contents == [k \in DOMAIN Nodes |-> dq.data[Nodes[k]]]

\* The list holds every node there is, size of them, and prev is next reversed.
DequeExact ==
    /\ Len(Nodes) = dq.size
    /\ {Nodes[k] : k \in DOMAIN Nodes} = Live
    /\ \A n \in Live \union {SENTINEL} : dq.prev[dq.next[n]] = n /\ dq.next[dq.prev[n]] = n
=============================================================================
