-------------------------- MODULE SinglyLinkedList --------------------------
(* The list of src/singly_linked_list.c.  next and data are defined on the *)
(* nodes that exist; a read through a freed node is an error of TLC.       *)
EXTENDS Chains, SequencesExt

CONSTANTS
    Value, NULL,
    Addr            \* addresses malloc can return

VARIABLES list, ret

vars == <<list, ret>>

Live == DOMAIN list.data
KeyOf(x) == x[1]

sll_init == [head |-> NULL, size |-> 0, next |-> <<>>, data |-> <<>>]

Init == list = sll_init /\ ret = NULL

\* node_new: an address that is free (which one does not matter)
NewNode == CHOOSE a \in Addr \ Live : TRUE

\* The list with the new node in front of succ; the caller links it.
WithNode(x, succ) ==
    [list EXCEPT !.next = (NewNode :> succ) @@ @, !.data = (NewNode :> x) @@ @, !.size = @ + 1]

Prepended(x) == [WithNode(x, list.head) EXCEPT !.head = NewNode]

sll_prepend(x) ==
    /\ Live # Addr
    /\ list' = Prepended(x)
    /\ ret' = <<"push front", x>>

\* The node reached from head by k steps, and the last one
RECURSIVE Step(_)
Step(k) == IF k = 0 THEN list.head ELSE list.next[Step(k - 1)]

RECURSIVE LastFrom(_)
LastFrom(n) == IF list.next[n] = NULL THEN n ELSE LastFrom(list.next[n])

sll_append(x) ==
    /\ Live # Addr
    /\ list' = IF list.head = NULL THEN Prepended(x)
               ELSE [WithNode(x, NULL) EXCEPT !.next[LastFrom(list.head)] = NewNode]
    /\ ret' = <<"push back", x>>

sll_insert_at(index, x) ==
    IF index > list.size THEN ret' = <<"refused">> /\ UNCHANGED list
    ELSE /\ Live # Addr
         /\ ret' = <<"insert", index, x>>
         /\ list' = IF index = 0 THEN Prepended(x)
                    ELSE [WithNode(x, list.next[Step(index - 1)])
                             EXCEPT !.next[Step(index - 1)] = NewNode]

\* The first node from n on whose data has the key of x, or NULL
RECURSIVE Find(_, _)
Find(n, x) ==
    IF n = NULL THEN NULL ELSE IF KeyOf(list.data[n]) = KeyOf(x) THEN n ELSE Find(list.next[n], x)

Without(f, n) == [a \in (DOMAIN f) \ {n} |-> f[a]]

\* pp is the pointer that leads to the node: head, or a next.
sll_remove(x) ==
    LET target == Find(list.head, x)
        succ == list.next[target]
        relinked == [a \in Live |-> IF list.next[a] = target THEN succ ELSE list.next[a]]
    IN  IF target = NULL THEN ret' = <<"remove", x, FALSE>> /\ UNCHANGED list
        ELSE /\ ret' = <<"remove", x, TRUE>>
             /\ list' = [head |-> IF list.head = target THEN succ ELSE list.head,
                         size |-> list.size - 1,
                         next |-> Without(relinked, target),
                         data |-> Without(list.data, target)]

RECURSIVE Reversed(_, _, _)
Reversed(next, prev, cur) ==
    IF cur = NULL THEN [next |-> next, head |-> prev]
    ELSE Reversed([next EXCEPT ![cur] = prev], cur, next[cur])

sll_reverse ==
    LET r == Reversed(list.next, NULL, list.head)
    IN  list' = [list EXCEPT !.next = r.next, !.head = r.head] /\ ret' = <<"reverse">>

\* The tortoise and the hare of sll_has_cycle
RECURSIVE Race(_, _, _)
Race(next, slow, fast) ==
    IF fast = NULL \/ next[fast] = NULL THEN FALSE
    ELSE LET s == next[slow]
             f == next[next[fast]]
         IN  s = f \/ Race(next, s, f)

sll_has_cycle == ret' = <<"has cycle", FALSE, Race(list.next, list.head, list.head)>>
                 /\ UNCHANGED list

\* main ties the last node to the second one, asks, and unties it.
CheckTied ==
    LET tied == [list.next EXCEPT ![LastFrom(list.head)] = list.next[list.head]]
    IN  /\ list.size > 1
        /\ ret' = <<"has cycle", TRUE, Race(tied, list.head, list.head)>>
        /\ UNCHANGED list

sll_destroy == list' = sll_init /\ ret' = <<"clear">>

Next ==
    \/ \E x \in Value : sll_prepend(x) \/ sll_append(x) \/ sll_remove(x)
    \/ \E i \in 0 .. Cardinality(Addr) + 1, x \in Value : sll_insert_at(i, x)
    \/ sll_reverse \/ sll_has_cycle \/ CheckTied \/ sll_destroy

Spec == Init /\ [][Next]_vars

Nodes == Chain(list.head, list.next, NULL)
Contents == [k \in DOMAIN Nodes |-> list.data[Nodes[k]]]

\* Every node is in the list, size counts them, and next leads to NULL.
ListExact ==
    /\ Len(Nodes) = list.size
    /\ {Nodes[k] : k \in DOMAIN Nodes} = Live
    /\ Nodes # <<>> => list.next[Last(Nodes)] = NULL
=============================================================================
