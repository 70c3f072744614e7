----------------------------- MODULE HeapQueues -----------------------------
(***************************************************************************)
(* The heaps of src/min_heap.c (MinHeap) and of the second half of         *)
(* src/priority_queue.c (PriorityQueue), which grow when they are full.    *)
(* data is the memory, of which the heap uses the first size places.       *)
(***************************************************************************)
EXTENDS Integers, SequencesExt

CONSTANTS
    Item,           \* <<key, ...>>; an int, or a PQItem
    NULL,
    Capacities,     \* what the heaps begin with, 16 in min_heap.c
    MaxSize         \* bound: the items in the heap

VARIABLES h, ret

vars == <<h, ret>>

Less(x, y) == x[1] < y[1]
Tree == INSTANCE BinaryHeap

heap_init(capacity) == [data |-> <<>>, size |-> 0, capacity |-> capacity]

Init == ret = NULL /\ \E c \in Capacities : h = heap_init(c)

heap_grow(room) == IF h.size = room THEN room * 2 ELSE room

Pushed(x) ==
    [data |-> Tree!push(h.data, h.size, x), size |-> h.size + 1,
     capacity |-> heap_grow(h.capacity)]

Popped == [h EXCEPT !.data = Tree!pop(@, h.size), !.size = @ - 1]

-----------------------------------------------------------------------------
(* min_heap.c, where a heap must not be empty to be read                   *)

heap_push(x) == h.size < MaxSize /\ h' = Pushed(x) /\ ret' = <<"push", x>>
heap_top == h.size > 0 /\ ret' = <<"peek", h.data[0]>> /\ UNCHANGED h
heap_pop == h.size > 0 /\ ret' = <<"pop", h.data[0]>> /\ h' = Popped

heap_build(arr) ==
    LET n == Len(arr)
        memory == [i \in 0 .. n - 1 |-> arr[i + 1]]
    IN  /\ h' = [data |-> Tree!build(memory, n), size |-> n,
                 capacity |-> IF n > h.capacity THEN n ELSE h.capacity]
        /\ ret' = <<"build", arr>>

MinHeapNext ==
    \/ \E x \in Item : heap_push(x)
    \/ heap_top \/ heap_pop
    \/ \E n \in 1 .. MaxSize : \E arr \in [1 .. n -> Item] : heap_build(arr)

-----------------------------------------------------------------------------
(* priority_queue.c                                                        *)

pq_push(x) == h.size < MaxSize /\ h' = Pushed(x) /\ ret' = <<"push", x>>

\* The realloc of a full heap fails.
pq_push_fails == h.size >= h.capacity /\ ret' = <<"refused">> /\ UNCHANGED h

\* The program asks pq_empty before it pops.
pq_pop == h.size > 0 /\ ret' = <<"pop", h.data[0]>> /\ h' = Popped

pq_peek ==
    /\ ret' = IF h.size > 0 THEN <<"peek", h.data[0]>> ELSE <<"empty">>
    /\ UNCHANGED h

PriorityQueueNext == (\E x \in Item : pq_push(x)) \/ pq_push_fails \/ pq_pop \/ pq_peek

-----------------------------------------------------------------------------
Items == {h.data[i] : i \in 0 .. h.size - 1}
Bag == [x \in Items |-> Cardinality({i \in 0 .. h.size - 1 : h.data[i] = x})]

\* The array is a heap, and lies within its memory.
HeapExact == h.size <= h.capacity /\ Tree!IsHeap(h.data, h.size)
=============================================================================
