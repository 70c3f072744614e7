--------------------------- MODULE SharedSequence ---------------------------
(***************************************************************************)
(* What a stack of nodes and a queue of values promise to the threads that *)
(* share them: every operation takes effect at one instant; a stack gives  *)
(* back the node pushed last, and a queue every value that was put in at   *)
(* most once, in the order of the puts.                                    *)
(***************************************************************************)
EXTENDS Integers, Sequences

CONSTANTS
    Item,
    Taker,    \* the threads that take items out
    None

VARIABLES
    items,    \* the item to be taken next comes first
    taken     \* what every taker has taken

Init ==
    /\ items = <<>>
    /\ taken = [c \in Taker |-> None]

\* A node is pushed that is not in the stack.
Push ==
    /\ \E a \in Item :
          /\ \A k \in 1 .. Len(items) : items[k] # a
          /\ items' = <<a>> \o items
    /\ UNCHANGED taken

Put ==
    /\ \E v \in Item : items' = Append(items, v)
    /\ UNCHANGED taken

Pop(c) ==
    /\ items # <<>>
    /\ items' = Tail(items)
    /\ taken' = [taken EXCEPT ![c] = Head(items)]

\* What is taken out of a queue is held until it is disposed of.
Take(c) == taken[c] = None /\ Pop(c)

Dispose(c) ==
    /\ taken[c] # None
    /\ taken' = [taken EXCEPT ![c] = None]
    /\ UNCHANGED items

StackNext == Push \/ \E c \in Taker : Pop(c)
QueueNext == Put \/ \E c \in Taker : Take(c) \/ Dispose(c)

StackSpec == Init /\ [][StackNext]_<<items, taken>>
QueueSpec == Init /\ [][QueueNext]_<<items, taken>>
=============================================================================
