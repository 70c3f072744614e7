-------------------------- MODULE PriorityQueueType -------------------------
(* What a priority queue promises: a bag of items that gives back an item  *)
(* which no other precedes.  An item is <<key, order, ...>>; order decides *)
(* between items of the same key, and is 0 where nothing does.             *)
EXTENDS Integers, FiniteSets, Bags

VARIABLES items, ret    \* ret: the last call with its item

vars == <<items, ret>>

Before(x, y) == x[1] < y[1] \/ (x[1] = y[1] /\ x[2] < y[2])

IsFirst(x) == BagIn(x, items) /\ \A y \in BagToSet(items) : ~ Before(y, x)

One(x) == SetToBag({x})

Init == items = EmptyBag

Push == ret'[1] = "push" /\ items' = items (+) One(ret'[2])
Pop == ret'[1] = "pop" /\ IsFirst(ret'[2]) /\ items' = items (-) One(ret'[2])
Peek == ret'[1] = "peek" /\ IsFirst(ret'[2]) /\ UNCHANGED items
Empty == ret' = <<"empty">> /\ items = EmptyBag /\ UNCHANGED items

\* The queue is made anew of the values of an array.
Build ==
    /\ ret'[1] = "build"
    /\ items' = [x \in {ret'[2][i] : i \in DOMAIN ret'[2]} |->
                    Cardinality({i \in DOMAIN ret'[2] : ret'[2][i] = x})]

\* A push that fails has no effect, nor has what is none of these calls.
Refused == ret' = <<"refused">> /\ UNCHANGED items
Other == ret'[1] = "other" /\ UNCHANGED items

Next == Push \/ Pop \/ Peek \/ Empty \/ Build \/ Refused \/ Other

Spec == Init /\ [][Next]_vars
=============================================================================
