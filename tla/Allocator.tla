----------------------------- MODULE Allocator ------------------------------
(***************************************************************************)
(* What a memory allocator promises: a block it hands out shares no cell   *)
(* with a block that is still held.                                        *)
(***************************************************************************)
CONSTANTS
    Block,      \* the blocks that can be handed out, sets of cells
    Handle      \* the pointers a client can hold

VARIABLE held   \* the block every pointer holds, {} if it holds none

Init == held = [h \in Handle |-> {}]

Alloc(h, b) ==
    /\ held[h] = {}
    /\ \A g \in Handle : held[g] \intersect b = {}
    /\ held' = [held EXCEPT ![h] = b]

Free(h) == held' = [held EXCEPT ![h] = {}]

\* Everything is given back in one step.
Reset == held' = [h \in Handle |-> {}]

Next ==
    \/ \E h \in Handle : Free(h) \/ \E b \in Block : Alloc(h, b)
    \/ Reset

Spec == Init /\ [][Next]_held
=============================================================================
