----------------------------- MODULE Dictionary -----------------------------
(***************************************************************************)
(* What a map promises: a lookup finds the value stored last, a key that   *)
(* was removed is gone, no call touches another key, and the answer of a   *)
(* call tells what it did.  A call may be refused for lack of room.        *)
(***************************************************************************)
CONSTANTS Key, Value, Missing

VARIABLES
    map,    \* what a lookup of every key finds
    ret     \* the key and the answer of the last call

Init == map = [k \in Key |-> Missing] /\ ret = Missing

Put(k, v) ==
    /\ ret' = <<k, "stored">>
    /\ map' = [map EXCEPT ![k] = v]

Refuse(k) ==
    /\ ret' = <<k, "refused">>
    /\ UNCHANGED map

Remove(k) ==
    /\ ret' = <<k, "removed">>
    /\ map[k] # Missing
    /\ map' = [map EXCEPT ![k] = Missing]

RemoveAbsent(k) ==
    /\ ret' = <<k, "absent">>
    /\ map[k] = Missing
    /\ UNCHANGED map

Next == \E k \in Key :
    Refuse(k) \/ Remove(k) \/ RemoveAbsent(k) \/ \E v \in Value : Put(k, v)

Spec == Init /\ [][Next]_<<map, ret>>

\* A weaker promise: a put that is refused may have stored its key all the
\* same, and have lost one key, which need not be its own.
RefuseAndLose(k, v) ==
    /\ ret' = <<k, "refused">>
    /\ \E lost \in Key : map' = [[map EXCEPT ![k] = v] EXCEPT ![lost] = Missing]

LossySpec ==
    Init /\ [][Next \/ \E k \in Key, v \in Value : RefuseAndLose(k, v)]_<<map, ret>>
=============================================================================
