---------------------------- MODULE SequenceType ----------------------------
(* What a list, an array, a queue and a stack promise: a sequence of       *)
(* values, changed as the last call says and read truly.  Positions count  *)
(* from 0, as in C.                                                        *)
EXTENDS Integers, SequencesExt

CONSTANT None       \* the answer of an empty container

VARIABLES seq, ret  \* ret: the last call with its arguments and its answer

vars == <<seq, ret>>

\* Values are compared by their first component.
KeyOf(x) == x[1]

FirstOr(P(_), default) ==
    LET hits == {k \in DOMAIN seq : P(seq[k])}
    IN  IF hits = {} THEN default ELSE CHOOSE k \in hits : \A j \in hits : k <= j

Init == seq = <<>>

\* A call that answers what it takes out, or None of an empty sequence.
Takes(call, x, rest) ==
    ret' = <<call, IF seq = <<>> THEN None ELSE x>> /\ seq' = IF seq = <<>> THEN seq ELSE rest

Reads(call, k) ==
    ret' = <<call, IF seq = <<>> THEN None ELSE seq[k]>> /\ UNCHANGED seq

PushBack == ret'[1] = "push back" /\ seq' = Append(seq, ret'[2])
AppendText == ret'[1] = "append" /\ seq' = seq \o ret'[2]
PushFront == ret'[1] = "push front" /\ seq' = <<ret'[2]>> \o seq
PopFront == ret'[1] = "pop front" /\ Takes("pop front", seq[1], Tail(seq))
PopBack == ret'[1] = "pop back" /\ Takes("pop back", seq[Len(seq)], Front(seq))
Peek == ret'[1] \in {"front", "back"}
        /\ Reads(ret'[1], IF ret'[1] = "front" THEN 1 ELSE Len(seq))
Insert == ret'[1] = "insert" /\ ret'[2] \in 0 .. Len(seq)
          /\ seq' = InsertAt(seq, ret'[2] + 1, ret'[3])
RemovePosition == ret'[1] = "remove at" /\ seq' = RemoveAt(seq, ret'[2] + 1)
Set == ret'[1] = "set" /\ seq' = [seq EXCEPT ![ret'[2] + 1] = ret'[3]]
Get == ret'[1] = "get" /\ ret'[3] = seq[ret'[2] + 1] /\ UNCHANGED seq

\* The first value of the same key is removed, if there is one.
RemoveKey ==
    /\ ret'[1] = "remove"
    /\ LET k == FirstOr(LAMBDA x : KeyOf(x) = KeyOf(ret'[2]), 0)
       IN  ret'[3] = (k # 0) /\ seq' = IF k = 0 THEN seq ELSE RemoveAt(seq, k)

\* In front of the first value of a lower key
InsertSorted ==
    /\ ret'[1] = "insert sorted"
    /\ seq' = InsertAt(seq, FirstOr(LAMBDA x : KeyOf(x) < KeyOf(ret'[2]), Len(seq) + 1), ret'[2])

MoveToBack ==
    /\ ret'[1] = "move to back"
    /\ seq' = Append(RemoveAt(seq, ret'[2] + 1), seq[ret'[2] + 1])

ReverseAll == ret' = <<"reverse">> /\ seq' = Reverse(seq)
Clear == ret' = <<"clear">> /\ seq' = <<>>

\* A call that fails for want of memory or for a bad position has no effect.
Refused == ret' = <<"refused">> /\ UNCHANGED seq

\* A list is seen to have a cycle exactly while one has been tied.
HasCycle == ret'[1] = "has cycle" /\ ret'[3] = ret'[2] /\ UNCHANGED seq

Next ==
    \/ PushBack \/ AppendText \/ PushFront \/ PopFront \/ PopBack \/ Peek
    \/ Insert \/ RemovePosition \/ Set \/ Get \/ RemoveKey \/ InsertSorted
    \/ MoveToBack \/ ReverseAll \/ Clear \/ Refused \/ HasCycle

Spec == Init /\ [][Next]_vars
=============================================================================
