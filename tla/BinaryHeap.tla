----------------------------- MODULE BinaryHeap -----------------------------
(* The binary heap in an array that five files of src/ write out, each     *)
(* with an order of its own.  The array is a function on 0 .. size - 1.    *)
EXTENDS Integers, SequencesExt

CONSTANT Less(_, _)      \* the entry that belongs nearer to the root

Up(lo, hi) == [k \in 1 .. hi - lo + 1 |-> lo + k - 1]
Down(hi, lo) == [k \in 1 .. hi - lo + 1 |-> hi - k + 1]

swap(a, i, j) == [a EXCEPT ![i] = a[j], ![j] = a[i]]

parent(i) == (i - 1) \div 2

RECURSIVE sift_up(_, _)
sift_up(a, i) ==
    IF i > 0 /\ Less(a[i], a[parent(i)])
    THEN sift_up(swap(a, i, parent(i)), parent(i))
    ELSE a

\* The first of the entries i, left and right of i that no other precedes.
Best(a, size, i) ==
    LET better(k, b) == IF k < size /\ Less(a[k], a[b]) THEN k ELSE b
    IN  better(2 * i + 2, better(2 * i + 1, i))

RECURSIVE sift_down(_, _, _)
sift_down(a, size, i) ==
    IF Best(a, size, i) = i THEN a
    ELSE sift_down(swap(a, i, Best(a, size, i)), size, Best(a, size, i))

\* The heap with one entry more, and without its root.
push(a, size, x) == sift_up([k \in 0 .. size |-> IF k = size THEN x ELSE a[k]], size)

pop(a, size) ==
    LET last == size - 1
    IN  sift_down([k \in 0 .. last - 1 |-> IF k = 0 THEN a[last] ELSE a[k]], last, 0)

\* From the last inner node to the root.
build(a, size) ==
    FoldLeft(LAMBDA b, i : sift_down(b, size, i), a, Down((size - 2) \div 2, 0))

IsHeap(a, size) == \A i \in 1 .. size - 1 : ~ Less(a[i], a[parent(i)])
=============================================================================
