------------------------------ MODULE Sorting -------------------------------
(***************************************************************************)
(* The sorts and searches of src/simple_sorts.c, merge_quick_sort.c,       *)
(* heap_sort.c, non_comparison_sorts.c, static_array.c and                 *)
(* search_compare.c.  An array of n ints is a function on 0 .. n - 1; an   *)
(* int is <<key, tag>>: the program sees the key, the tag tells equal ints *)
(* apart.  A while loop that moves an index is the index it stops at.      *)
(***************************************************************************)
EXTENDS Integers, FiniteSets, SequencesExt

CONSTANTS
    INSERTION_THRESHOLD,   \* 16 in merge_quick_sort.c and heap_sort.c
    RADIX,                 \* values of a digit, 256
    PASSES                 \* digits of an int, 4

Key(x) == x[1]
N(a) == Cardinality(DOMAIN a)

MaxHeap == INSTANCE BinaryHeap WITH Less <- LAMBDA x, y : Key(x) > Key(y)
Up(lo, hi) == MaxHeap!Up(lo, hi)
Down(hi, lo) == MaxHeap!Down(hi, lo)
swap(a, i, j) == MaxHeap!swap(a, i, j)

Least(S) == CHOOSE i \in S : \A j \in S : i <= j
Greatest(S) == CHOOSE i \in S : \A j \in S : i >= j

-----------------------------------------------------------------------------
(* simple_sorts.c; r holds the array and g_stats.                          *)

reset_stats(a) == [arr |-> a, comparisons |-> 0, writes |-> 0]

\* One turn of the inner loop of bubble_sort_stat
Bubble(r, j) ==
    IF Key(r.arr[j]) > Key(r.arr[j + 1])
    THEN [r EXCEPT !.arr = swap(@, j, j + 1), !.comparisons = @ + 1,
                   !.writes = @ + 2, !.swapped = TRUE]
    ELSE [r EXCEPT !.comparisons = @ + 1]

\* One turn of the outer loop; after a turn without a swap there is none.
BubblePass(r, i) ==
    IF r.swapped
    THEN FoldLeft(Bubble, [r EXCEPT !.swapped = FALSE], Up(0, N(r.arr) - 2 - i))
    ELSE r

bubble_sort_stat(a) ==
    FoldLeft(BubblePass, reset_stats(a) @@ [swapped |-> TRUE], Up(0, N(a) - 2))

\* The index of the first least key from i on
min_index(a, i) ==
    FoldLeft(LAMBDA m, j : IF Key(a[j]) < Key(a[m]) THEN j ELSE m, i, Up(i + 1, N(a) - 1))

SelectionStep(r, i) ==
    LET m == min_index(r.arr, i)
    IN  [r EXCEPT !.arr = swap(@, i, m),
                  !.comparisons = @ + N(r.arr) - 1 - i,
                  !.writes = IF m = i THEN @ ELSE @ + 2]

selection_sort_stat(a) == FoldLeft(SelectionStep, reset_stats(a), Up(0, N(a) - 2))

\* Mutant: an equal key is passed, too.
PlaceUnstable(a, left, i) ==
    Greatest({left} \union {p \in left + 1 .. i : Key(a[p - 1]) < Key(a[i])})

\* Where the loop that moves greater keys up leaves the key of index i.
Place(a, left, i) ==
    Greatest({left} \union {p \in left + 1 .. i : Key(a[p - 1]) <= Key(a[i])})

Insert(a, left, i) ==
    LET p == Place(a, left, i)
    IN  [k \in DOMAIN a |-> IF k = p THEN a[i]
                            ELSE IF k \in p + 1 .. i THEN a[k - 1] ELSE a[k]]

InsertionStep(r, i) ==
    LET p == Place(r.arr, 0, i)
    IN  [r EXCEPT !.arr = Insert(@, 0, i),
                  !.comparisons = @ + (i - p) + (IF p > 0 THEN 1 ELSE 0),
                  !.writes = @ + (i - p) + 1]

insertion_sort_stat(a) == FoldLeft(InsertionStep, reset_stats(a), Up(1, N(a) - 1))

-----------------------------------------------------------------------------
(* merge_quick_sort.c and the sorts of heap_sort.c                         *)

\* From the indices i and j of the two sorted halves of tmp on
RECURSIVE merge(_, _, _, _, _, _)
merge(arr, tmp, i, j, mid, right) ==
    LET put(x) == [arr EXCEPT ![i + j - mid - 1] = x]
    IN  IF i > mid /\ j > right THEN arr
        ELSE IF j > right \/ (i <= mid /\ Key(tmp[i]) <= Key(tmp[j]))
             THEN merge(put(tmp[i]), tmp, i + 1, j, mid, right)
             ELSE merge(put(tmp[j]), tmp, i, j + 1, mid, right)

RECURSIVE merge_sort_helper(_, _, _)
merge_sort_helper(a, left, right) ==
    LET mid == left + (right - left) \div 2
        b == merge_sort_helper(merge_sort_helper(a, left, mid), mid + 1, right)
    IN  IF left >= right THEN a ELSE merge(b, b, left, mid + 1, mid, right)

merge_sort(a) == merge_sort_helper(a, 0, N(a) - 1)

insertion_sort_range(a, left, right) ==
    FoldLeft(LAMBDA b, i : Insert(b, left, i), a, Up(left + 1, right))

\* The three swaps, and the pivot moved to right - 1
median_of_three(a, left, right) ==
    LET mid == left + (right - left) \div 2
        order(b, i, j) == IF Key(b[i]) > Key(b[j]) THEN swap(b, i, j) ELSE b
    IN  swap(order(order(order(a, left, mid), left, right), mid, right), mid, right - 1)

\* The loop that lets i and j run towards each other.  No bound stops them:
\* a CHOOSE without a witness is a read outside the array.
RECURSIVE Hoare(_, _, _, _, _)
Hoare(a, i, j, right, pivot) ==
    LET i1 == Least({k \in DOMAIN a : k > i /\ Key(a[k]) >= pivot})
        j1 == Greatest({k \in DOMAIN a : k < j /\ Key(a[k]) <= pivot})
    IN  IF i1 >= j1 THEN [arr |-> swap(a, i1, right - 1), pivot |-> i1]
        ELSE Hoare(swap(a, i1, j1), i1, j1, right, pivot)

\* The partition of heap_sort.c, and that of merge_quick_sort.c
qs_partition(a, left, right) ==
    LET b == median_of_three(a, left, right)
    IN  Hoare(b, left, right - 1, right, Key(b[right - 1]))

partition(a, left, right) ==
    IF right - left < 2
    THEN [arr |-> IF Key(a[left]) > Key(a[right]) THEN swap(a, left, right) ELSE a,
          pivot |-> left]
    ELSE qs_partition(a, left, right)

RECURSIVE quick_sort_helper(_, _, _)
quick_sort_helper(a, left, right) ==
    LET p == partition(a, left, right)
    IN  IF right - left < INSERTION_THRESHOLD THEN insertion_sort_range(a, left, right)
        ELSE quick_sort_helper(
                quick_sort_helper(p.arr, left, p.pivot - 1), p.pivot + 1, right)

quick_sort(a) == quick_sort_helper(a, 0, N(a) - 1)

sift_down_max(a, heap_size, i) == MaxHeap!sift_down(a, heap_size, i)

build_max_heap(a) ==
    FoldLeft(LAMBDA b, i : sift_down_max(b, N(a), i), a, Down(N(a) \div 2 - 1, 0))

\* The greatest key goes to the end of the heap, which ends there from then on.
heap_sort(a) ==
    FoldLeft(LAMBDA b, size : sift_down_max(swap(b, 0, size - 1), size - 1, 0),
             build_max_heap(a), Down(N(a), 2))

-----------------------------------------------------------------------------
(* non_comparison_sorts.c                                                  *)

\* The prefix sums of the counts say where the ints of a digit end.
PlaceByDigit(a, digit, top) ==
    LET place(s, i) ==
            LET c == s.count[digit[i]] - 1
            IN  [count |-> [s.count EXCEPT ![digit[i]] = c],
                 output |-> [s.output EXCEPT ![c] = a[i]]]
        count == [v \in 0 .. top |-> Cardinality({i \in DOMAIN a : digit[i] <= v})]
    IN  FoldLeft(place, [count |-> count, output |-> a], Down(N(a) - 1, 0)).output

counting_sort(a, max_val) == PlaceByDigit(a, [i \in DOMAIN a |-> Key(a[i])], max_val)

Patterns == RADIX ^ PASSES      \* the bit patterns of an int

counting_sort_radix(a, exp) ==
    PlaceByDigit(a,
        [i \in DOMAIN a |-> ((Key(a[i]) % Patterns) \div RADIX ^ exp) % RADIX], RADIX - 1)

radix_sort_unsigned(a) == FoldLeft(counting_sort_radix, a, Up(0, PASSES - 1))

\* An int read from a bit pattern, and an int with its sign bit toggled
AsInt(p) == IF p >= Patterns \div 2 THEN p - Patterns ELSE p
Flip(a) == [i \in DOMAIN a |-> <<AsInt((Key(a[i]) + Patterns \div 2) % Patterns), a[i][2]>>]

radix_sort(a) == Flip(radix_sort_unsigned(Flip(a)))

\* A node goes before the first of the sorted list that is not less.
insertion_sort_bucket(list) ==
    LET less(s, x) == Greatest({0} \union {k \in DOMAIN s : \A i \in 1 .. k : Key(s[i]) < Key(x)})
    IN  FoldLeft(LAMBDA s, x : InsertAt(s, less(s, x) + 1, x), <<>>, list)

\* bucket_sort of the doubles key / scale, from 0.0 to 1.0
bucket_sort(a, scale) ==
    LET n == N(a)
        idx(i) == IF Key(a[i]) = scale THEN n - 1 ELSE (Key(a[i]) * n) \div scale
        bucket(b) == FoldLeft(LAMBDA s, i : IF idx(i) = b THEN <<a[i]>> \o s ELSE s,
                              <<>>, Up(0, n - 1))
        all == FoldLeft(LAMBDA s, b : s \o insertion_sort_bucket(bucket(b)), <<>>, Up(0, n - 1))
    IN  [i \in DOMAIN a |-> all[i + 1]]

-----------------------------------------------------------------------------
(* static_array.c and search_compare.c                                     *)

linear_search(a, target) ==
    LET hits == {i \in DOMAIN a : Key(a[i]) = target}
    IN  IF hits = {} THEN -1 ELSE Least(hits)

RECURSIVE Bisect(_, _, _, _)
Bisect(a, lo, hi, target) ==
    LET mid == lo + (hi - lo) \div 2
    IN  IF lo > hi THEN -1
        ELSE IF Key(a[mid]) = target THEN mid
        ELSE IF Key(a[mid]) < target THEN Bisect(a, mid + 1, hi, target)
        ELSE Bisect(a, lo, mid - 1, target)

binary_search(a, target) == Bisect(a, 0, N(a) - 1, target)

sum(a) == FoldLeft(LAMBDA t, i : t + Key(a[i]), 0, Up(0, N(a) - 1))

reverse(a) ==
    FoldLeft(LAMBDA b, lo : swap(b, lo, N(a) - 1 - lo), a, Up(0, N(a) \div 2 - 1))

-----------------------------------------------------------------------------
(* What the functions are for                                              *)

\* b holds the ints of a, each once, by growing key.
IsSortOf(a, b) ==
    /\ {b[i] : i \in DOMAIN b} = {a[i] : i \in DOMAIN a}
    /\ \A i \in 1 .. N(b) - 1 : Key(b[i - 1]) <= Key(b[i])

\* Equal keys keep the order they had (the tags of a grow).
IsStable(b) == \A i, j \in DOMAIN b : i < j /\ Key(b[i]) = Key(b[j]) => b[i][2] < b[j][2]

Inversions(a) == Cardinality({ij \in (DOMAIN a) \X (DOMAIN a) :
                                ij[1] < ij[2] /\ Key(a[ij[1]]) > Key(a[ij[2]])})

\* The counters of simple_sorts.c tell the work: of the bubble sort two writes for
\* every inversion and as many passes as the int needs that has most greater ones
\* before it, and one more to see that all is done; of the insertion sort one write
\* and one comparison for every inversion, a write for every int, and a comparison
\* for every int that has a smaller or equal one before it; of the selection sort
\* always all comparisons.
CountersTellTheWork(a) ==
    LET n == N(a)
        before(i, P(_, _)) == {j \in 0 .. i - 1 : P(Key(a[j]), Key(a[i]))}
        greater == {Cardinality(before(i, LAMBDA x, y : x > y)) : i \in DOMAIN a}
        passes == Least({n - 1, 1 + Greatest(greater)})
        stopped == {i \in DOMAIN a : before(i, LAMBDA x, y : x <= y) # {}}
        bubble == bubble_sort_stat(a)
        insertion == insertion_sort_stat(a)
        selection == selection_sort_stat(a)
    IN  /\ bubble.writes = 2 * Inversions(a)
        /\ bubble.comparisons = passes * (n - 1) - (passes * (passes - 1)) \div 2
        /\ insertion.writes = Inversions(a) + n - 1
        /\ insertion.comparisons = Inversions(a) + Cardinality(stopped)
        /\ selection.writes <= 2 * (n - 1)
        /\ selection.comparisons = (n * (n - 1)) \div 2

\* Every sort sorts, whatever the ints, and the sorts that are to be stable are
\* ("<= keeps it stable", merge_quick_sort.c:19; "stable placement, right to
\* left", non_comparison_sorts.c:24 and 48).
SortsSort(a, max_val) ==
    /\ \A b \in {bubble_sort_stat(a).arr, insertion_sort_stat(a).arr, merge_sort(a),
                 radix_sort(a)} : IsSortOf(a, b) /\ IsStable(b)
    /\ \A b \in {selection_sort_stat(a).arr, quick_sort(a), heap_sort(a)} : IsSortOf(a, b)
    /\ CountersTellTheWork(a)
    /\ (\A i \in DOMAIN a : Key(a[i]) >= 0) =>
          /\ \A b \in {counting_sort(a, max_val), radix_sort_unsigned(a)} :
                IsSortOf(a, b) /\ IsStable(b)
          /\ IsSortOf(a, bucket_sort(a, max_val)) /\ IsStable(bucket_sort(a, max_val))

\* A search finds a key where it is and answers -1 if it is nowhere.
SearchesFind(a, Targets) ==
    \A t \in Targets :
        LET s == merge_sort(a)
            Found(b, i) == IF \E k \in DOMAIN b : Key(b[k]) = t
                           THEN i \in DOMAIN b /\ Key(b[i]) = t ELSE i = -1
        IN  /\ Found(a, linear_search(a, t))
            /\ Found(s, binary_search(s, t))
            /\ Key(a[min_index(a, 0)]) = Key(s[0])
            /\ sum(reverse(a)) = sum(s)
            /\ reverse(reverse(a)) = a
=============================================================================
