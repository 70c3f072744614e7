---------------------------- MODULE MCAlgorithms ----------------------------
(* The pure functions against what they are for: a behaviour picks an      *)
(* input, then the functions are applied to it.                            *)
EXTENDS Integers, FiniteSets, SequencesExt

CONSTANTS
    Kinds,
    INSERTION_THRESHOLD, RADIX, PASSES,
    MaxLen,
    MaxLeaves, MaxText, MaxKeys, MaxWords,
    MAX_CAND

Alphabet == <<"a", "b">>
Keys == {-1, 0, 2, 3}

Sort == INSTANCE Sorting
Expr == INSTANCE Expressions
Graph == INSTANCE GraphSearch
Weighted == INSTANCE WeightedGraphs
Tree == INSTANCE SearchTrees

VARIABLES
    kind,       \* the functions under test
    input,
    applied     \* has the program been run on the input

vars == <<kind, input, applied>>

\* Ints whose tags are their places.
Arrays == UNION {{[i \in 0 .. n - 1 |-> <<k[i], i>>] : k \in [0 .. n - 1 -> Keys]} : n \in 1 .. MaxLen}

\* Expressions with n operands.
RECURSIVE Trees(_)
Trees(n) ==
    IF n = 1 THEN {<<"1">>, <<"3">>}
    ELSE UNION {{<<op, l, r>> : op \in Expr!Operators, l \in Trees(k), r \in Trees(n - k)} :
                    k \in 1 .. n - 1}

Texts == UNION {[1 .. n -> {"(", ")", "[", "]", "x", "\n"}] : n \in 0 .. MaxText}

\* The edges of the graphs: the pairs a weight other than 0 is picked for, in
\* the order of the pairs.
Edges(w) ==
    LET pairs == SelectSeq([k \in 1 .. 25 |-> <<(k - 1) \div 5, (k - 1) % 5>>],
                           LAMBDA p : p \in DOMAIN w /\ w[p] # 0)
    IN  [k \in DOMAIN pairs |-> pairs[k] \o <<w[pairs[k]]>>]

Pairs(V) == (0 .. V - 1) \X (0 .. V - 1)
Upward(V) == {p \in Pairs(V) : p[1] < p[2]}
Arrows(V) == {p \in Pairs(V) : p[1] # p[2]}

UndirectedGraphs == [Upward(5) -> {0, 1}] \union [Upward(4) -> {0, 1, 2, 5}]
DirectedGraphs == [Arrows(3) -> {0, -1, 1, 3}] \union [Upward(4) \union {<<3, 0>>} -> {0, -2, 1}]

VertexCount(w) == IF \E p \in DOMAIN w : p[2] = 4 THEN 5 ELSE IF \E p \in DOMAIN w : p[2] = 3 THEN 4 ELSE 3
Unweighted(es) == [k \in DOMAIN es |-> <<es[k][1], es[k][2]>>]

\* Mazes of 3 rows and 4 columns with free corners.
Mazes == {m \in SUBSET ((0 .. 2) \X (0 .. 3)) : <<0, 0>> \in m /\ <<2, 3>> \in m}

KeyLists == UNION {[1 .. n -> 1 .. 6] : n \in 0 .. MaxKeys}

Words == UNION {[1 .. n -> {Alphabet[k] : k \in DOMAIN Alphabet}] : n \in 0 .. 3}
WordLists == UNION {[1 .. n -> Words] : n \in 0 .. MaxWords}

Inputs(k) ==
    CASE k = "array"      -> Arrays
      [] k = "expression" -> UNION {Trees(n) : n \in 1 .. MaxLeaves}
      [] k = "brackets"   -> Texts
      [] k = "undirected" -> UndirectedGraphs
      [] k = "directed"   -> DirectedGraphs
      [] k = "maze"       -> Mazes
      [] k = "keys"       -> KeyLists
      [] k = "words"      -> WordLists
      [] k = "modules"    -> {Graph!ModuleDeps}

MCInit ==
    /\ kind \in Kinds
    /\ input \in Inputs(kind)
    /\ applied = FALSE

Apply ==
    /\ ~ applied
    /\ applied' = TRUE
    /\ UNCHANGED <<kind, input>>

MCSpec == MCInit /\ [][Apply]_vars

\* Whatever ints with whatever equal and negative keys: every sort of the
\* repository returns its input by growing key, the stable ones do not reorder
\* equal ones, the counters of comparisons and writes are what the order of the
\* input says, and the searches find what is there.
Sorted ==
    applied /\ kind = "array" =>
        Sort!SortsSort(input, 3) /\ Sort!SearchesFind(input, Keys \union {7})

\* Every expression is converted to a postfix form that eval_postfix gives the
\* same value, exactly if the result has two places for every token and one for the
\* end; with less room the conversion never answers true.  The bracket checkers accept the texts whose
\* brackets match and name the place of the first mistake in any other.
StacksAnswer ==
    applied =>
        /\ kind = "expression" => Expr!ExpressionIsRight(input)
        /\ kind = "brackets" => Expr!BracketsAreJudged(input)

\* Reachability, distances, paths, orders, two colours and spanning trees are
\* what their definitions by paths and subsets say, on every small graph; the
\* negative cycles are seen; the fixed stack of dfs_iterative needs no more places
\* than there are edges; dijkstra relaxes the edges of each vertex once.
GraphsAnswer ==
    applied =>
        /\ kind = "undirected" =>
              /\ Graph!SearchesAreRight(VertexCount(input), Unweighted(Edges(input)))
              /\ Weighted!SpanningTreesAreRight(VertexCount(input), Edges(input))
        /\ kind = "directed" =>
              /\ Graph!OrdersAreRight(VertexCount(input), Unweighted(Edges(input)))
              /\ Weighted!DistancesAreRight(VertexCount(input), Edges(input))
        /\ kind = "maze" => Graph!MazeIsRight(input, <<0, 0>>, <<2, 3>>, 3, 4)

\* An AVL tree stays a balanced search tree through all rotations, and a trie
\* finds, counts and completes the words it was given, and suggests the best of
\* those there is room for.
TreesAnswer ==
    applied =>
        /\ kind = "keys" => Tree!SearchTreesAreRight(input)
        /\ kind = "words" => Tree!TriesAreRight(input, Words)

\* "Differs from V: there is a cycle" (make_deps.c:52), of what main builds.
CyclesAreReported ==
    applied /\ kind = "modules" =>
        LET arcs == {<<input[k][2], input[k][1]>> : k \in DOMAIN input}
            count == Len(Graph!kahn_topo(Graph!Dependencies(10, input), 8))
        IN  count # 8 <=> ~ Graph!Acyclic(arcs, 10)
=============================================================================
