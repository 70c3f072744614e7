------------------------------- MODULE Chains -------------------------------
(* Linked lists seen as sequences, for refinement mappings and properties. *)
EXTENDS Integers, Sequences, FiniteSets

\* The nodes from first along link up to null.  A list with a cycle gives a
\* sequence that stops after as many nodes as there are.
Chain(first, link, null) ==
    LET size == Cardinality(DOMAIN link)
        from[k \in 0 .. size] ==
          [a \in DOMAIN link \union {null} |->
             IF k = 0 \/ a = null THEN <<>> ELSE <<a>> \o from[k - 1][link[a]]]
    IN  from[size][first]

\* The nodes of that list.
ChainSet(first, link, null) ==
    LET c == Chain(first, link, null) IN {c[k] : k \in DOMAIN c}
=============================================================================
