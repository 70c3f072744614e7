---------------------------- MODULE SearchTrees -----------------------------
(***************************************************************************)
(* The trees of src/avl_tree.c, rbtree_demo.c, trie.c and autocomplete.c.  *)
(* A binary tree is its root <<data, height, left, right>>, NULL is <<>>;  *)
(* a trie maps the path of every node, a word, to what the node holds.     *)
(***************************************************************************)
EXTENDS Integers, FiniteSets, SequencesExt

CONSTANTS
    Alphabet,        \* the letters in their order, a sequence; ALPHA_SIZE is 26
    MAX_CAND         \* candidates ac_suggest can hold, 256

NULL == <<>>
data(n) == n[1]
left(n) == n[3]
right(n) == n[4]

height(n) == IF n = NULL THEN -1 ELSE n[2]
max(a, b) == IF a > b THEN a ELSE b

\* A node with these children and the height update_height gives it.
Node(x, l, r) == <<x, 1 + max(height(l), height(r)), l, r>>

balance_factor(n) == height(left(n)) - height(right(n))

rotate_right(z) ==
    LET y == left(z) IN Node(data(y), left(y), Node(data(z), right(y), right(z)))

rotate_left(z) ==
    LET y == right(z) IN Node(data(y), Node(data(z), left(z), left(y)), right(y))

\* Mutant: the inner grandchild is not rotated out first.
RebalanceOnce(n) ==
    CASE balance_factor(n) > 1  -> rotate_right(n)
      [] balance_factor(n) < -1 -> rotate_left(n)
      [] OTHER -> n

\* The cases LL, LR, RR and RL
rebalance(n) ==
    LET bf == balance_factor(n)
    IN  CASE bf > 1 /\ balance_factor(left(n)) >= 0  -> rotate_right(n)
          [] bf > 1 /\ balance_factor(left(n)) < 0   ->
                rotate_right(Node(data(n), rotate_left(left(n)), right(n)))
          [] bf < -1 /\ balance_factor(right(n)) <= 0 -> rotate_left(n)
          [] bf < -1 /\ balance_factor(right(n)) > 0  ->
                rotate_left(Node(data(n), left(n), rotate_right(right(n))))
          [] OTHER -> n

RECURSIVE avl_insert(_, _)
avl_insert(root, x) ==
    CASE root = NULL    -> Node(x, NULL, NULL)
      [] root # NULL /\ x < data(root) ->
            rebalance(Node(data(root), avl_insert(left(root), x), right(root)))
      [] root # NULL /\ x > data(root) ->
            rebalance(Node(data(root), left(root), avl_insert(right(root), x)))
      [] OTHER          -> root

RECURSIVE inorder(_)
inorder(root) ==
    IF root = NULL THEN <<>>
    ELSE inorder(left(root)) \o <<data(root)>> \o inorder(right(root))

\* rbtree_insert_simple, which neither colours nor rotates
RECURSIVE rbtree_insert_simple(_, _)
rbtree_insert_simple(root, x) ==
    CASE root = NULL -> Node(x, NULL, NULL)
      [] root # NULL /\ x < data(root) ->
            Node(data(root), rbtree_insert_simple(left(root), x), right(root))
      [] root # NULL /\ x > data(root) ->
            Node(data(root), left(root), rbtree_insert_simple(right(root), x))
      [] OTHER -> root

RECURSIVE rbtree_search(_, _)
rbtree_search(root, x) ==
    IF root = NULL THEN NULL
    ELSE IF x < data(root) THEN rbtree_search(left(root), x)
    ELSE IF x > data(root) THEN rbtree_search(right(root), x)
    ELSE root

-----------------------------------------------------------------------------
(* trie.c: a node holds is_end and count; autocomplete.c: is_end and freq. *)

Prefix(w, n) == SubSeq(w, 1, n)

\* The trie with the nodes on the way to word, where no node was
WithPath(trie, word, new_node) ==
    LET path == {Prefix(word, n) : n \in 0 .. Len(word)}
    IN  [p \in (DOMAIN trie) \union path |-> IF p \in DOMAIN trie THEN trie[p] ELSE new_node]

trie_new == [p \in {<<>>} |-> [is_end |-> FALSE, count |-> 0]]

trie_insert(trie, word) ==
    LET t == WithPath(trie, word, [is_end |-> FALSE, count |-> 0])
        passed == {Prefix(word, n) : n \in 1 .. Len(word)}
    IN  [p \in DOMAIN t |-> [is_end |-> t[p].is_end \/ p = word,
                             count  |-> IF p \in passed THEN t[p].count + 1 ELSE t[p].count]]

trie_search(trie, word) == word \in DOMAIN trie /\ trie[word].is_end
trie_starts_with(trie, prefix) == prefix \in DOMAIN trie

\* The ends of words below a node, a node before its children, these in order:
\* what autocomplete_dfs prints and collect visits.
RECURSIVE Below(_, _)
Below(trie, p) ==
    LET child(s, a) == IF Append(p, a) \in DOMAIN trie THEN s \o Below(trie, Append(p, a)) ELSE s
    IN  FoldLeft(child, IF trie[p].is_end THEN <<p>> ELSE <<>>, Alphabet)

trie_autocomplete(trie, prefix) ==
    IF prefix \in DOMAIN trie THEN Below(trie, prefix) ELSE <<>>

ac_new == [p \in {<<>>} |-> [is_end |-> FALSE, freq |-> 0]]

ac_insert(trie, word, freq) ==
    LET t == WithPath(trie, word, [is_end |-> FALSE, freq |-> 0])
    IN  [t EXCEPT ![word] = [is_end |-> TRUE, freq |-> @.freq + freq]]

\* collect stops at MAX_CAND candidates, before they are sorted by frequency.
collect(trie, prefix) ==
    LET all == Below(trie, prefix)
    IN  [k \in 1 .. (IF Len(all) > MAX_CAND THEN MAX_CAND ELSE Len(all)) |->
            [word |-> all[k], freq |-> trie[all[k]].freq]]

ac_suggest(trie, prefix, k) ==
    IF prefix \notin DOMAIN trie THEN <<>>
    ELSE LET cands == SortSeq(collect(trie, prefix), LAMBDA a, b : a.freq > b.freq)
         IN  SubSeq(cands, 1, IF Len(cands) < k THEN Len(cands) ELSE k)

-----------------------------------------------------------------------------
(* What the functions are for                                              *)

RECURSIVE TrueHeight(_), Balanced(_)
TrueHeight(n) == IF n = NULL THEN -1 ELSE 1 + max(TrueHeight(left(n)), TrueHeight(right(n)))
Balanced(n) ==
    n = NULL \/ (/\ n[2] = TrueHeight(n)
                 /\ TrueHeight(left(n)) - TrueHeight(right(n)) \in -1 .. 1
                 /\ Balanced(left(n)) /\ Balanced(right(n)))

Increases(s) == \A k \in 2 .. Len(s) : s[k - 1] < s[k]

\* Whatever keys are inserted in whatever order, an AVL tree holds each of them
\* once, in order, its heights are right and the subtrees of a node differ by
\* at most one; the simple tree holds the same keys and finds exactly them.
SearchTreesAreRight(keys) ==
    LET S == {keys[k] : k \in DOMAIN keys}
        avl == FoldLeft(avl_insert, NULL, keys)
        bst == FoldLeft(rbtree_insert_simple, NULL, keys)
    IN  /\ Increases(inorder(avl)) /\ {inorder(avl)[k] : k \in 1 .. Len(inorder(avl))} = S
        /\ Balanced(avl)
        /\ inorder(bst) = inorder(avl)
        /\ \A x \in 0 .. 7 : IF x \in S THEN data(rbtree_search(bst, x)) = x
                             ELSE rbtree_search(bst, x) = NULL

Times(words, P(_)) == Cardinality({k \in DOMAIN words : P(words[k])})

\* u comes before v in a dictionary.
Precedes(u, v) ==
    \/ IsStrictPrefix(u, v)
    \/ \E n \in 1 .. Len(u), i, j \in DOMAIN Alphabet :
          /\ n <= Len(v) /\ Prefix(u, n - 1) = Prefix(v, n - 1)
          /\ i < j /\ u[n] = Alphabet[i] /\ v[n] = Alphabet[j]

\* A trie knows the words inserted and their prefixes, counts the insertions
\* under a prefix and completes it by its words, each once.  ac_suggest shows the
\* k most frequent of the first MAX_CAND words with the prefix in the order of the
\* dictionary (word n of the input has the frequency n), and no other, however
\* frequent.
TriesAreRight(words, Word) ==
    LET trie == FoldLeft(trie_insert, trie_new, words)
        ac == FoldLeft(LAMBDA t, n : ac_insert(t, words[n], n), ac_new, [n \in DOMAIN words |-> n])
        known == {words[n] : n \in DOMAIN words}
        freq(w) == FoldLeft(LAMBDA t, n : IF words[n] = w THEN t + n ELSE t, 0,
                            [n \in DOMAIN words |-> n])
    IN  \A w \in Word, k \in 1 .. 2 :
        LET with == {v \in known : IsPrefix(w, v)}
            held == {v \in with : Cardinality({u \in with : Precedes(u, v)}) < MAX_CAND}
            shown == trie_autocomplete(trie, w)
            best == ac_suggest(ac, w, k)
            suggested == {best[i].word : i \in DOMAIN best}
        IN  /\ trie_search(trie, w) <=> w \in known
            /\ trie_starts_with(trie, w) <=> w = <<>> \/ with # {}
            /\ w # <<>> /\ with # {} => trie[w].count = Times(words, LAMBDA v : v \in with)
            /\ Len(shown) = Cardinality(with) /\ {shown[i] : i \in DOMAIN shown} = with
            /\ Len(best) = Cardinality(suggested) /\ suggested \subseteq held
            /\ \A i \in DOMAIN best : best[i].freq = freq(best[i].word)
            /\ Len(best) = (IF Cardinality(held) < k THEN Cardinality(held) ELSE k)
            /\ \A v \in held \ suggested : \A u \in suggested : freq(v) <= freq(u)
=============================================================================
