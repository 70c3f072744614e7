--------------------------- MODULE ChainTheorems ----------------------------
(***************************************************************************)
(* What Chain and ChainSet compute, for every finite set of nodes: the     *)
(* lemmas that the proofs about linked lists rest on.  Chain unrolls a     *)
(* recursive function; what it does for every length is proved by          *)
(* induction on sets of numbers, with a least counterexample.  At the end, *)
(* remainders.                                                             *)
(***************************************************************************)
EXTENDS Chains, FiniteSetTheorems, SequenceTheorems, WellFoundedInduction, TLAPS

\* Induction: a set that holds 0, and with every number the next, holds all
\* natural numbers, for a number that is missing would have a least one before it.
LEMMA SetInduction ==
  ASSUME NEW S \in SUBSET Nat, 0 \in S, \A n \in S : n + 1 \in S
  PROVE  S = Nat
<1>1. SUFFICES ASSUME Nat \ S # {} PROVE FALSE
  OBVIOUS
<1>2. IsWellFoundedOn(OpToRel(<, Nat), Nat)
  BY NatLessThanWellFounded
<1>3. \E x \in Nat \ S : \A y \in Nat \ S : ~ (<<y, x>> \in OpToRel(<, Nat))
  BY <1>1, <1>2, WFMin
<1>4. \E x \in Nat \ S : \A y \in Nat \ S : ~ (y < x)
  BY <1>3 DEF OpToRel
<1>5. PICK x \in Nat \ S : \A y \in Nat \ S : ~ (y < x)
  BY <1>4
<1>6. x # 0 /\ x - 1 \in Nat
  OBVIOUS
<1>7. x - 1 \in S
  BY <1>5, <1>6
<1>8. QED
  BY <1>7

-----------------------------------------------------------------------------
\* The link fields of the nodes D.
Links(D, null) == [D -> D \union {null}]

\* The chains of at most k nodes, from every node, when f has the shorter ones.
ChainsUpTo(f, D, link, null, k) ==
    [a \in D \union {null} |-> IF k = 0 \/ a = null THEN <<>> ELSE <<a>> \o f[k - 1][link[a]]]

\* f is the recursive function of Chain, for lists of up to m nodes.
IsUnrolling(f, m, D, link, null) == f = [k \in 0 .. m |-> ChainsUpTo(f, D, link, null, k)]

Unrolling(m, D, link, null) == CHOOSE f : IsUnrolling(f, m, D, link, null)

\* Chain applies the unrolling of its recursive function.
LEMMA ChainIsFrom ==
  ASSUME NEW D, NEW null, NEW link \in Links(D, null), NEW first
  PROVE  Chain(first, link, null) = Unrolling(Cardinality(D), D, link, null)[Cardinality(D)][first]
<1>1. DOMAIN link = D
  BY DEF Links
<1>2. Chain(first, link, null) =
        Unrolling(Cardinality(DOMAIN link), DOMAIN link, link, null)[Cardinality(DOMAIN link)][first]
  BY DEF Chain, Unrolling, IsUnrolling, ChainsUpTo
<1>3. QED
  BY <1>1, <1>2

\* The recursive function exists: of m levels there is one of m + 1.
LEMMA FromExists ==
  ASSUME NEW D, NEW null, NEW link \in Links(D, null), NEW m \in Nat
  PROVE  \E f : IsUnrolling(f, m, D, link, null)
<1> DEFINE S == {l \in Nat : \E f : IsUnrolling(f, l, D, link, null)}
<1>1. 0 \in S
  <2> DEFINE f == [k \in 0 .. 0 |-> [a \in D \union {null} |-> <<>>]]
  <2>1. \A k \in 0 .. 0 : ChainsUpTo(f, D, link, null, k) = [a \in D \union {null} |-> <<>>]
    BY DEF ChainsUpTo
  <2>2. IsUnrolling(f, 0, D, link, null)
    BY <2>1 DEF IsUnrolling
  <2>3. QED
    BY <2>2
<1>2. ASSUME NEW l \in S PROVE l + 1 \in S
  <2>1. PICK f : IsUnrolling(f, l, D, link, null)
    BY <1>2
  <2> DEFINE g == [k \in 0 .. l + 1 |-> ChainsUpTo(f, D, link, null, k)]
  <2>2. l \in Nat
    OBVIOUS
  <2> HIDE DEF S
  <2>3. \A k \in 0 .. l : g[k] = f[k]
    BY <2>1, <2>2 DEF IsUnrolling
  <2>4. ASSUME NEW k \in 0 .. l + 1
        PROVE  ChainsUpTo(g, D, link, null, k) = ChainsUpTo(f, D, link, null, k)
    <3> HIDE DEF g
    <3>1. CASE k = 0
      BY <3>1 DEF ChainsUpTo
    <3>2. CASE k # 0
      <4>1. g[k - 1] = f[k - 1]
        BY <2>2, <2>3, <3>2
      <4>2. QED
        BY <4>1 DEF ChainsUpTo
    <3>3. QED
      BY <3>1, <3>2
  <2>5. IsUnrolling(g, l + 1, D, link, null)
    BY <2>4 DEF IsUnrolling
  <2> HIDE DEF g
  <2>6. l + 1 \in Nat
    BY <2>2
  <2>7. QED
    BY <2>5, <2>6 DEF S
<1>3. S \in SUBSET Nat
  OBVIOUS
<1> HIDE DEF S
<1>4. S = Nat
  BY <1>1, <1>2, <1>3, SetInduction
<1>5. m \in S
  BY <1>4
<1>6. QED
  BY <1>5 DEF S

\* So the CHOOSE of its definition has its defining equation.
LEMMA FromStep ==
  ASSUME NEW D, NEW null, NEW link \in Links(D, null), NEW m \in Nat, NEW k \in 0 .. m
  PROVE  Unrolling(m, D, link, null)[k] = ChainsUpTo(Unrolling(m, D, link, null), D, link, null, k)
<1>1. IsUnrolling(Unrolling(m, D, link, null), m, D, link, null)
  BY FromExists DEF Unrolling
<1>2. QED
  BY <1>1 DEF IsUnrolling

-----------------------------------------------------------------------------
\* s is the list from first: every node links to the next one, the last one to
\* null, and no node comes twice.
IsChain(s, first, D, link, null) ==
    /\ s \in Seq(D)
    /\ first = IF s = <<>> THEN null ELSE s[1]
    /\ \A k \in 1 .. Len(s) : link[s[k]] = IF k = Len(s) THEN null ELSE s[k + 1]
    /\ \A k, l \in 1 .. Len(s) : s[k] = s[l] => k = l

\* The successors of the first node of a chain are a chain.
LEMMA TailOfChain ==
  ASSUME NEW D, NEW null, NEW link \in Links(D, null), NEW first, NEW s,
         IsChain(s, first, D, link, null), s # <<>>
  PROVE  /\ first \in D
         /\ IsChain(Tail(s), link[first], D, link, null)
         /\ s = <<first>> \o Tail(s)
         /\ Len(Tail(s)) = Len(s) - 1
<1> DEFINE t == Tail(s)
           n == Len(s)
<1>1. s \in Seq(D) /\ n \in Nat /\ n > 0
  BY EmptySeq DEF IsChain
<1>2. first = s[1] /\ first \in D
  <2>1. first = s[1]
    BY DEF IsChain
  <2>2. QED
    BY <1>1, <2>1, ElementOfSeq
<1>3. \A k \in 1 .. n : link[s[k]] = IF k = n THEN null ELSE s[k + 1]
  BY DEF IsChain
<1>4. \A k, l \in 1 .. n : s[k] = s[l] => k = l
  BY DEF IsChain
<1>5. t \in Seq(D) /\ Len(t) = n - 1 /\ \A k \in 1 .. n - 1 : t[k] = s[k + 1]
  BY <1>1, HeadTailProperties
<1>6. s = <<first>> \o t
  <2> HIDE DEF t
  <2>1. <<first>> \in Seq(D) /\ Len(<<first>>) = 1 /\ <<first>>[1] = first
    BY <1>2
  <2>2. /\ <<first>> \o t \in Seq(D)
        /\ Len(<<first>> \o t) = n
        /\ \A k \in 1 .. n : (<<first>> \o t)[k] = IF k <= 1 THEN first ELSE t[k - 1]
    <3>1. /\ <<first>> \o t \in Seq(D)
          /\ Len(<<first>> \o t) = 1 + Len(t)
          /\ \A k \in 1 .. 1 + Len(t) :
                (<<first>> \o t)[k] = IF k <= 1 THEN <<first>>[k] ELSE t[k - 1]
      BY <1>5, <2>1, ConcatProperties
    <3>2. QED
      BY <1>1, <1>5, <2>1, <3>1
  <2>3. \A k \in 1 .. n : (<<first>> \o t)[k] = s[k]
    <3> SUFFICES ASSUME NEW k \in 1 .. n
                 PROVE  (<<first>> \o t)[k] = s[k]
      OBVIOUS
    <3>1. CASE k = 1
      BY <1>1, <1>2, <2>2, <3>1
    <3>2. CASE k # 1
      <4>1. k - 1 \in 1 .. n - 1 /\ ~ (k <= 1) /\ (k - 1) + 1 = k
        BY <1>1, <3>2
      <4>2. t[k - 1] = s[k]
        BY <1>5, <4>1
      <4>3. QED
        BY <2>2, <4>1, <4>2
    <3>3. QED
      BY <3>1, <3>2
  <2>4. QED
    BY <1>1, <2>2, <2>3, SeqEqual
<1> HIDE DEF t, n
<1>7. link[first] = IF t = <<>> THEN null ELSE t[1]
  <2>1. t = <<>> <=> n = 1
    BY <1>1, <1>5, EmptySeq
  <2>2. link[first] = IF n = 1 THEN null ELSE s[2]
    BY <1>1, <1>2, <1>3
  <2>3. n # 1 => t[1] = s[2]
    BY <1>1, <1>5
  <2>4. QED
    BY <2>1, <2>2, <2>3
<1>8. ASSUME NEW k \in 1 .. Len(t)
      PROVE  link[t[k]] = IF k = Len(t) THEN null ELSE t[k + 1]
  <2>1. k + 1 \in 1 .. n /\ t[k] = s[k + 1]
    BY <1>1, <1>5
  <2>2. link[s[k + 1]] = IF k + 1 = n THEN null ELSE s[(k + 1) + 1]
    BY <1>3, <2>1
  <2>3. k # Len(t) => t[k + 1] = s[(k + 1) + 1]
    BY <1>1, <1>5
  <2>4. k = Len(t) <=> k + 1 = n
    BY <1>1, <1>5
  <2>5. QED
    BY <2>1, <2>2, <2>3, <2>4
<1>9. ASSUME NEW k \in 1 .. Len(t), NEW l \in 1 .. Len(t), t[k] = t[l]
      PROVE  k = l
  <2>1. k + 1 \in 1 .. n /\ l + 1 \in 1 .. n /\ t[k] = s[k + 1] /\ t[l] = s[l + 1]
    BY <1>1, <1>5
  <2>2. k + 1 = l + 1
    BY <1>4, <1>9, <2>1
  <2>3. QED
    BY <2>2
<1>10. IsChain(t, link[first], D, link, null)
  BY <1>5, <1>7, <1>8, <1>9 DEF IsChain
<1>11. QED
  BY <1>2, <1>5, <1>6, <1>10 DEF t, n

\* A chain of at most m nodes is what m levels of the unrolling compute.
LEMMA UnrolledIsChain ==
  ASSUME NEW D, NEW null, null \notin D, NEW link \in Links(D, null), NEW m \in Nat,
         NEW u, NEW a, IsChain(u, a, D, link, null), Len(u) <= m
  PROVE  Unrolling(m, D, link, null)[m][a] = u
<1> DEFINE Right(n) == \A s, first : \A k \in 0 .. m :
               IsChain(s, first, D, link, null) /\ Len(s) = n /\ n <= k =>
                   Unrolling(m, D, link, null)[k][first] = s
           S == {n \in Nat : Right(n)}
<1>1. 0 \in S
  <2> SUFFICES ASSUME NEW s, NEW first, NEW k \in 0 .. m,
                      IsChain(s, first, D, link, null), Len(s) = 0
               PROVE  Unrolling(m, D, link, null)[k][first] = s
    OBVIOUS
  <2>1. s = <<>> /\ first = null
    BY DEF IsChain
  <2>2. Unrolling(m, D, link, null)[k] = ChainsUpTo(Unrolling(m, D, link, null), D, link, null, k)
    BY FromStep
  <2>3. QED
    BY <2>1, <2>2 DEF ChainsUpTo
<1>2. ASSUME NEW n \in S PROVE n + 1 \in S
  <2>1. n \in Nat /\ Right(n)
    OBVIOUS
  <2> SUFFICES ASSUME NEW s, NEW first, NEW k \in 0 .. m,
                      IsChain(s, first, D, link, null), Len(s) = n + 1, n + 1 <= k
               PROVE  Unrolling(m, D, link, null)[k][first] = s
    BY <2>1
  <2> HIDE DEF S
  <2>2. s # <<>>
    BY <2>1
  <2>3. /\ first \in D
        /\ IsChain(Tail(s), link[first], D, link, null)
        /\ s = <<first>> \o Tail(s)
        /\ Len(Tail(s)) = n
    BY <2>1, <2>2, TailOfChain
  <2>4. k - 1 \in 0 .. m /\ n <= k - 1 /\ k # 0
    BY <2>1
  <2>5. Unrolling(m, D, link, null)[k - 1][link[first]] = Tail(s)
    BY <2>1, <2>3, <2>4
  <2> HIDE DEF Right
  <2>6. Unrolling(m, D, link, null)[k] = ChainsUpTo(Unrolling(m, D, link, null), D, link, null, k)
    BY FromStep
  <2>7. Unrolling(m, D, link, null)[k][first] = <<first>> \o Unrolling(m, D, link, null)[k - 1][link[first]]
    BY <2>3, <2>4, <2>6 DEF ChainsUpTo
  <2>8. QED
    BY <2>3, <2>5, <2>7
<1>3. S \in SUBSET Nat
  OBVIOUS
<1>4. S = Nat
  <2> HIDE DEF S
  <2>1. QED
    BY <1>1, <1>2, <1>3, SetInduction
<1>5. Right(Len(u))
  <2>1. Len(u) \in Nat
    BY LenProperties DEF IsChain
  <2> HIDE DEF Right
  <2>2. QED
    BY <1>4, <2>1
<1>6. m \in 0 .. m
  OBVIOUS
<1>7. QED
  BY <1>5, <1>6

\* A chain visits no node twice: it is no longer than there are nodes.
LEMMA ChainFits ==
  ASSUME NEW D, IsFiniteSet(D), NEW null, NEW link, NEW first, NEW s,
         IsChain(s, first, D, link, null)
  PROVE  Len(s) <= Cardinality(D)
<1>1. s \in Seq(D) /\ \A k, l \in 1 .. Len(s) : s[k] = s[l] => k = l
  BY DEF IsChain
<1>2. Len(s) \in Nat /\ s \in [1 .. Len(s) -> D]
  BY <1>1
<1>3. s \in Injection(1 .. Len(s), D)
  BY <1>1, <1>2 DEF Injection, IsInjective
<1>4. Cardinality(1 .. Len(s)) <= Cardinality(D)
  BY <1>3, FS_Injection
<1>5. Cardinality(1 .. Len(s)) = Len(s)
  BY <1>2, FS_Interval
<1>6. QED
  BY <1>4, <1>5

\* If there is a chain from first, it is Chain(first).
LEMMA ChainUnique ==
  ASSUME NEW D, IsFiniteSet(D), NEW null, null \notin D, NEW link \in Links(D, null),
         NEW first, NEW s, IsChain(s, first, D, link, null)
  PROVE  Chain(first, link, null) = s
<1>1. Cardinality(D) \in Nat
  BY FS_CardinalityType
<1>3. Len(s) <= Cardinality(D)
  BY ChainFits
<1>4. Unrolling(Cardinality(D), D, link, null)[Cardinality(D)][first] = s
  BY <1>1, <1>3, UnrolledIsChain
<1>5. QED
  BY <1>4, ChainIsFrom

-----------------------------------------------------------------------------
\* The list from first ends: Chain does not stop in a cycle.
Whole(first, D, link, null) == IsChain(Chain(first, link, null), first, D, link, null)

\* The elements of ChainSet are the nodes of the chain.
LEMMA ChainSetElements ==
  ASSUME NEW D, NEW null, NEW link, NEW first, NEW s, IsChain(s, first, D, link, null),
         Chain(first, link, null) = s
  PROVE  /\ ChainSet(first, link, null) = {s[k] : k \in 1 .. Len(s)}
         /\ ChainSet(first, link, null) \subseteq D
<1>1. s \in Seq(D)
  BY DEF IsChain
<1>2. DOMAIN s = 1 .. Len(s) /\ \A k \in 1 .. Len(s) : s[k] \in D
  BY <1>1, LenProperties, ElementOfSeq
<1>3. QED
  BY <1>2 DEF ChainSet

\* The null pointer is the empty list.
LEMMA EmptyChain ==
  ASSUME NEW D, IsFiniteSet(D), NEW null, null \notin D, NEW link \in Links(D, null)
  PROVE  /\ Chain(null, link, null) = <<>>
         /\ Whole(null, D, link, null)
         /\ ChainSet(null, link, null) = {}
<1>1. IsChain(<<>>, null, D, link, null)
  <2>1. <<>> \in Seq(D) /\ Len(<<>>) = 0 /\ 1 .. 0 = {}
    BY EmptySeq
  <2>2. QED
    BY <2>1 DEF IsChain
<1>2. Chain(null, link, null) = <<>>
  BY <1>1, ChainUnique
<1>3. 1 .. Len(<<>>) = {}
  BY EmptySeq
<1>4. QED
  BY <1>1, <1>2, <1>3, ChainSetElements DEF Whole

\* A list is its first node and the list of the successor, and does not come
\* back to that node.
LEMMA FirstOfChain ==
  ASSUME NEW D, IsFiniteSet(D), NEW null, null \notin D, NEW link \in Links(D, null),
         NEW first \in D, Whole(first, D, link, null)
  PROVE  /\ Whole(link[first], D, link, null)
         /\ Chain(first, link, null) = <<first>> \o Chain(link[first], link, null)
         /\ Tail(Chain(first, link, null)) = Chain(link[first], link, null)
         /\ first \notin ChainSet(link[first], link, null)
         /\ ChainSet(first, link, null) = {first} \union ChainSet(link[first], link, null)
<1> DEFINE s == Chain(first, link, null)
<1>1. IsChain(s, first, D, link, null)
  BY DEF Whole
<1>2. s # <<>>
  BY <1>1 DEF IsChain
<1>3. /\ IsChain(Tail(s), link[first], D, link, null)
      /\ s = <<first>> \o Tail(s)
      /\ Len(Tail(s)) = Len(s) - 1
  BY <1>1, <1>2, TailOfChain
<1>4. Chain(link[first], link, null) = Tail(s)
  BY <1>3, ChainUnique
<1>5. ChainSet(link[first], link, null) = {Tail(s)[k] : k \in 1 .. Len(Tail(s))}
  <2> DEFINE t == Tail(s)
  <2>1. IsChain(t, link[first], D, link, null) /\ Chain(link[first], link, null) = t
    BY <1>3, <1>4
  <2> HIDE DEF s, t
  <2>2. ChainSet(link[first], link, null) = {t[k] : k \in 1 .. Len(t)}
    BY <2>1, ChainSetElements
  <2>3. QED
    BY <2>2 DEF t
<1>6. /\ s \in Seq(D) /\ Len(s) \in Nat /\ Len(s) > 0
      /\ 1 \in 1 .. Len(s) /\ s[1] = first
      /\ \A k, l \in 1 .. Len(s) : s[k] = s[l] => k = l
  BY <1>1, <1>2, EmptySeq DEF IsChain
<1>7. \A k \in 1 .. Len(Tail(s)) : Tail(s)[k] = s[k + 1] /\ k + 1 \in 1 .. Len(s) /\ k + 1 # 1
  <2>1. \A k \in 1 .. Len(Tail(s)) : Tail(s)[k] = s[k + 1]
    BY <1>2, <1>6, HeadTailProperties
  <2>2. QED
    BY <1>3, <1>6, <2>1
<1>8. \A k \in 1 .. Len(Tail(s)) : Tail(s)[k] # first
  BY <1>6, <1>7
<1>9. \A k \in 1 .. Len(s) : k # 1 => k - 1 \in 1 .. Len(Tail(s)) /\ s[k] = Tail(s)[k - 1]
  <2>1. \A k \in 1 .. Len(s) : k # 1 => k - 1 \in 1 .. Len(Tail(s)) /\ (k - 1) + 1 = k
    BY <1>3, <1>6
  <2>2. QED
    BY <1>7, <2>1
<1>10. ChainSet(first, link, null) = {s[k] : k \in 1 .. Len(s)}
  BY <1>1, ChainSetElements
<1>11. {s[k] : k \in 1 .. Len(s)} = {first} \union {Tail(s)[k] : k \in 1 .. Len(Tail(s))}
  <2> DEFINE t == Tail(s)
             m == Len(s)
             l == Len(t)
  <2>1. /\ 1 \in 1 .. m /\ s[1] = first
        /\ \A k \in 1 .. l : t[k] = s[k + 1] /\ k + 1 \in 1 .. m
        /\ \A k \in 1 .. m : k # 1 => k - 1 \in 1 .. l /\ s[k] = t[k - 1]
    BY <1>6, <1>7, <1>9
  <2> HIDE DEF s, t, m, l
  <2>2. {s[k] : k \in 1 .. m} = {first} \union {t[k] : k \in 1 .. l}
    BY <2>1
  <2>3. QED
    BY <2>2 DEF m, l, t
<1>12. QED
  BY <1>3, <1>4, <1>5, <1>8, <1>10, <1>11 DEF Whole

\* A node in front of a chain it does not occur in is a chain.
LEMMA PushedIsChain ==
  ASSUME NEW D, NEW null, NEW link \in Links(D, null), NEW a \in D, NEW s,
         IsChain(s, link[a], D, link, null), \A k \in 1 .. Len(s) : s[k] # a
  PROVE  /\ IsChain(<<a>> \o s, a, D, link, null)
         /\ Len(<<a>> \o s) = Len(s) + 1
         /\ \A k \in 1 .. Len(s) + 1 : (<<a>> \o s)[k] = IF k = 1 THEN a ELSE s[k - 1]
<1> DEFINE t == <<a>> \o s
           n == Len(s)
<1>1. s \in Seq(D) /\ n \in Nat
  BY LenProperties DEF IsChain
<1>2. <<a>> \in Seq(D) /\ Len(<<a>>) = 1 /\ <<a>>[1] = a
  OBVIOUS
<1>3. /\ t \in Seq(D)
      /\ Len(t) = 1 + n
      /\ \A k \in 1 .. 1 + n : t[k] = IF k <= 1 THEN <<a>>[k] ELSE s[k - 1]
  BY <1>1, <1>2, ConcatProperties
<1>4. t \in Seq(D) /\ Len(t) = n + 1 /\ \A k \in 1 .. n + 1 : t[k] = IF k = 1 THEN a ELSE s[k - 1]
  BY <1>1, <1>2, <1>3
<1>5. link[a] = IF s = <<>> THEN null ELSE s[1]
  BY DEF IsChain
<1>6. \A k \in 1 .. n : link[s[k]] = IF k = n THEN null ELSE s[k + 1]
  BY DEF IsChain
<1>7. \A k, l \in 1 .. n : s[k] = s[l] => k = l
  BY DEF IsChain
<1>8. s = <<>> <=> n = 0
  BY <1>1, EmptySeq
<1>9. \A k \in 1 .. n : s[k] # a
  OBVIOUS
<1> HIDE DEF t, n
<1>10. t # <<>> /\ t[1] = a
  BY <1>1, <1>4, EmptySeq
<1>11. ASSUME NEW k \in 1 .. n + 1
       PROVE  link[t[k]] = IF k = n + 1 THEN null ELSE t[k + 1]
  <2>1. CASE k = 1
    <3>1. t[k] = a
      BY <1>4, <2>1
    <3>2. n # 0 => t[k + 1] = s[1]
      BY <1>1, <1>4, <2>1
    <3>3. QED
      BY <1>1, <1>5, <1>8, <2>1, <3>1, <3>2
  <2>2. CASE k # 1
    <3>1. k - 1 \in 1 .. n /\ (k - 1) + 1 = k /\ (k - 1 = n <=> k = n + 1)
      BY <1>1, <2>2
    <3>2. t[k] = s[k - 1]
      BY <1>4, <2>2
    <3>3. link[s[k - 1]] = IF k - 1 = n THEN null ELSE s[k]
      BY <1>6, <3>1
    <3>4. k # n + 1 => t[k + 1] = s[k]
      <4>1. k # n + 1 => k + 1 \in 1 .. n + 1 /\ k + 1 # 1 /\ (k + 1) - 1 = k
        BY <1>1, <2>2
      <4>2. QED
        BY <1>4, <4>1
    <3>5. QED
      BY <3>1, <3>2, <3>3, <3>4
  <2>3. QED
    BY <2>1, <2>2
<1>12. ASSUME NEW k \in 1 .. n + 1, NEW l \in 1 .. n + 1, t[k] = t[l]
       PROVE  k = l
  <2>1. \A j \in 1 .. n + 1 : j # 1 => j - 1 \in 1 .. n /\ t[j] = s[j - 1] /\ t[j] # a
    <3>1. \A j \in 1 .. n + 1 : j # 1 => j - 1 \in 1 .. n /\ t[j] = s[j - 1]
      BY <1>1, <1>4
    <3>2. QED
      BY <1>9, <3>1
  <2>2. CASE k = 1 \/ l = 1
    BY <1>10, <1>12, <2>1, <2>2
  <2>3. CASE k # 1 /\ l # 1
    <3>1. k - 1 = l - 1
      BY <1>7, <1>12, <2>1, <2>3
    <3>2. QED
      BY <1>1, <3>1
  <2>4. QED
    BY <2>2, <2>3
<1>13. IsChain(t, a, D, link, null)
  BY <1>4, <1>10, <1>11, <1>12 DEF IsChain
<1>14. QED
  BY <1>4, <1>13 DEF t, n

\* To link a new node to the first one of a list makes a longer list.
LEMMA PushOnChain ==
  ASSUME NEW D, IsFiniteSet(D), NEW null, null \notin D, NEW link \in Links(D, null),
         NEW a \in D, Whole(link[a], D, link, null), a \notin ChainSet(link[a], link, null)
  PROVE  /\ Whole(a, D, link, null)
         /\ Chain(a, link, null) = <<a>> \o Chain(link[a], link, null)
         /\ ChainSet(a, link, null) = {a} \union ChainSet(link[a], link, null)
<1> DEFINE s == Chain(link[a], link, null)
           t == <<a>> \o s
<1>1. IsChain(s, link[a], D, link, null)
  BY DEF Whole
<1>2. ChainSet(link[a], link, null) = {s[k] : k \in 1 .. Len(s)}
  BY <1>1, ChainSetElements
<1>3. \A k \in 1 .. Len(s) : s[k] # a
  BY <1>2
<1>4. Len(s) \in Nat
  BY <1>1, LenProperties DEF IsChain
<1> HIDE DEF s
<1>5. /\ IsChain(t, a, D, link, null)
      /\ Len(t) = Len(s) + 1
      /\ \A k \in 1 .. Len(s) + 1 : t[k] = IF k = 1 THEN a ELSE s[k - 1]
  BY <1>1, <1>3, PushedIsChain
<1> HIDE DEF t
<1>6. Chain(a, link, null) = t
  BY <1>5, ChainUnique
<1>7. ChainSet(a, link, null) = {t[k] : k \in 1 .. Len(t)}
  BY <1>5, <1>6, ChainSetElements
<1>8. \A k \in 1 .. Len(s) : k + 1 \in 1 .. Len(s) + 1 /\ t[k + 1] = s[k]
  BY <1>4, <1>5
<1>9. \A k \in 1 .. Len(s) + 1 : k = 1 \/ (k - 1 \in 1 .. Len(s) /\ t[k] = s[k - 1])
  BY <1>4, <1>5
<1>10. 1 \in 1 .. Len(t) /\ t[1] = a
  BY <1>4, <1>5
<1>11. {t[k] : k \in 1 .. Len(t)} = {a} \union {s[k] : k \in 1 .. Len(s)}
  BY <1>5, <1>8, <1>9, <1>10
<1>12. QED
  BY <1>2, <1>5, <1>6, <1>7, <1>11 DEF s, t, Whole

\* A list does not change when its own links do not.
LEMMA ChainKept ==
  ASSUME NEW D, IsFiniteSet(D), NEW null, null \notin D, NEW link \in Links(D, null),
         NEW first, Whole(first, D, link, null), NEW new \in Links(D, null),
         \A a \in ChainSet(first, link, null) : new[a] = link[a]
  PROVE  /\ Chain(first, new, null) = Chain(first, link, null)
         /\ Whole(first, D, new, null)
         /\ ChainSet(first, new, null) = ChainSet(first, link, null)
<1> DEFINE s == Chain(first, link, null)
<1>1. IsChain(s, first, D, link, null)
  BY DEF Whole
<1>2. ChainSet(first, link, null) = {s[k] : k \in 1 .. Len(s)}
  BY <1>1, ChainSetElements
<1>3. \A k \in 1 .. Len(s) : new[s[k]] = link[s[k]]
  BY <1>2
<1> HIDE DEF s
<1>4. IsChain(s, first, D, new, null)
  BY <1>1, <1>3 DEF IsChain
<1>5. Chain(first, new, null) = s
  BY <1>4, ChainUnique
<1>6. QED
  BY <1>2, <1>4, <1>5, ChainSetElements DEF s, Whole

\* A list that ends consists of nodes.
LEMMA ChainSetType ==
  ASSUME NEW D, NEW null, NEW link, NEW first, Whole(first, D, link, null)
  PROVE  ChainSet(first, link, null) \subseteq D
BY ChainSetElements DEF Whole
\* A node of its own, linked to from the last one of a chain, is the last one of
\* a longer chain.
LEMMA AppendedIsChain ==
  ASSUME NEW D, NEW null, null \notin D, NEW link \in Links(D, null), NEW a \in D, NEW first,
         NEW s, IsChain(s, first, D, link, null), s # <<>>,
         \A k \in 1 .. Len(s) : s[k] # a, link[a] = null
  PROVE  IsChain(Append(s, a), first, D, [link EXCEPT ![s[Len(s)]] = a], null)
<1> DEFINE t == Append(s, a)
           n == Len(s)
           new == [link EXCEPT ![s[n]] = a]
<1>1. /\ s \in Seq(D) /\ n \in Nat /\ n > 0 /\ n \in 1 .. n
      /\ first = s[1]
      /\ \A k \in 1 .. n : link[s[k]] = IF k = n THEN null ELSE s[k + 1]
      /\ \A k, l \in 1 .. n : s[k] = s[l] => k = l
  BY EmptySeq DEF IsChain
<1>2. /\ t \in Seq(D) /\ Len(t) = n + 1 /\ t[n + 1] = a
      /\ \A k \in 1 .. n : t[k] = s[k]
  BY <1>1, AppendProperties
<1>3. \A k \in 1 .. n : s[k] \in D
  BY <1>1, ElementOfSeq
<1>4. link \in [D -> D \union {null}]
  BY DEF Links
<1>5. /\ new[s[n]] = a /\ new[a] = null
      /\ \A k \in 1 .. n : k # n => new[s[k]] = s[k + 1]
  BY <1>1, <1>3, <1>4
<1>6. \A k \in 1 .. n : k # n => k + 1 \in 1 .. n
  BY <1>1
<1>7. \A k \in 1 .. n + 1 : k \in 1 .. n \/ k = n + 1
  BY <1>1
<1>8. n + 1 \notin 1 .. n /\ 1 \in 1 .. n
  BY <1>1
<1> HIDE DEF t, n, new
<1>9. t[1] = first /\ t # <<>>
  BY <1>1, <1>2, <1>8, EmptySeq
<1>10. \A k \in 1 .. n + 1 : new[t[k]] = IF k = n + 1 THEN null ELSE t[k + 1]
  <2> SUFFICES ASSUME NEW k \in 1 .. n + 1
               PROVE  new[t[k]] = IF k = n + 1 THEN null ELSE t[k + 1]
    OBVIOUS
  <2>1. CASE k = n + 1
    BY <1>2, <1>5, <2>1
  <2>2. CASE k = n
    BY <1>1, <1>2, <1>5, <1>8, <2>2
  <2>3. CASE k # n + 1 /\ k # n
    BY <1>2, <1>5, <1>6, <1>7, <2>3
  <2>4. QED
    BY <2>1, <2>2, <2>3
<1>11. \A k \in 1 .. n : t[k] # a
  BY <1>2 DEF n
<1>12. \A k, l \in 1 .. n + 1 : t[k] = t[l] => k = l
  BY <1>1, <1>2, <1>7, <1>11
<1>13. QED
  BY <1>2, <1>9, <1>10, <1>12 DEF IsChain, t, new, n

-----------------------------------------------------------------------------
\* The place of every node of a list in its chain.
Places(first, link, null) ==
    [a \in ChainSet(first, link, null) |->
        CHOOSE k \in 1 .. Len(Chain(first, link, null)) : Chain(first, link, null)[k] = a]

\* f gives the place of each of the nodes C in their chain s.
ArePlaces(f, C, s, first, D, link, null) ==
    /\ s \in Seq(D) /\ Len(s) \in Nat /\ C \subseteq D
    /\ f \in [C -> 1 .. Len(s)]
    /\ \A a \in C : s[f[a]] = a
    /\ \A k \in 1 .. Len(s) : s[k] \in C /\ f[s[k]] = k
    /\ first \in C /\ f[first] = 1
    /\ \A a \in C : IF f[a] = Len(s) THEN link[a] = null
                    ELSE link[a] \in C /\ f[link[a]] = f[a] + 1

\* Every node of a list has one place, and its successor the next one.
LEMMA PlacesOfChain ==
  ASSUME NEW D, NEW null, null \notin D, NEW link, NEW first \in D, Whole(first, D, link, null)
  PROVE  ArePlaces(Places(first, link, null), ChainSet(first, link, null),
                   Chain(first, link, null), first, D, link, null)
<1> DEFINE s == Chain(first, link, null)
           f == Places(first, link, null)
           C == ChainSet(first, link, null)
           n == Len(s)
<1>1. /\ s \in Seq(D) /\ n \in Nat
      /\ first = IF s = <<>> THEN null ELSE s[1]
      /\ \A k \in 1 .. n : link[s[k]] = IF k = n THEN null ELSE s[k + 1]
      /\ \A k, l \in 1 .. n : s[k] = s[l] => k = l
  BY DEF Whole, IsChain
<1>2. C = {s[k] : k \in 1 .. n} /\ C \subseteq D
  BY ChainSetElements DEF Whole
<1>3. f = [a \in C |-> CHOOSE k \in 1 .. n : s[k] = a]
  BY DEF Places
<1> HIDE DEF n, s, f, C
<1>4. \A a \in C : f[a] \in 1 .. n /\ s[f[a]] = a
  BY <1>2, <1>3
<1>5. ASSUME NEW k \in 1 .. n PROVE s[k] \in C /\ f[s[k]] = k
  <2>1. s[k] \in C
    BY <1>2
  <2>2. f[s[k]] \in 1 .. n /\ s[f[s[k]]] = s[k]
    BY <1>4, <2>1
  <2>3. QED
    BY <1>1, <2>1, <2>2
<1>6. f \in [C -> 1 .. n]
  BY <1>3, <1>4
<1>7. s # <<>> /\ first = s[1]
  BY <1>1
<1>8. 1 \in 1 .. n
  BY <1>1, <1>7, EmptySeq DEF n
<1>9. ASSUME NEW a \in C
      PROVE  IF f[a] = n THEN link[a] = null ELSE link[a] \in C /\ f[link[a]] = f[a] + 1
  <2>1. f[a] \in 1 .. n /\ s[f[a]] = a
    BY <1>4
  <2>2. link[a] = IF f[a] = n THEN null ELSE s[f[a] + 1]
    BY <1>1, <2>1
  <2>3. f[a] # n => f[a] + 1 \in 1 .. n
    BY <1>1, <2>1
  <2>4. QED
    BY <1>5, <2>2, <2>3
<1>10. first \in C /\ f[first] = 1
  BY <1>5, <1>7, <1>8
<1>11. QED
  BY <1>1, <1>2, <1>4, <1>5, <1>6, <1>9, <1>10 DEF ArePlaces, n, s, f, C

\* To link a new node behind the last one of a list makes a longer list, in
\* which every node keeps its place.
LEMMA AppendToChain ==
  ASSUME NEW D, IsFiniteSet(D), NEW null, null \notin D, NEW link \in Links(D, null),
         NEW first \in D, Whole(first, D, link, null),
         NEW a \in D, a \notin ChainSet(first, link, null), link[a] = null,
         NEW last \in ChainSet(first, link, null), link[last] = null,
         NEW new \in Links(D, null), new[last] = a, \A b \in D \ {last} : new[b] = link[b]
  PROVE  /\ Whole(first, D, new, null)
         /\ Chain(first, new, null) = Append(Chain(first, link, null), a)
         /\ Len(Chain(first, new, null)) = Len(Chain(first, link, null)) + 1
         /\ ChainSet(first, new, null) = ChainSet(first, link, null) \union {a}
         /\ Places(first, new, null)[a] = Len(Chain(first, link, null)) + 1
         /\ \A b \in ChainSet(first, link, null) :
               Places(first, new, null)[b] = Places(first, link, null)[b]
<1> DEFINE s == Chain(first, link, null)
           C == ChainSet(first, link, null)
           f == Places(first, link, null)
           t == Append(s, a)
           E == ChainSet(first, new, null)
           g == Places(first, new, null)
<1>1. ArePlaces(f, C, s, first, D, link, null)
  BY PlacesOfChain
<1>2. f[last] = Len(s) /\ s[Len(s)] = last
  BY <1>1 DEF ArePlaces
<1>3. IsChain(s, first, D, link, null)
  BY DEF Whole
<1>4. s # <<>>
  BY <1>1, EmptySeq DEF ArePlaces
<1>5. \A k \in 1 .. Len(s) : s[k] # a
  BY <1>1 DEF ArePlaces
<1>6. new = [link EXCEPT ![last] = a]
  <2>1. last \in D /\ new \in [D -> D \union {null}] /\ link \in [D -> D \union {null}]
    BY <1>1 DEF ArePlaces, Links
  <2> QED
    BY <2>1
<1> HIDE DEF s, C, f, E, g
<1>7. IsChain(t, first, D, [link EXCEPT ![s[Len(s)]] = a], null)
  BY <1>3, <1>4, <1>5, AppendedIsChain
<1>8. IsChain(t, first, D, new, null)
  BY <1>2, <1>6, <1>7
<1> HIDE DEF t
<1>9. Chain(first, new, null) = t
  BY <1>8, ChainUnique
<1>10. Whole(first, D, new, null)
  BY <1>8, <1>9 DEF Whole
<1>11. ArePlaces(g, E, t, first, D, new, null)
  BY <1>9, <1>10, PlacesOfChain DEF E, g
<1>12. /\ Len(t) = Len(s) + 1 /\ t[Len(s) + 1] = a
       /\ \A k \in 1 .. Len(s) : t[k] = s[k]
  BY <1>1, AppendProperties DEF ArePlaces, t
<1>13. /\ Len(s) + 1 \in 1 .. Len(t)
       /\ \A k \in 1 .. Len(s) : k \in 1 .. Len(t)
       /\ \A k \in 1 .. Len(t) : k = Len(s) + 1 \/ k \in 1 .. Len(s)
  BY <1>1, <1>12 DEF ArePlaces
<1>14. a \in E /\ g[a] = Len(s) + 1
  BY <1>11, <1>12, <1>13 DEF ArePlaces
<1>15. ASSUME NEW b \in C PROVE b \in E /\ g[b] = f[b]
  <2>1. f[b] \in 1 .. Len(s) /\ s[f[b]] = b
    BY <1>1 DEF ArePlaces
  <2>2. QED
    BY <1>11, <1>12, <1>13, <2>1 DEF ArePlaces
<1>16. ASSUME NEW b \in E PROVE b = a \/ b \in C
  <2>1. g[b] \in 1 .. Len(t) /\ t[g[b]] = b
    BY <1>11 DEF ArePlaces
  <2>2. QED
    BY <1>1, <1>12, <1>13, <2>1 DEF ArePlaces
<1>17. E = C \union {a}
  BY <1>14, <1>15, <1>16
<1>18. QED
  BY <1>9, <1>10, <1>12, <1>14, <1>15, <1>17 DEF s, t, f, g, C, E

-----------------------------------------------------------------------------
\* No node comes twice, so a list is as long as it has nodes.
LEMMA LengthOfChain ==
  ASSUME NEW D, IsFiniteSet(D), NEW null, NEW link, NEW first, Whole(first, D, link, null)
  PROVE  /\ Len(Chain(first, link, null)) = Cardinality(ChainSet(first, link, null))
         /\ Len(Chain(first, link, null)) \in Nat
<1> DEFINE s == Chain(first, link, null)
           C == ChainSet(first, link, null)
<1>1. /\ s \in Seq(D)
      /\ \A k, l \in 1 .. Len(s) : s[k] = s[l] => k = l
  BY DEF Whole, IsChain
<1>2. C = {s[k] : k \in 1 .. Len(s)} /\ C \subseteq D
  BY ChainSetElements DEF Whole
<1>3. Len(s) \in Nat /\ DOMAIN s = 1 .. Len(s) /\ s = [k \in 1 .. Len(s) |-> s[k]]
  BY <1>1, LenProperties
<1> HIDE DEF s, C
<1>4. s \in Bijection(1 .. Len(s), C)
  BY <1>1, <1>2, <1>3 DEF Bijection, Injection, Surjection, IsInjective
<1>5. IsFiniteSet(1 .. Len(s)) /\ Cardinality(1 .. Len(s)) = Len(s)
  BY <1>3, FS_Interval
<1>6. ExistsBijection(1 .. Len(s), C)
  BY <1>4 DEF ExistsBijection
<1>7. Cardinality(C) = Len(s)
  BY <1>5, <1>6, FS_Bijection
<1>8. QED
  BY <1>3, <1>7 DEF s, C

\* The chain s without its place i.
WithoutPlace(s, i) == [k \in 1 .. Len(s) - 1 |-> IF k < i THEN s[k] ELSE s[k + 1]]

\* A node is unlinked wherever it stands: its predecessor, or the head, is linked
\* to its successor.
LEMMA UnlinkedIsChain ==
  ASSUME NEW D, NEW null, null \notin D, NEW link \in Links(D, null), NEW first,
         NEW s, IsChain(s, first, D, link, null), NEW i \in 1 .. Len(s),
         NEW new,
         \A k \in 1 .. Len(s) :
            k # i => new[s[k]] = IF link[s[k]] = s[i] THEN link[s[i]] ELSE link[s[k]]
  PROVE  IsChain(WithoutPlace(s, i), IF first = s[i] THEN link[s[i]] ELSE first,
                 D, new, null)
<1> DEFINE n == Len(s)
           t == WithoutPlace(s, i)
           f == IF first = s[i] THEN link[s[i]] ELSE first
<1>1. /\ s \in Seq(D) /\ n \in Nat /\ n >= 1
      /\ \A k \in 1 .. n : s[k] \in D
      /\ \A k, l \in 1 .. n : s[k] = s[l] => k = l
      /\ \A k \in 1 .. n : link[s[k]] = IF k = n THEN null ELSE s[k + 1]
      /\ s # <<>> /\ first = s[1]
  <2>1. s \in Seq(D) /\ n \in Nat /\ n >= 1
    BY DEF IsChain
  <2>2. s # <<>>
    BY <2>1, EmptySeq
  <2>3. QED
    BY <2>1, <2>2, ElementOfSeq DEF IsChain
<1>2. /\ t \in [1 .. n - 1 -> D]
      /\ \A k \in 1 .. n - 1 : t[k] = IF k < i THEN s[k] ELSE s[k + 1]
  BY <1>1 DEF WithoutPlace
<1>3. t \in Seq(D) /\ Len(t) = n - 1
  <2>1. n - 1 \in Nat
    BY <1>1
  <2>2. QED
    BY <1>2, <2>1
<1>4. \A k \in 1 .. n : k # i => new[s[k]] = IF link[s[k]] = s[i] THEN link[s[i]] ELSE link[s[k]]
  OBVIOUS
<1> HIDE DEF n, t
<1>5. f = IF t = <<>> THEN null ELSE t[1]
  <2>1. CASE n = 1
    <3>1. t = <<>> /\ i = 1
      BY <1>1, <1>3, <2>1, EmptySeq DEF n
    <3>2. QED
      BY <1>1, <2>1, <3>1
  <2>2. CASE n # 1
    <3>1. t # <<>>
      BY <1>1, <1>3, <2>2, EmptySeq
    <3>2. CASE i = 1
      BY <1>1, <1>2, <2>2, <3>1, <3>2
    <3>3. CASE i # 1
      <4>1. i \in 1 .. n /\ 1 \in 1 .. n /\ 1 < i /\ 1 \in 1 .. n - 1
        BY <1>1, <2>2, <3>3 DEF n
      <4>2. s[1] # s[i]
        BY <1>1, <4>1, <3>3
      <4>3. QED
        BY <1>1, <1>2, <3>1, <4>1, <4>2
    <3>4. QED
      BY <3>2, <3>3
  <2>3. QED
    BY <2>1, <2>2
<1>6. ASSUME NEW k \in 1 .. n - 1
      PROVE  new[t[k]] = IF k = n - 1 THEN null ELSE t[k + 1]
  <2>0. i \in 1 .. n
    BY DEF n
  <2>1. CASE k < i - 1
    <3>1. t[k] = s[k] /\ k # i /\ k # n /\ k + 1 # i /\ k # n - 1 /\ k \in 1 .. n /\ k + 1 \in 1 .. n
      BY <1>1, <1>2, <2>0, <2>1
    <3>2. link[s[k]] = s[k + 1] /\ s[k + 1] # s[i] /\ t[k + 1] = s[k + 1]
      BY <1>1, <1>2, <2>0, <2>1, <3>1
    <3>3. QED
      BY <1>4, <3>1, <3>2
  <2>2. CASE k = i - 1
    <3>1. t[k] = s[k] /\ k # i /\ k # n /\ k \in 1 .. n
      BY <1>1, <1>2, <2>0, <2>2
    <3>2. link[s[k]] = s[i]
      BY <1>1, <2>2, <2>0, <3>1
    <3>3. new[t[k]] = link[s[i]]
      BY <1>4, <3>1, <3>2
    <3>4. link[s[i]] = IF i = n THEN null ELSE s[i + 1]
      BY <1>1, <2>0
    <3>5. k = n - 1 <=> i = n
      BY <1>1, <2>0, <2>2
    <3>6. i # n => t[k + 1] = s[i + 1]
      BY <1>1, <1>2, <2>0, <2>2
    <3>7. QED
      BY <3>3, <3>4, <3>5, <3>6
  <2>3. CASE k > i - 1
    <3>1. t[k] = s[k + 1] /\ k + 1 # i /\ k + 1 \in 1 .. n
      BY <1>1, <1>2, <2>0, <2>3
    <3>2. CASE k = n - 1
      <4>1. link[s[k + 1]] = null /\ null # s[i]
        BY <1>1, <2>0, <3>1, <3>2
      <4>2. QED
        BY <1>4, <3>1, <3>2, <4>1
    <3>3. CASE k # n - 1
      <4>1. k + 2 \in 1 .. n /\ k + 2 # i /\ k + 1 # n /\ k + 1 \in 1 .. n - 1
        BY <1>1, <2>0, <2>3, <3>3
      <4>2. link[s[k + 1]] = s[k + 2] /\ s[k + 2] # s[i] /\ t[k + 1] = s[k + 2]
        BY <1>1, <1>2, <2>0, <2>3, <3>1, <4>1
      <4>3. QED
        BY <1>4, <3>1, <3>3, <4>2
    <3>4. QED
      BY <3>2, <3>3
  <2>4. QED
    BY <1>1, <2>0, <2>1, <2>2, <2>3
<1>7. ASSUME NEW k \in 1 .. n - 1, NEW l \in 1 .. n - 1, t[k] = t[l]
      PROVE  k = l
  <2> DEFINE p(j) == IF j < i THEN j ELSE j + 1
  <2>1. p(k) \in 1 .. n /\ p(l) \in 1 .. n /\ t[k] = s[p(k)] /\ t[l] = s[p(l)]
    BY <1>1, <1>2
  <2>2. p(k) = p(l)
    BY <1>1, <1>7, <2>1
  <2>3. QED
    BY <1>1, <2>2
<1> HIDE DEF f
<1>8. \A k, l \in 1 .. Len(t) : t[k] = t[l] => k = l
  BY <1>3, <1>7
<1>9. \A k \in 1 .. Len(t) : new[t[k]] = IF k = Len(t) THEN null ELSE t[k + 1]
  BY <1>3, <1>6
<1>10. IsChain(t, f, D, new, null)
  BY <1>3, <1>5, <1>8, <1>9 DEF IsChain
<1>11. QED
  BY <1>10 DEF t, f

\* So the list goes on without that node.
LEMMA UnlinkFromChain ==
  ASSUME NEW D, IsFiniteSet(D), NEW null, null \notin D, NEW link \in Links(D, null),
         NEW first, Whole(first, D, link, null), NEW b \in ChainSet(first, link, null),
         NEW new \in Links(D, null),
         \A a \in ChainSet(first, link, null) \ {b} :
            new[a] = IF link[a] = b THEN link[b] ELSE link[a]
  PROVE  LET rest == IF first = b THEN link[b] ELSE first
         IN  /\ Whole(rest, D, new, null)
             /\ ChainSet(rest, new, null) = ChainSet(first, link, null) \ {b}
<1> DEFINE s == Chain(first, link, null)
           C == ChainSet(first, link, null)
           rest == IF first = b THEN link[b] ELSE first
<1>1. IsChain(s, first, D, link, null) /\ C = {s[k] : k \in 1 .. Len(s)}
  BY ChainSetElements DEF Whole
<1>2. /\ Len(s) \in Nat
      /\ \A k, l \in 1 .. Len(s) : s[k] = s[l] => k = l
  BY <1>1 DEF IsChain
<1> HIDE DEF s, C
<1>3. PICK i \in 1 .. Len(s) : s[i] = b
  BY <1>1 DEF C
<1>4. \A k \in 1 .. Len(s) :
         k # i => new[s[k]] = IF link[s[k]] = s[i] THEN link[s[i]] ELSE link[s[k]]
  BY <1>1, <1>2, <1>3 DEF C
<1> DEFINE t == WithoutPlace(s, i)
<1>5. IsChain(t, rest, D, new, null)
  BY <1>1, <1>3, <1>4, UnlinkedIsChain
<1>6. Chain(rest, new, null) = t
  BY <1>5, ChainUnique
<1>7. ChainSet(rest, new, null) = {t[k] : k \in 1 .. Len(t)}
  BY <1>5, <1>6, ChainSetElements
<1>8. Len(t) = Len(s) - 1 /\ \A k \in 1 .. Len(s) - 1 : t[k] = IF k < i THEN s[k] ELSE s[k + 1]
  <2>1. t = [k \in 1 .. Len(s) - 1 |-> IF k < i THEN s[k] ELSE s[k + 1]]
    BY DEF WithoutPlace
  <2>2. Len(s) - 1 \in Nat
    BY <1>2, <1>3
  <2>3. t \in Seq(D) /\ DOMAIN t = 1 .. Len(s) - 1
    BY <1>5, <2>1 DEF IsChain
  <2>4. QED
    BY <2>1, <2>2, <2>3
<1> HIDE DEF t
<1>9. {t[k] : k \in 1 .. Len(t)} = {s[k] : k \in 1 .. Len(s)} \ {s[i]}
  <2>1. ASSUME NEW k \in 1 .. Len(t) PROVE t[k] \in {s[l] : l \in 1 .. Len(s)} \ {s[i]}
    BY <1>2, <1>3, <1>8
  <2>2. ASSUME NEW l \in 1 .. Len(s), l # i PROVE s[l] \in {t[k] : k \in 1 .. Len(t)}
    <3>1. CASE l < i
      BY <1>2, <1>3, <1>8, <3>1
    <3>2. CASE l > i
      <4>1. l - 1 \in 1 .. Len(t) /\ t[l - 1] = s[l]
        BY <1>2, <1>3, <1>8, <3>2
      <4>2. QED
        BY <4>1
    <3>3. QED
      BY <2>2, <3>1, <3>2
  <2>3. QED
    BY <2>1, <2>2
<1>10. Whole(rest, D, new, null)
  BY <1>5, <1>6 DEF Whole
<1>11. QED
  BY <1>1, <1>3, <1>7, <1>9, <1>10 DEF C

-----------------------------------------------------------------------------
(* Remainders, for a modulus that is not a literal                         *)

\* The remainder and the quotient.
LEMMA DivMod ==
    ASSUME NEW m \in Nat \ {0}, NEW a \in Int
    PROVE  /\ a \div m \in Int
           /\ a % m \in 0 .. m - 1
           /\ a = m * (a \div m) + (a % m)
BY SMT

\* A multiple that is positive is at least m.
LEMMA LeastMultiple ==
    ASSUME NEW m \in Nat \ {0}, NEW k \in Int, k >= 1
    PROVE  m * k >= m
BY SMT

\* They are the only ones.
LEMMA DivModUnique ==
    ASSUME NEW m \in Nat \ {0}, NEW q \in Int, NEW p \in Int,
           NEW r \in 0 .. m - 1, NEW s \in 0 .. m - 1,
           m * q + r = m * p + s
    PROVE  r = s
<1> DEFINE k == q - p
<1>1. k \in Int /\ m * k = s - r
  BY SMT
<1>2. ~ (k >= 1)
  BY <1>1, LeastMultiple, SMT
<1>3. ~ (-k >= 1)
  <2>1. m * (-k) = r - s
    BY <1>1, SMT
  <2>. QED  BY <2>1, <1>1, LeastMultiple, SMT
<1>4. k = 0
  BY <1>1, <1>2, <1>3, SMT
<1>. QED  BY <1>1, <1>4, SMT

\* A small number is its own remainder.
LEMMA SmallRemainder ==
    ASSUME NEW m \in Nat \ {0}, NEW t \in 0 .. m - 1
    PROVE  t % m = t
<1> DEFINE q == t \div m   r == t % m
<1>1. q \in Int /\ r \in 0 .. m - 1 /\ t = m * q + r
  BY DivMod
<1>2. m * q + r = m * 0 + t
  BY <1>1, SMT
<1>. HIDE DEF q, r
<1>3. r = t
  BY <1>1, <1>2, DivModUnique
<1>. QED  BY <1>3 DEF r

\* A multiple has no remainder, and its quotient is the factor.
LEMMA ExactQuotient ==
    ASSUME NEW m \in Nat \ {0}, NEW q \in Int
    PROVE  (q * m) % m = 0 /\ (q * m) \div m = q
<1> DEFINE a == q * m   d == a \div m   r == a % m
<1>1. a \in Int /\ a = m * q
  BY SMT
<1> HIDE DEF a
<1>2. d \in Int /\ r \in 0 .. m - 1 /\ a = m * d + r
  BY <1>1, DivMod
<1> HIDE DEF d, r
<1>3. r = 0
  <2>1. m * d + r = m * q + 0 /\ 0 \in 0 .. m - 1
    BY <1>1, <1>2, SMT
  <2>. QED  BY <1>2, <2>1, DivModUnique
<1>4. d = q
  <2>1. m * d = m * q
    BY <1>1, <1>2, <1>3, SMT
  <2> DEFINE k == d - q   l == q - d
  <2>4. k \in Int /\ l \in Int /\ m * k = 0 /\ m * l = 0
    BY <1>2, <2>1, SMT
  <2>2. ~ (k >= 1)
    <3> HIDE DEF k
    <3>1. QED  BY <2>4, LeastMultiple, SMT
  <2>3. ~ (l >= 1)
    <3> HIDE DEF l
    <3>1. QED  BY <2>4, LeastMultiple, SMT
  <2>. QED  BY <1>2, <2>2, <2>3, SMT
<1>. QED  BY <1>3, <1>4 DEF d, r, a

\* A sum of multiples is one.
LEMMA SumOfMultiples ==
    ASSUME NEW m \in Nat \ {0}, NEW a \in Int, NEW b \in Int, a % m = 0, b % m = 0
    PROVE  (a + b) % m = 0
<1> DEFINE p == a \div m   q == b \div m
<1>1. p \in Int /\ a = m * p + (a % m)
  BY DivMod
<1>2. q \in Int /\ b = m * q + (b % m)
  BY DivMod
<1> HIDE DEF p, q
<1>3. a + b = (p + q) * m /\ p + q \in Int
  BY <1>1, <1>2, SMT
<1>. QED  BY <1>3, ExactQuotient
=============================================================================
