-------------------------- MODULE DictionaryProofs --------------------------
(***************************************************************************)
(* The hash tables.  What a table holds is a set of pairs <<key, value>>;  *)
(* the invariant of every table puts each entry where a lookup of its key  *)
(* comes, and each call changes the set as a map would change.             *)
(***************************************************************************)
EXTENDS MCDictionaries, ChainTheorems, FiniteSetTheorems, TLAPS

\* The value of k in the set of pairs C, as a lookup would answer.
ValueIn(C, k) ==
    IF \E v \in Value : <<k, v>> \in C THEN CHOOSE v \in Value : <<k, v>> \in C ELSE Missing

\* No key has two values.
IsMap(C) ==
    /\ C \subseteq Key \X Value
    /\ \A k \in Key : \A v, w \in Value : <<k, v>> \in C /\ <<k, w>> \in C => v = w

\* C once k is gone, and once k has the value v.
Without(C, k) == C \ ({k} \X Value)
With(C, k, v) == Without(C, k) \union {<<k, v>>}

\* What a lookup finds for every key.
MapOf(C) == [k \in Key |-> ValueIn(C, k)]

\* A pair that is there is found.
LEMMA ValueOfPair ==
  ASSUME NEW C, IsMap(C), NEW k \in Key, NEW v \in Value, <<k, v>> \in C
  PROVE  ValueIn(C, k) = v
<1>1. (CHOOSE w \in Value : <<k, w>> \in C) \in {w \in Value : <<k, w>> \in C}
  OBVIOUS
<1>2. QED
  BY <1>1 DEF ValueIn, IsMap

\* Storing a value changes what is found for its key, and for no other.
LEMMA WithIsPut ==
  ASSUME NEW C, IsMap(C), NEW k \in Key, NEW v \in Value
  PROVE  /\ IsMap(With(C, k, v))
         /\ MapOf(With(C, k, v)) = [MapOf(C) EXCEPT ![k] = v]
<1>1. IsMap(With(C, k, v))
  BY DEF IsMap, With, Without
<1>2. ValueIn(With(C, k, v), k) = v
  <2>1. <<k, v>> \in With(C, k, v)
    BY DEF With
  <2>2. QED
    BY <1>1, <2>1, ValueOfPair
<1>3. ASSUME NEW l \in Key, l # k PROVE ValueIn(With(C, k, v), l) = ValueIn(C, l)
  <2>1. \A w \in Value : <<l, w>> \in With(C, k, v) <=> <<l, w>> \in C
    BY <1>3 DEF With, Without
  <2>2. QED
    BY <2>1 DEF ValueIn
<1>4. QED
  BY <1>1, <1>2, <1>3 DEF MapOf

\* Removing a key makes it absent, and no other.
LEMMA WithoutIsRemove ==
  ASSUME NEW C, IsMap(C), NEW k \in Key
  PROVE  /\ IsMap(Without(C, k))
         /\ MapOf(Without(C, k)) = [MapOf(C) EXCEPT ![k] = Missing]
<1>1. IsMap(Without(C, k))
  BY DEF IsMap, Without
<1>2. ValueIn(Without(C, k), k) = Missing
  BY DEF ValueIn, Without
<1>3. ASSUME NEW l \in Key, l # k PROVE ValueIn(Without(C, k), l) = ValueIn(C, l)
  <2>1. \A w \in Value : <<l, w>> \in Without(C, k) <=> <<l, w>> \in C
    BY <1>3 DEF Without
  <2>2. QED
    BY <2>1 DEF ValueIn
<1>4. QED
  BY <1>1, <1>2, <1>3 DEF MapOf

\* What is found is a value, or the key is not there.
LEMMA ValueInIsValue ==
  ASSUME NEW C, NEW k \in Key
  PROVE  /\ (\E v \in Value : <<k, v>> \in C) => ValueIn(C, k) \in Value
         /\ ~ (\E v \in Value : <<k, v>> \in C) => ValueIn(C, k) = Missing
<1>1. (\E v \in Value : <<k, v>> \in C)
          => (CHOOSE w \in Value : <<k, w>> \in C) \in {w \in Value : <<k, w>> \in C}
  OBVIOUS
<1>2. QED
  BY <1>1 DEF ValueIn

\* What a call does to the content C of a table, D being the content after it.
ContentStep(C, D) ==
    \E k \in Key :
        \/ ret' = <<k, "refused">> /\ D = C
        \/ ret' = <<k, "removed">> /\ ValueIn(C, k) # Missing /\ D = Without(C, k)
        \/ ret' = <<k, "absent">> /\ ValueIn(C, k) = Missing /\ D = C
        \/ \E v \in Value : ret' = <<k, "stored">> /\ D = With(C, k, v)

\* The same, or a put that fails once it has stored its key and lost one.
LossyStep(C, D) ==
    \/ ContentStep(C, D)
    \/ \E k, lost \in Key, v \in Value :
          ret' = <<k, "refused">> /\ D = Without(With(C, k, v), lost)

\* The table t once e is in its place x.
Placed(t, x, e) == [t EXCEPT ![x] = e]

\* Storing a new key makes the content larger by one, removing one smaller.
LEMMA ContentSize ==
  ASSUME NEW C, IsMap(C), IsFiniteSet(C), NEW k \in Key
  PROVE  /\ \A v, w \in Value : <<k, w>> \in C => Cardinality(With(C, k, v)) = Cardinality(C)
         /\ \A v \in Value : ~ (\E w \in Value : <<k, w>> \in C) =>
               Cardinality(With(C, k, v)) = Cardinality(C) + 1
         /\ \A w \in Value : <<k, w>> \in C => Cardinality(Without(C, k)) = Cardinality(C) - 1
<1>1. Cardinality(C) \in Nat
  BY FS_CardinalityType
<1>2. ASSUME NEW w \in Value, <<k, w>> \in C
      PROVE  /\ Cardinality(Without(C, k)) = Cardinality(C) - 1
             /\ \A v \in Value : Cardinality(With(C, k, v)) = Cardinality(C)
  <2>1. Without(C, k) = C \ {<<k, w>>}
    BY <1>2 DEF Without, IsMap
  <2>2. IsFiniteSet(Without(C, k)) /\ Cardinality(Without(C, k)) = Cardinality(C) - 1
    BY <1>2, <2>1, FS_RemoveElement
  <2>3. ASSUME NEW v \in Value PROVE Cardinality(With(C, k, v)) = Cardinality(C)
    <3>1. <<k, v>> \notin Without(C, k)
      BY DEF Without
    <3>2. Cardinality(With(C, k, v)) = Cardinality(Without(C, k)) + 1
      BY <2>2, <3>1, FS_AddElement DEF With
    <3>3. QED
      BY <1>1, <2>2, <3>2
  <2>4. QED
    BY <2>2, <2>3
<1>3. ASSUME ~ \E w \in Value : <<k, w>> \in C, NEW v \in Value
      PROVE  Cardinality(With(C, k, v)) = Cardinality(C) + 1
  <2>1. With(C, k, v) = C \union {<<k, v>>} /\ <<k, v>> \notin C
    BY <1>3 DEF With, Without
  <2>2. QED
    BY <2>1, FS_AddElement
<1>4. QED
  BY <1>2, <1>3

-----------------------------------------------------------------------------
(* Open addressing.  A key is found on its probe path before any slot that *)
(* was never used, so every slot of a key must lie on the path before one. *)

OpenHeld == {x \in Open!Tries : oa_slots[x] \notin {NULL, TOMBSTONE}}

\* What the table holds.
OpenContent == {oa_slots[x] : x \in OpenHeld}

\* No slot on the path of a key to its entry in slot x was never used.
OpenPath(x) ==
    \E i \in Open!Tries :
        /\ Open!probe(oa_slots[x][1], i) = x
        /\ \A j \in 0 .. i - 1 : oa_slots[Open!probe(oa_slots[x][1], j)] # NULL

OpenPaths == \A x \in OpenHeld : OpenPath(x)

OpenInv == Open!TypeOK /\ Open!TableExact /\ OpenPaths

\* No key is in two slots: what an update behind a tombstone breaks.
OpenKeysOnce == \A x, y \in OpenHeld : oa_slots[x][1] = oa_slots[y][1] => x = y

\* FiniteSets is instantiated with the module of each table.
LEMMA OpenCardinality ==
  ASSUME NEW S
  PROVE  Open!Cardinality(S) = Cardinality(S)
BY Zenon DEF Open!Cardinality, Open!IsFiniteSet, Cardinality, IsFiniteSet

\* Every probe is of a slot of the table.
LEMMA ProbeInTable ==
  ASSUME Open!TypeOK, NEW k \in Key, NEW i \in Open!Tries
  PROVE  Open!probe(k, i) \in Open!Tries
<1> DEFINE step == CASE method = "LINEAR" -> i [] method = "QUADRATIC" -> i * i
                     [] method = "DOUBLE" -> i * h2[k]
<1>1. OA_CAPACITY \in Nat \ {0}
  BY TablesAssumption
<1>2. i \in Nat /\ h1[k] \in Nat /\ h2[k] \in Nat
  <2>1. i \in Nat
    BY <1>1 DEF Open!Tries
  <2>2. h1[k] \in Hash1 /\ h2[k] \in Hash2
    BY DEF Open!TypeOK, Open!HashTypeOK
  <2>3. QED
    BY <2>1, <2>2, HashAssumption
<1>3. method \in {"LINEAR", "QUADRATIC", "DOUBLE"}
  BY TablesAssumption DEF Open!TypeOK
<1>4. i * i \in Nat /\ i * h2[k] \in Nat
  BY <1>2
<1>5. step \in Nat
  BY <1>2, <1>3, <1>4
<1> HIDE DEF step
<1>6. h1[k] + step \in Nat
  BY <1>2, <1>5
<1>7. (h1[k] + step) % OA_CAPACITY \in 0 .. OA_CAPACITY - 1
  BY <1>1, <1>6
<1>8. QED
  BY <1>7 DEF Open!probe, Open!Tries, step

\* The least try in a set of tries exists.
LEMMA LeastTry ==
  ASSUME NEW S \in SUBSET Nat, S # {}
  PROVE  \E i \in S : \A j \in 0 .. i - 1 : j \notin S
<1>1. PICK i \in S : \A j \in S : ~ (<<j, i>> \in OpToRel(<, Nat))
  BY NatLessThanWellFounded, WFMin
<1>2. \A j \in S : ~ (j < i)
  BY <1>1 DEF OpToRel
<1>3. QED
  BY <1>2

\* First is the least try that passes the test of a lookup.
LEMMA FindsOwn ==
  ASSUME Open!TypeOK, NEW k \in Key
  PROVE  \/ /\ Open!Find(k) \in Open!Tries
            /\ Open!Holds(k, Open!Find(k))
         \/ /\ Open!Find(k) = OA_CAPACITY
            /\ \/ \A i \in Open!Tries : ~ Open!Holds(k, i)
               \/ \E i \in Open!Tries : /\ Open!Slot(k, i) = NULL
                                         /\ \A j \in 0 .. i - 1 : ~ Open!Holds(k, j)
<1> DEFINE Test(i) == Open!Slot(k, i) = NULL \/ Open!Holds(k, i)
           S == {i \in Open!Tries : Test(i)}
           f == CHOOSE i \in Open!Tries : Test(i) /\ \A j \in 0 .. i - 1 : ~ Test(j)
           first == IF \E i \in Open!Tries : Test(i) THEN f ELSE OA_CAPACITY
<1>1. Open!First(LAMBDA j : Open!Slot(k, j) = NULL \/ Open!Holds(k, j)) = first
  BY DEF Open!First
<1>2. Open!Find(k) = IF first < OA_CAPACITY /\ Open!Holds(k, first) THEN first ELSE OA_CAPACITY
  BY <1>1 DEF Open!Find
<1>3. OA_CAPACITY \in Nat \ {0}
  BY TablesAssumption
<1>4. ASSUME S # {}
      PROVE  f \in Open!Tries /\ Test(f) /\ \A j \in 0 .. f - 1 : ~ Test(j)
  <2>1. S \in SUBSET Nat
    BY <1>3 DEF Open!Tries
  <2> HIDE DEF Test
  <2>2. PICK i \in S : \A j \in 0 .. i - 1 : j \notin S
    BY <1>4, <2>1, LeastTry
  <2>3. \A j \in 0 .. i - 1 : j \in Open!Tries
    BY <1>3, <2>1, <2>2 DEF Open!Tries
  <2>4. i \in Open!Tries /\ Test(i) /\ \A j \in 0 .. i - 1 : ~ Test(j)
    BY <2>2, <2>3
  <2>5. QED
    BY <2>4
<1>5. CASE S = {}
  BY <1>2, <1>3, <1>5
<1>6. CASE S # {}
  <2>1. f \in Open!Tries /\ Test(f) /\ (\A j \in 0 .. f - 1 : ~ Test(j)) /\ first = f
    BY <1>4, <1>6
  <2> HIDE DEF f, first
  <2>2. first < OA_CAPACITY
    BY <1>3, <2>1 DEF Open!Tries
  <2>3. QED
    BY <1>2, <2>1, <2>2
<1>7. QED
  BY <1>5, <1>6

\* Place is the least try that passes the test of oa_put.
LEMMA PlaceIsFirst ==
  ASSUME Open!TypeOK, NEW k \in Key, Open!Place(k) < OA_CAPACITY
  PROVE  /\ Open!Place(k) \in Open!Tries
         /\ Open!Slot(k, Open!Place(k)) \in {NULL, TOMBSTONE} \/ Open!Holds(k, Open!Place(k))
         /\ \A j \in 0 .. Open!Place(k) - 1 : Open!Slot(k, j) # NULL
<1> DEFINE Test(i) == Open!Slot(k, i) \in {NULL, TOMBSTONE} \/ Open!Holds(k, i)
           S == {i \in Open!Tries : Test(i)}
           f == CHOOSE i \in Open!Tries : Test(i) /\ \A j \in 0 .. i - 1 : ~ Test(j)
           first == IF \E i \in Open!Tries : Test(i) THEN f ELSE OA_CAPACITY
<1>1. Open!First(LAMBDA j : Open!Slot(k, j) \in {NULL, TOMBSTONE} \/ Open!Holds(k, j)) = first
  BY DEF Open!First
<1>2. Open!Place(k) = first
  BY <1>1 DEF Open!Place
<1>3. OA_CAPACITY \in Nat \ {0}
  BY TablesAssumption
<1>4. S # {}
  BY <1>2, <1>3
<1>5. f \in Open!Tries /\ Test(f) /\ \A j \in 0 .. f - 1 : ~ Test(j)
  <2>1. S \in SUBSET Nat
    BY <1>3 DEF Open!Tries
  <2> HIDE DEF Test
  <2>2. PICK i \in S : \A j \in 0 .. i - 1 : j \notin S
    BY <1>4, <2>1, LeastTry
  <2>3. \A j \in 0 .. i - 1 : j \in Open!Tries
    BY <1>3, <2>1, <2>2 DEF Open!Tries
  <2>4. i \in Open!Tries /\ Test(i) /\ \A j \in 0 .. i - 1 : ~ Test(j)
    BY <2>2, <2>3
  <2>5. QED
    BY <2>4
<1>6. first = f
  BY <1>4
<1> HIDE DEF f, first
<1>7. QED
  BY <1>2, <1>5, <1>6

\* A slot in use holds a key and a value.
LEMMA HeldIsPair ==
  ASSUME Open!TypeOK
  PROVE  /\ \A x \in OpenHeld : /\ x \in Open!Tries
                                /\ oa_slots[x] \in Key \X Value
                                /\ oa_slots[x] = <<oa_slots[x][1], oa_slots[x][2]>>
         /\ \A x \in Open!Tries : oa_slots[x] \in Key \X Value => x \in OpenHeld
<1>1. oa_slots \in [Open!Tries -> (Key \X Value) \union {NULL, TOMBSTONE}]
  BY DEF Open!TypeOK
<1>2. \A e \in {NULL, TOMBSTONE} : e \notin Key \X Value
  BY TablesAssumption
<1>3. QED
  BY <1>1, <1>2 DEF OpenHeld

\* What oa_get finds while no key is in two slots.
OpenAnswers ==
    /\ IsMap(OpenContent)
    /\ \A k \in Key : Open!oa_get(k) = ValueIn(OpenContent, k)

\* Probing finds the content: no path of a key ends before its entry.
LEMMA OpenFindsContent ==
  OpenInv /\ OpenKeysOnce => OpenAnswers
<1> SUFFICES ASSUME OpenInv, OpenKeysOnce PROVE OpenAnswers
  OBVIOUS
<1>1. Open!TypeOK
  BY DEF OpenInv
<1>2. IsMap(OpenContent)
  BY <1>1, HeldIsPair DEF IsMap, OpenContent, OpenKeysOnce
<1>3. OA_CAPACITY \in Nat \ {0} /\ OA_CAPACITY \notin Open!Tries
  BY TablesAssumption DEF Open!Tries
<1>4. ASSUME NEW k \in Key PROVE Open!oa_get(k) = ValueIn(OpenContent, k)
  <2>1. CASE Open!Find(k) \in Open!Tries /\ Open!Holds(k, Open!Find(k))
    <3> DEFINE x == Open!probe(k, Open!Find(k))
    <3>1. x \in Open!Tries /\ oa_slots[x] \notin {NULL, TOMBSTONE} /\ oa_slots[x][1] = k
      BY <1>1, <2>1, ProbeInTable DEF Open!Holds, Open!Slot
    <3>2. x \in OpenHeld /\ oa_slots[x] = <<k, oa_slots[x][2]>> /\ oa_slots[x][2] \in Value
      BY <1>1, <3>1, HeldIsPair DEF OpenHeld
    <3>3. ValueIn(OpenContent, k) = oa_slots[x][2]
      BY <1>2, <3>2, ValueOfPair DEF OpenContent
    <3>4. Open!oa_get(k) = oa_slots[x][2]
      BY <1>3, <2>1 DEF Open!oa_get, Open!Slot
    <3>5. QED
      BY <3>3, <3>4
  <2>2. CASE Open!Find(k) = OA_CAPACITY
    <3>1. Open!oa_get(k) = Missing
      BY <2>2 DEF Open!oa_get
    <3>2. ASSUME NEW v \in Value, <<k, v>> \in OpenContent PROVE FALSE
      <4>1. PICK x \in OpenHeld : oa_slots[x] = <<k, v>>
        BY <3>2 DEF OpenContent
      <4>2. PICK i \in Open!Tries :
                /\ Open!probe(k, i) = x
                /\ \A j \in 0 .. i - 1 : oa_slots[Open!probe(k, j)] # NULL
        BY <4>1 DEF OpenInv, OpenPaths, OpenPath
      <4>3. Open!Holds(k, i)
        BY <4>1, <4>2 DEF Open!Holds, Open!Slot, OpenHeld
      <4>4. \A n \in Open!Tries : ~ (Open!Slot(k, n) = NULL /\ \A j \in 0 .. n - 1 : ~ Open!Holds(k, j))
        <5>1. SUFFICES ASSUME NEW n \in Open!Tries, Open!Slot(k, n) = NULL,
                              \A j \in 0 .. n - 1 : ~ Open!Holds(k, j)
                       PROVE  FALSE
          OBVIOUS
        <5>2. n \in Nat /\ i \in Nat
          BY <1>3 DEF Open!Tries
        <5>3. ~ (i \in 0 .. n - 1)
          BY <4>3, <5>1
        <5>4. ~ (n \in 0 .. i - 1)
          BY <4>2, <5>1 DEF Open!Slot
        <5>5. n = i
          BY <5>2, <5>3, <5>4
        <5>6. QED
          BY <4>3, <5>1, <5>5 DEF Open!Holds
      <4>5. QED
        BY <1>1, <1>3, <2>2, <4>3, <4>4, FindsOwn
    <3>3. QED
      BY <3>1, <3>2 DEF ValueIn
  <2>3. QED
    BY <1>1, <2>1, <2>2, FindsOwn
<1>5. QED
  BY <1>2, <1>4 DEF OpenAnswers

\* The first table is empty.
LEMMA OpenInit ==
  ASSUME Open!Init
  PROVE  OpenInv /\ OpenKeysOnce /\ OpenContent = {}
<1>1. OA_CAPACITY \in Nat \ {0}
  BY TablesAssumption
<1>2. OpenHeld = {}
  BY DEF Open!Init, OpenHeld
<1>3. {x \in Open!Tries : oa_slots[x] \notin {NULL, TOMBSTONE}} = {}
  BY <1>2 DEF OpenHeld
<1>4. Open!TypeOK
  BY <1>1 DEF Open!Init, Open!TypeOK, Open!HashInit, Open!HashTypeOK, Open!Tries
<1>5. Open!TableExact
  BY <1>3, OpenCardinality, FS_EmptySet DEF Open!TableExact, Open!Init
<1>6. QED
  BY <1>2, <1>4, <1>5 DEF OpenInv, OpenPaths, OpenKeysOnce, OpenContent

\* A slot that is not made empty leaves every other key on its path.
LEMMA OpenPathsStay ==
  ASSUME OpenInv, NEW x0 \in Open!Tries, NEW e \in (Key \X Value) \union {TOMBSTONE},
         oa_slots' = [oa_slots EXCEPT ![x0] = e], UNCHANGED <<method, h1, h2>>
  PROVE  /\ oa_slots' \in [Open!Tries -> (Key \X Value) \union {NULL, TOMBSTONE}]
         /\ \A k \in Key : \A i \in Open!Tries : Open!probe(k, i)' = Open!probe(k, i)
         /\ OpenHeld' = IF e = TOMBSTONE THEN OpenHeld \ {x0} ELSE OpenHeld \union {x0}
         /\ \A x \in Open!Tries : oa_slots'[x] = IF x = x0 THEN e ELSE oa_slots[x]
         /\ \A x \in OpenHeld' \ {x0} : OpenPath(x)'
<1>1. Open!TypeOK /\ OpenPaths
  BY DEF OpenInv
<1>2. oa_slots \in [Open!Tries -> (Key \X Value) \union {NULL, TOMBSTONE}]
  BY <1>1 DEF Open!TypeOK
<1>3. NULL # TOMBSTONE /\ NULL \notin Key \X Value /\ TOMBSTONE \notin Key \X Value
  BY TablesAssumption
<1>4. oa_slots' \in [Open!Tries -> (Key \X Value) \union {NULL, TOMBSTONE}]
  BY <1>2
<1>5. \A k \in Key : \A i \in Open!Tries : Open!probe(k, i)' = Open!probe(k, i)
  BY DEF Open!probe
<1>6. \A x \in Open!Tries : oa_slots'[x] = IF x = x0 THEN e ELSE oa_slots[x]
  BY <1>2
<1>7. OpenHeld' = IF e = TOMBSTONE THEN OpenHeld \ {x0} ELSE OpenHeld \union {x0}
  <2>1. OpenHeld' = {x \in Open!Tries : oa_slots'[x] \notin {NULL, TOMBSTONE}}
    BY DEF OpenHeld, Open!Tries
  <2>2. QED
    BY <1>3, <1>6, <2>1 DEF OpenHeld
<1>8. ASSUME NEW x \in OpenHeld' \ {x0}
      PROVE  OpenPath(x)'
  <2>1. x \in OpenHeld /\ x \in Open!Tries /\ oa_slots'[x] = oa_slots[x]
    BY <1>6, <1>7 DEF OpenHeld
  <2>2. PICK k \in Key : k = oa_slots[x][1]
    BY <1>1, <2>1, HeldIsPair
  <2>3. PICK i \in Open!Tries :
          /\ Open!probe(k, i) = x
          /\ \A j \in 0 .. i - 1 : oa_slots[Open!probe(k, j)] # NULL
    BY <1>1, <2>1, <2>2 DEF OpenPaths, OpenPath
  <2>4. ASSUME NEW j \in 0 .. i - 1
        PROVE  oa_slots'[Open!probe(k, j)'] # NULL
    <3>1. j \in Open!Tries
      BY TablesAssumption, <2>3 DEF Open!Tries
    <3>2. Open!probe(k, j) \in Open!Tries
      BY <1>1, <3>1, ProbeInTable
    <3>3. QED
      BY <1>3, <1>5, <1>6, <2>3, <3>1, <3>2
  <2>5. oa_slots'[x][1] = k /\ Open!probe(k, i)' = x
    BY <1>5, <2>1, <2>2, <2>3
  <2>6. QED
    BY <2>4, <2>5 DEF OpenPath, Open!Tries
<1>9. QED
  BY <1>4, <1>5, <1>6, <1>7, <1>8

\* The number of slots in use is finite.
LEMMA OpenHeldFinite == IsFiniteSet(OpenHeld)
<1>1. IsFiniteSet(Open!Tries)
  BY TablesAssumption, FS_Interval DEF Open!Tries
<1>2. QED
  BY <1>1, FS_Subset DEF OpenHeld

\* size counts the slots in use.
LEMMA OpenSize ==
  ASSUME OpenInv
  PROVE  oa_size = Cardinality(OpenHeld)
<1>1. Open!TableExact
  BY DEF OpenInv
<1>2. oa_size = Open!Cardinality(OpenHeld)
  BY <1>1 DEF Open!TableExact, OpenHeld
<1>3. QED
  BY <1>2, OpenCardinality

\* Storing k in a slot on its path that is free or its own.
LEMMA OpenStore ==
  ASSUME OpenInv, NEW k \in Key, NEW v \in Value, NEW i \in Open!Tries,
         \A j \in 0 .. i - 1 : Open!Slot(k, j) # NULL,
         Open!probe(k, i) \in OpenHeld => oa_slots[Open!probe(k, i)][1] = k,
         oa_slots' = [oa_slots EXCEPT ![Open!probe(k, i)] = <<k, v>>],
         UNCHANGED <<method, h1, h2>>
  PROVE  /\ oa_slots' \in [Open!Tries -> (Key \X Value) \union {NULL, TOMBSTONE}]
         /\ OpenHeld' = OpenHeld \union {Open!probe(k, i)}
         /\ OpenPaths'
         /\ OpenKeysOnce /\ (Open!probe(k, i) \in OpenHeld \/ ~ \E v1 \in Value : <<k, v1>> \in OpenContent)
               => /\ OpenKeysOnce'
                  /\ OpenContent' = With(OpenContent, k, v)
<1>1. PICK x0 \in Open!Tries : x0 = Open!probe(k, i)
  BY ProbeInTable DEF OpenInv
<1>2. PICK e \in (Key \X Value) \union {TOMBSTONE} : e = <<k, v>>
  OBVIOUS
<1>3. e # TOMBSTONE
  BY <1>2, TablesAssumption
<1>4. /\ oa_slots' \in [Open!Tries -> (Key \X Value) \union {NULL, TOMBSTONE}]
      /\ \A l \in Key : \A j \in Open!Tries : Open!probe(l, j)' = Open!probe(l, j)
      /\ OpenHeld' = OpenHeld \union {x0}
      /\ \A x \in Open!Tries : oa_slots'[x] = IF x = x0 THEN e ELSE oa_slots[x]
      /\ \A x \in OpenHeld' \ {x0} : OpenPath(x)'
  <2>1. oa_slots' = [oa_slots EXCEPT ![x0] = e]
    BY <1>1, <1>2
  <2>2. QED
    BY <1>3, <2>1, OpenPathsStay
<1>5. OpenPath(x0)'
  <2>1. oa_slots'[x0][1] = k
    BY <1>2, <1>4
  <2>2. ASSUME NEW j \in 0 .. i - 1 PROVE oa_slots'[Open!probe(k, j)'] # NULL
    <3>1. j \in Open!Tries
      BY TablesAssumption DEF Open!Tries
    <3>2. Open!probe(k, j) \in Open!Tries /\ oa_slots[Open!probe(k, j)] # NULL
      BY <3>1, ProbeInTable DEF OpenInv, Open!Slot
    <3>3. e # NULL
      BY <1>2, TablesAssumption
    <3>4. QED
      BY <1>4, <3>1, <3>2, <3>3
  <2>3. Open!probe(k, i)' = x0
    BY <1>1, <1>4
  <2>4. QED
    BY <2>1, <2>2, <2>3 DEF OpenPath, Open!Tries
<1>6. OpenPaths'
  <2>1. \A x \in OpenHeld' : OpenPath(x)'
    BY <1>4, <1>5
  <2>2. QED
    BY <2>1 DEF OpenPaths
<1>7. ASSUME OpenKeysOnce, x0 \in OpenHeld \/ ~ \E v1 \in Value : <<k, v1>> \in OpenContent
      PROVE  OpenKeysOnce' /\ OpenContent' = With(OpenContent, k, v)
  <2>1. /\ \A x \in OpenHeld : /\ x \in Open!Tries
                               /\ oa_slots[x] \in Key \X Value
                               /\ oa_slots[x] = <<oa_slots[x][1], oa_slots[x][2]>>
    BY HeldIsPair DEF OpenInv
  <2>2. \A x \in OpenHeld : oa_slots[x][1] = k => x = x0
    <3>1. CASE x0 \in OpenHeld
      BY <1>1, <1>7, <3>1 DEF OpenKeysOnce
    <3>2. CASE ~ \E v1 \in Value : <<k, v1>> \in OpenContent
      BY <2>1, <3>2 DEF OpenContent
    <3>3. QED
      BY <1>7, <3>1, <3>2
  <2>3. /\ oa_slots'[x0] = <<k, v>>
        /\ \A x \in OpenHeld \ {x0} : oa_slots'[x] = oa_slots[x]
    BY <1>2, <1>4, <2>1
  <2>4. \A x, y \in OpenHeld' : oa_slots'[x][1] = oa_slots'[y][1] => x = y
    <3>1. SUFFICES ASSUME NEW x \in OpenHeld \union {x0}, NEW y \in OpenHeld \union {x0},
                          oa_slots'[x][1] = oa_slots'[y][1]
                   PROVE  x = y
      BY <1>4
    <3>2. CASE x = x0 /\ y # x0
      BY <2>2, <2>3, <3>1, <3>2
    <3>3. CASE y = x0 /\ x # x0
      BY <2>2, <2>3, <3>1, <3>3
    <3>4. CASE x # x0 /\ y # x0
      BY <1>7, <2>3, <3>1, <3>4 DEF OpenKeysOnce
    <3>5. QED
      BY <3>2, <3>3, <3>4
  <2>5. OpenContent' = {oa_slots'[x] : x \in OpenHeld'}
    BY DEF OpenContent
  <2>6. OpenContent' = {oa_slots[x] : x \in OpenHeld \ {x0}} \union {<<k, v>>}
    BY <1>4, <2>3, <2>5
  <2>7. {oa_slots[x] : x \in OpenHeld \ {x0}} = Without(OpenContent, k)
    <3>1. \A x \in OpenHeld \ {x0} : oa_slots[x][1] # k
      BY <2>2
    <3>2. x0 \in OpenHeld => oa_slots[x0][1] = k
      BY <1>1
    <3>3. \A x \in OpenHeld : oa_slots[x] \in {k} \X Value <=> oa_slots[x][1] = k
      BY <2>1
    <3>4. QED
      BY <3>1, <3>2, <3>3 DEF Without, OpenContent
  <2>8. QED
    BY <2>4, <2>6, <2>7 DEF OpenKeysOnce, With
<1>8. QED
  BY <1>1, <1>4, <1>6, <1>7

\* A call that stores a new key.
LEMMA OpenPutNew ==
  ASSUME OpenInv, NEW k \in Key, NEW v \in Value, Open!PutNew(k, v)
  PROVE  /\ OpenInv'
         /\ OpenKeysOnce /\ ~ UpdateBehindTombstone
               => OpenKeysOnce' /\ OpenContent' = With(OpenContent, k, v)
<1>1. Open!TypeOK
  BY DEF OpenInv
<1>2. PICK i \in Open!Tries : i = Open!Place(k)
  BY <1>1, PlaceIsFirst DEF Open!PutNew
<1>3. /\ Open!Slot(k, i) \in {NULL, TOMBSTONE}
      /\ \A j \in 0 .. i - 1 : Open!Slot(k, j) # NULL
  BY <1>1, <1>2, PlaceIsFirst DEF Open!PutNew
<1>4. Open!probe(k, i) \in Open!Tries \ OpenHeld
  BY <1>1, <1>3, ProbeInTable DEF OpenHeld, Open!Slot
<1>5. /\ oa_slots' = [oa_slots EXCEPT ![Open!probe(k, i)] = <<k, v>>]
      /\ oa_size' = oa_size + 1 /\ oa_size < (OA_CAPACITY * 2) \div 3
      /\ UNCHANGED <<method, h1, h2>> /\ ret' = <<k, "stored">>
      /\ UpdateBehindTombstone \/ Open!oa_get(k) = Missing
  BY <1>1, <1>2, TablesAssumption DEF Open!PutNew, Open!Return, Open!Full, Open!TypeOK
<1>6. /\ oa_slots' \in [Open!Tries -> (Key \X Value) \union {NULL, TOMBSTONE}]
      /\ OpenHeld' = OpenHeld \union {Open!probe(k, i)}
      /\ OpenPaths'
      /\ OpenKeysOnce /\ (Open!probe(k, i) \in OpenHeld \/ ~ \E v1 \in Value : <<k, v1>> \in OpenContent)
            => /\ OpenKeysOnce'
               /\ OpenContent' = With(OpenContent, k, v)
  BY <1>3, <1>4, <1>5, OpenStore
<1>7. oa_size' = Cardinality(OpenHeld')
  BY <1>4, <1>5, <1>6, OpenSize, OpenHeldFinite, FS_AddElement
<1>8. Open!TableExact'
  <2>1. oa_size' = Open!Cardinality(OpenHeld')
    BY <1>7, OpenCardinality
  <2>2. QED
    BY <2>1 DEF Open!TableExact, OpenHeld
<1>9. Open!TypeOK'
  <2>1. oa_size' \in 0 .. OA_CAPACITY
    BY <1>1, <1>5, TablesAssumption DEF Open!TypeOK
  <2>2. QED
    BY <1>1, <1>5, <1>6, <2>1 DEF Open!TypeOK, Open!HashTypeOK, Open!Tries
<1>10. OpenInv'
  BY <1>6, <1>8, <1>9 DEF OpenInv
<1>11. OpenKeysOnce /\ ~ UpdateBehindTombstone => ~ \E v1 \in Value : <<k, v1>> \in OpenContent
  <2>1. OpenKeysOnce => OpenAnswers
    BY OpenFindsContent
  <2>2. Missing \notin Value
    BY HashAssumption
  <2>3. QED
    BY <1>5, <2>1, <2>2, ValueInIsValue DEF OpenAnswers
<1>12. QED
  BY <1>6, <1>10, <1>11

\* A call that finds its key on the way and replaces the value.
LEMMA OpenPutUpdate ==
  ASSUME OpenInv, NEW k \in Key, NEW v \in Value, Open!PutUpdate(k, v)
  PROVE  /\ OpenInv'
         /\ OpenKeysOnce => OpenKeysOnce' /\ OpenContent' = With(OpenContent, k, v)
<1>1. Open!TypeOK
  BY DEF OpenInv
<1>2. PICK i \in Open!Tries : i = Open!Place(k)
  BY <1>1, PlaceIsFirst DEF Open!PutUpdate
<1>3. /\ Open!Holds(k, i)
      /\ \A j \in 0 .. i - 1 : Open!Slot(k, j) # NULL
  BY <1>1, <1>2, PlaceIsFirst DEF Open!PutUpdate
<1>4. Open!probe(k, i) \in OpenHeld /\ oa_slots[Open!probe(k, i)][1] = k
  BY <1>1, <1>3, ProbeInTable DEF OpenHeld, Open!Slot, Open!Holds
<1>5. /\ oa_slots' = [oa_slots EXCEPT ![Open!probe(k, i)] = <<k, v>>]
      /\ UNCHANGED <<oa_size, method, h1, h2>> /\ ret' = <<k, "stored">>
  BY <1>2 DEF Open!PutUpdate, Open!Return
<1>6. /\ oa_slots' \in [Open!Tries -> (Key \X Value) \union {NULL, TOMBSTONE}]
      /\ OpenHeld' = OpenHeld \union {Open!probe(k, i)}
      /\ OpenPaths'
      /\ OpenKeysOnce /\ (Open!probe(k, i) \in OpenHeld \/ ~ \E v1 \in Value : <<k, v1>> \in OpenContent)
            => /\ OpenKeysOnce'
               /\ OpenContent' = With(OpenContent, k, v)
  BY <1>3, <1>4, <1>5, OpenStore
<1>7. OpenHeld' = OpenHeld
  BY <1>4, <1>6
<1>8. Open!TableExact'
  <2>1. oa_size' = Cardinality(OpenHeld')
    BY <1>5, <1>7, OpenSize
  <2>2. oa_size' = Open!Cardinality(OpenHeld')
    BY <2>1, OpenCardinality
  <2>3. QED
    BY <2>2 DEF Open!TableExact, OpenHeld
<1>9. Open!TypeOK'
  BY <1>1, <1>5, <1>6 DEF Open!TypeOK, Open!HashTypeOK, Open!Tries
<1>10. OpenInv'
  BY <1>6, <1>8, <1>9 DEF OpenInv
<1>11. QED
  BY <1>4, <1>6, <1>10

\* A call that removes a key leaves a tombstone, on which no path ends.
LEMMA OpenRemoveKey ==
  ASSUME OpenInv, NEW k \in Key, Open!RemoveKey(k)
  PROVE  /\ OpenInv'
         /\ OpenKeysOnce => /\ OpenKeysOnce'
                            /\ ValueIn(OpenContent, k) # Missing
                            /\ OpenContent' = Without(OpenContent, k)
<1>1. Open!TypeOK
  BY DEF OpenInv
<1>2. OA_CAPACITY \in Nat \ {0}
  BY TablesAssumption
<1>3. PICK i \in Open!Tries : i = Open!Find(k) /\ Open!Holds(k, i)
  BY <1>1, <1>2, FindsOwn DEF Open!RemoveKey
<1>4. PICK x0 \in Open!Tries : x0 = Open!probe(k, i)
  BY <1>1, ProbeInTable
<1>5. x0 \in OpenHeld /\ oa_slots[x0][1] = k
  BY <1>3, <1>4 DEF OpenHeld, Open!Slot, Open!Holds
<1>6. /\ oa_slots' = [oa_slots EXCEPT ![x0] = TOMBSTONE]
      /\ oa_size' = oa_size - 1 /\ UNCHANGED <<method, h1, h2>> /\ ret' = <<k, "removed">>
  BY <1>3, <1>4 DEF Open!RemoveKey, Open!Return
<1>7. /\ oa_slots' \in [Open!Tries -> (Key \X Value) \union {NULL, TOMBSTONE}]
      /\ OpenHeld' = OpenHeld \ {x0}
      /\ \A x \in Open!Tries : oa_slots'[x] = IF x = x0 THEN TOMBSTONE ELSE oa_slots[x]
      /\ \A x \in OpenHeld' \ {x0} : OpenPath(x)'
  <2>1. PICK e \in (Key \X Value) \union {TOMBSTONE} : e = TOMBSTONE
    OBVIOUS
  <2>2. oa_slots' = [oa_slots EXCEPT ![x0] = e]
    BY <1>6, <2>1
  <2>3. QED
    BY <1>6, <2>1, <2>2, OpenPathsStay
<1>8. OpenPaths'
  BY <1>7 DEF OpenPaths
<1>9. oa_size' = Cardinality(OpenHeld') /\ oa_size' \in Nat
  <2>1. Cardinality(OpenHeld') = Cardinality(OpenHeld) - 1
    BY <1>5, <1>7, OpenHeldFinite, FS_RemoveElement
  <2>2. Cardinality(OpenHeld') \in Nat
    BY <1>7, OpenHeldFinite, FS_RemoveElement, FS_CardinalityType
  <2>3. QED
    BY <1>6, <2>1, <2>2, OpenSize
<1>10. Open!TableExact'
  <2>1. oa_size' = Open!Cardinality(OpenHeld')
    BY <1>9, OpenCardinality
  <2>2. QED
    BY <2>1 DEF Open!TableExact, OpenHeld
<1>11. Open!TypeOK'
  <2>1. oa_size' \in 0 .. OA_CAPACITY
    BY <1>1, <1>2, <1>6, <1>9 DEF Open!TypeOK
  <2>2. QED
    BY <1>1, <1>6, <1>7, <2>1 DEF Open!TypeOK, Open!HashTypeOK, Open!Tries
<1>12. OpenInv'
  BY <1>8, <1>10, <1>11 DEF OpenInv
<1>13. ASSUME OpenKeysOnce
       PROVE  /\ OpenKeysOnce'
              /\ ValueIn(OpenContent, k) # Missing
              /\ OpenContent' = Without(OpenContent, k)
  <2>1. \A x \in OpenHeld : /\ x \in Open!Tries
                            /\ oa_slots[x] \in Key \X Value
                            /\ oa_slots[x] = <<oa_slots[x][1], oa_slots[x][2]>>
    BY <1>1, HeldIsPair
  <2>2. \A x \in OpenHeld \ {x0} : oa_slots'[x] = oa_slots[x] /\ oa_slots[x][1] # k
    BY <1>5, <1>7, <1>13, <2>1 DEF OpenKeysOnce
  <2>3. OpenKeysOnce'
    <3>1. \A x, y \in OpenHeld' : oa_slots'[x][1] = oa_slots'[y][1] => x = y
      BY <1>7, <1>13, <2>2 DEF OpenKeysOnce
    <3>2. QED
      BY <3>1 DEF OpenKeysOnce
  <2>4. OpenContent' = {oa_slots[x] : x \in OpenHeld \ {x0}}
    BY <1>7, <2>2 DEF OpenContent
  <2>5. {oa_slots[x] : x \in OpenHeld \ {x0}} = Without(OpenContent, k)
    <3>1. \A x \in OpenHeld : oa_slots[x] \in {k} \X Value <=> oa_slots[x][1] = k
      BY <2>1
    <3>2. QED
      BY <1>5, <2>2, <3>1 DEF Without, OpenContent
  <2>6. ValueIn(OpenContent, k) # Missing
    <3>1. \E v \in Value : <<k, v>> \in OpenContent
      BY <1>5, <2>1 DEF OpenContent
    <3>2. QED
      BY <3>1, ValueInIsValue, HashAssumption
  <2>7. QED
    BY <2>3, <2>4, <2>5, <2>6
<1>14. QED
  BY <1>12, <1>13

\* A call that changes no slot.
LEMMA OpenSame ==
  ASSUME OpenInv, UNCHANGED <<oa_slots, oa_size, method, h1, h2>>, Open!HashTypeOK'
  PROVE  /\ OpenInv' /\ OpenContent' = OpenContent
         /\ OpenKeysOnce => OpenKeysOnce'
<1>1. OpenHeld' = OpenHeld /\ OpenContent' = OpenContent
  BY DEF OpenHeld, OpenContent, Open!Tries
<1>2. Open!TypeOK' /\ Open!TableExact'
  BY DEF OpenInv, Open!TypeOK, Open!TableExact, Open!Tries
<1>3. OpenPaths'
  <2>1. \A k, i : Open!probe(k, i)' = Open!probe(k, i)
    BY DEF Open!probe
  <2>2. \A x \in OpenHeld : OpenPath(x)'
    BY <2>1 DEF OpenInv, OpenPaths, OpenPath, Open!Tries
  <2>3. QED
    BY <1>1, <2>2 DEF OpenPaths
<1>4. OpenKeysOnce => OpenKeysOnce'
  BY <1>1 DEF OpenKeysOnce
<1>5. QED
  BY <1>1, <1>2, <1>3, <1>4 DEF OpenInv

\* Every call keeps the invariant; while no key is updated behind a tombstone
\* it does to the content what a map does.
LEMMA OpenStep ==
  ASSUME OpenInv, Open!Next
  PROVE  /\ OpenInv'
         /\ OpenKeysOnce /\ ~ UpdateBehindTombstone
               => OpenKeysOnce' /\ ContentStep(OpenContent, OpenContent')
<1>1. PICK k \in Key : \/ Open!PutRefused(k) \/ Open!RemoveKey(k) \/ Open!RemoveAbsent(k)
                       \/ \E v \in Value : Open!PutNew(k, v) \/ Open!PutUpdate(k, v)
  BY DEF Open!Next
<1>2. Open!TypeOK
  BY DEF OpenInv
<1>3. CASE Open!PutRefused(k)
  <2>1. UNCHANGED <<oa_slots, oa_size, method, h1, h2>> /\ ret' = <<k, "refused">>
    BY <1>3 DEF Open!PutRefused, Open!Return
  <2>2. Open!HashTypeOK'
    BY <1>2, <2>1 DEF Open!TypeOK, Open!HashTypeOK
  <2>3. QED
    BY <2>1, <2>2, OpenSame DEF ContentStep
<1>4. CASE Open!RemoveAbsent(k)
  <2>1. UNCHANGED <<oa_slots, oa_size, method, h1, h2>> /\ ret' = <<k, "absent">>
    BY <1>4 DEF Open!RemoveAbsent, Open!Return
  <2>2. Open!HashTypeOK'
    BY <1>2, <2>1 DEF Open!TypeOK, Open!HashTypeOK
  <2>3. OpenKeysOnce => ValueIn(OpenContent, k) = Missing
    BY <1>4, OpenFindsContent DEF Open!RemoveAbsent, Open!oa_get, OpenAnswers
  <2>4. QED
    BY <2>1, <2>2, <2>3, OpenSame DEF ContentStep
<1>5. CASE Open!RemoveKey(k)
  <2>1. ret' = <<k, "removed">>
    BY <1>5 DEF Open!RemoveKey, Open!Return
  <2>2. QED
    BY <1>5, <2>1, OpenRemoveKey DEF ContentStep
<1>6. CASE \E v \in Value : Open!PutNew(k, v) \/ Open!PutUpdate(k, v)
  <2>1. PICK v \in Value : Open!PutNew(k, v) \/ Open!PutUpdate(k, v)
    BY <1>6
  <2>2. ret' = <<k, "stored">>
    BY <2>1 DEF Open!PutNew, Open!PutUpdate, Open!Return
  <2>3. /\ OpenInv'
        /\ OpenKeysOnce /\ ~ UpdateBehindTombstone
              => OpenKeysOnce' /\ OpenContent' = With(OpenContent, k, v)
    BY <2>1, OpenPutNew, OpenPutUpdate
  <2>4. QED
    BY <2>2, <2>3 DEF ContentStep
<1>7. QED
  BY <1>1, <1>3, <1>4, <1>5, <1>6

-----------------------------------------------------------------------------
(* The cuckoo table.  With the entry in hand its two tables hold a map all *)
(* through the evictions, so a put that gives up loses what is in hand.    *)

Cell1(k) == Cuckoo!i1(k)
Cell2(k) == Cuckoo!i2(k)

CuckooTables == [Cuckoo!Cells -> (Key \X Value) \union {NULL}]

Filled(t) == {x \in Cuckoo!Cells : t[x] # NULL}

\* The entries of a table, and the entry in hand if there is one.
Entries(t) == {t[x] : x \in Filled(t)}
Hand(e) == IF e = NULL THEN {} ELSE {e}
HandSize(e) == IF e = NULL THEN 0 ELSE 1

\* Two tables and an entry in hand: every entry is in its own cell and no key
\* comes twice; C is what they hold and n how many entries that is.
CuckooWhole(t, u, e, C, n) ==
    /\ t \in CuckooTables /\ u \in CuckooTables /\ e \in (Key \X Value) \union {NULL}
    /\ \A x \in Filled(t) : Cell1(t[x][1]) = x
    /\ \A x \in Filled(u) : Cell2(u[x][1]) = x
    /\ \A x \in Filled(t), y \in Filled(u) : t[x][1] # u[y][1]
    /\ e # NULL => /\ \A x \in Filled(t) : t[x][1] # e[1]
                   /\ \A x \in Filled(u) : u[x][1] # e[1]
    /\ C = Entries(t) \union Entries(u) \union Hand(e)
    /\ n = Cardinality(Filled(t)) + Cardinality(Filled(u)) + HandSize(e)

CuckooContent == Entries(table1) \union Entries(table2)

CuckooInv ==
    /\ Cuckoo!HashTypeOK
    /\ CuckooWhole(table1, table2, NULL, CuckooContent, ck_size)

\* The table counts with the cardinality of FiniteSets.
LEMMA CuckooCardinality ==
  ASSUME NEW S
  PROVE  Cuckoo!Cardinality(S) = Cardinality(S)
BY Zenon DEF Cuckoo!Cardinality, Cuckoo!IsFiniteSet, Cardinality, IsFiniteSet

\* The cells in use are finitely many, at most those of a table.
LEMMA FilledFinite ==
  ASSUME NEW t
  PROVE  /\ IsFiniteSet(Filled(t))
         /\ Cardinality(Filled(t)) \in 0 .. CK_SIZE
<1>1. IsFiniteSet(Cuckoo!Cells) /\ Cardinality(Cuckoo!Cells) = CK_SIZE
  <2>1. CK_SIZE \in Nat \ {0}
    BY TablesAssumption
  <2>2. CK_SIZE - 1 \in Int /\ 0 \in Int
    BY <2>1
  <2>3. QED
    BY <2>1, <2>2, FS_Interval DEF Cuckoo!Cells
<1>2. Filled(t) \in SUBSET Cuckoo!Cells
  BY DEF Filled
<1>3. IsFiniteSet(Filled(t)) /\ Cardinality(Filled(t)) <= CK_SIZE
  BY <1>1, <1>2, FS_Subset
<1>4. QED
  BY <1>3, FS_CardinalityType, TablesAssumption

\* The two cells of a key are cells of the two tables.
LEMMA CellsOfKey ==
  ASSUME Cuckoo!HashTypeOK, NEW k \in Key
  PROVE  Cell1(k) \in Cuckoo!Cells /\ Cell2(k) \in Cuckoo!Cells
<1>1. h1[k] \in Hash1 /\ h2[k] \in Hash2
  BY DEF Cuckoo!HashTypeOK
<1>2. h1[k] \in Nat /\ h2[k] \in Nat
  BY <1>1, HashAssumption
<1>3. CK_SIZE \in Nat \ {0}
  BY TablesAssumption
<1>4. h1[k] % CK_SIZE \in 0 .. CK_SIZE - 1 /\ h2[k] % CK_SIZE \in 0 .. CK_SIZE - 1
  BY <1>2, <1>3
<1>5. QED
  BY <1>4 DEF Cell1, Cell2, Cuckoo!i1, Cuckoo!i2, Cuckoo!Cells

\* An empty cell is told from an entry.
LEMMA NullIsNoPair == NULL \notin Key \X Value
BY TablesAssumption

\* An entry takes a cell and what was there comes into the hand.
LEMMA SwapInCell ==
  ASSUME NEW t \in CuckooTables, NEW e \in Key \X Value, NEW x \in Cuckoo!Cells,
         NEW w, w = Placed(t, x, e)
  PROVE  /\ w \in CuckooTables /\ t[x] \in (Key \X Value) \union {NULL}
         /\ Filled(w) = Filled(t) \union {x}
         /\ w[x] = e
         /\ \A y \in Cuckoo!Cells \ {x} : w[y] = t[y]
         /\ Entries(w) \union Hand(t[x]) = Entries(t) \union {e}
         /\ Cardinality(Filled(w)) + HandSize(t[x]) = Cardinality(Filled(t)) + 1
<1>1. e # NULL
  BY NullIsNoPair
<1>2. /\ w \in CuckooTables /\ t[x] \in (Key \X Value) \union {NULL}
      /\ w[x] = e
      /\ \A y \in Cuckoo!Cells \ {x} : w[y] = t[y]
  BY DEF CuckooTables, Placed
<1>3. Filled(w) = Filled(t) \union {x}
  BY <1>1, <1>2 DEF Filled
<1>4. Entries(w) = {t[y] : y \in Filled(t) \ {x}} \union {e}
  BY <1>2, <1>3 DEF Entries, Filled
<1>5. Entries(w) \union Hand(t[x]) = Entries(t) \union {e}
  <2>1. {t[y] : y \in Filled(t) \ {x}} \union Hand(t[x]) = Entries(t)
    BY DEF Entries, Hand, Filled
  <2>2. QED
    BY <1>4, <2>1
<1>6. Cardinality(Filled(w)) + HandSize(t[x]) = Cardinality(Filled(t)) + 1
  <2>1. Cardinality(Filled(w)) =
          IF x \in Filled(t) THEN Cardinality(Filled(t)) ELSE Cardinality(Filled(t)) + 1
    BY <1>3, FilledFinite, FS_AddElement
  <2>2. Cardinality(Filled(t)) \in Nat
    BY FilledFinite
  <2>3. x \in Filled(t) <=> t[x] # NULL
    BY DEF Filled
  <2>4. QED
    BY <2>1, <2>2, <2>3 DEF HandSize
<1>7. QED
  BY <1>2, <1>3, <1>5, <1>6

\* The first half of a round: the entry in hand takes its cell of table1.
LEMMA SwapFirst ==
  ASSUME Cuckoo!HashTypeOK, NEW t, NEW u, NEW e, NEW C, NEW n,
         CuckooWhole(t, u, e, C, n), e # NULL
  PROVE  CuckooWhole([t EXCEPT ![Cell1(e[1])] = e], u, t[Cell1(e[1])], C, n)
<1>1. t \in CuckooTables /\ u \in CuckooTables /\ e \in Key \X Value
  BY DEF CuckooWhole
<1>2. PICK x \in Cuckoo!Cells : x = Cell1(e[1])
  BY <1>1, CellsOfKey
<1>3. PICK w : w = Placed(t, x, e)
  OBVIOUS
<1>4. /\ w \in CuckooTables /\ t[x] \in (Key \X Value) \union {NULL}
      /\ Filled(w) = Filled(t) \union {x}
      /\ w[x] = e
      /\ \A y \in Cuckoo!Cells \ {x} : w[y] = t[y]
      /\ Entries(w) \union Hand(t[x]) = Entries(t) \union {e}
      /\ Cardinality(Filled(w)) + HandSize(t[x]) = Cardinality(Filled(t)) + 1
  BY <1>1, <1>3, SwapInCell
<1>5. /\ \A y \in Filled(t) : y \in Cuckoo!Cells /\ Cell1(t[y][1]) = y /\ t[y][1] # e[1]
      /\ \A y \in Filled(u) : Cell2(u[y][1]) = y /\ u[y][1] # e[1]
      /\ \A y \in Filled(t), z \in Filled(u) : t[y][1] # u[z][1]
      /\ C = Entries(t) \union Entries(u) \union {e}
      /\ n = Cardinality(Filled(t)) + Cardinality(Filled(u)) + 1
  BY DEF CuckooWhole, Hand, HandSize, Filled
<1>6. \A y \in Filled(w) : Cell1(w[y][1]) = y
  BY <1>2, <1>4, <1>5
<1>7. \A y \in Filled(w), z \in Filled(u) : w[y][1] # u[z][1]
  BY <1>4, <1>5
<1>8. t[x] # NULL => /\ \A y \in Filled(w) : w[y][1] # t[x][1]
                     /\ \A y \in Filled(u) : u[y][1] # t[x][1]
  <2>1. SUFFICES ASSUME t[x] # NULL
                 PROVE  /\ \A y \in Filled(w) : w[y][1] # t[x][1]
                        /\ \A y \in Filled(u) : u[y][1] # t[x][1]
    OBVIOUS
  <2>2. x \in Filled(t)
    BY <2>1 DEF Filled
  <2>3. QED
    BY <1>4, <1>5, <2>2
<1>9. C = Entries(w) \union Entries(u) \union Hand(t[x])
  BY <1>4, <1>5
<1>10. n = Cardinality(Filled(w)) + Cardinality(Filled(u)) + HandSize(t[x])
  <2>1. /\ Cardinality(Filled(w)) \in Nat /\ Cardinality(Filled(u)) \in Nat
        /\ Cardinality(Filled(t)) \in Nat /\ HandSize(t[x]) \in Nat
    BY FilledFinite DEF HandSize
  <2>2. QED
    BY <1>4, <1>5, <2>1
<1>11. CuckooWhole(w, u, t[x], C, n)
  BY <1>1, <1>4, <1>5, <1>6, <1>7, <1>8, <1>9, <1>10 DEF CuckooWhole
<1>12. QED
  BY <1>2, <1>3, <1>11 DEF Placed

\* The second half: the entry that was there takes its cell of table2.
LEMMA SwapSecond ==
  ASSUME Cuckoo!HashTypeOK, NEW t, NEW u, NEW e, NEW C, NEW n,
         CuckooWhole(t, u, e, C, n), e # NULL
  PROVE  CuckooWhole(t, [u EXCEPT ![Cell2(e[1])] = e], u[Cell2(e[1])], C, n)
<1>1. t \in CuckooTables /\ u \in CuckooTables /\ e \in Key \X Value
  BY DEF CuckooWhole
<1>2. PICK x \in Cuckoo!Cells : x = Cell2(e[1])
  BY <1>1, CellsOfKey
<1>3. PICK w : w = Placed(u, x, e)
  OBVIOUS
<1>4. /\ w \in CuckooTables /\ u[x] \in (Key \X Value) \union {NULL}
      /\ Filled(w) = Filled(u) \union {x}
      /\ w[x] = e
      /\ \A y \in Cuckoo!Cells \ {x} : w[y] = u[y]
      /\ Entries(w) \union Hand(u[x]) = Entries(u) \union {e}
      /\ Cardinality(Filled(w)) + HandSize(u[x]) = Cardinality(Filled(u)) + 1
  BY <1>1, <1>3, SwapInCell
<1>5. /\ \A y \in Filled(t) : Cell1(t[y][1]) = y /\ t[y][1] # e[1]
      /\ \A y \in Filled(u) : y \in Cuckoo!Cells /\ Cell2(u[y][1]) = y /\ u[y][1] # e[1]
      /\ \A y \in Filled(t), z \in Filled(u) : t[y][1] # u[z][1]
      /\ C = Entries(t) \union Entries(u) \union {e}
      /\ n = Cardinality(Filled(t)) + Cardinality(Filled(u)) + 1
  BY DEF CuckooWhole, Hand, HandSize, Filled
<1>6. \A y \in Filled(w) : Cell2(w[y][1]) = y
  BY <1>2, <1>4, <1>5
<1>7. \A y \in Filled(t), z \in Filled(w) : t[y][1] # w[z][1]
  BY <1>4, <1>5
<1>8. u[x] # NULL => /\ \A y \in Filled(t) : t[y][1] # u[x][1]
                     /\ \A y \in Filled(w) : w[y][1] # u[x][1]
  <2>1. SUFFICES ASSUME u[x] # NULL
                 PROVE  /\ \A y \in Filled(t) : t[y][1] # u[x][1]
                        /\ \A y \in Filled(w) : w[y][1] # u[x][1]
    OBVIOUS
  <2>2. x \in Filled(u)
    BY <2>1 DEF Filled
  <2>3. QED
    BY <1>4, <1>5, <2>2
<1>9. C = Entries(t) \union Entries(w) \union Hand(u[x])
  BY <1>4, <1>5
<1>10. n = Cardinality(Filled(t)) + Cardinality(Filled(w)) + HandSize(u[x])
  <2>1. /\ Cardinality(Filled(w)) \in Nat /\ Cardinality(Filled(u)) \in Nat
        /\ Cardinality(Filled(t)) \in Nat /\ HandSize(u[x]) \in Nat
    BY FilledFinite DEF HandSize
  <2>2. QED
    BY <1>4, <1>5, <2>1
<1>11. CuckooWhole(t, w, u[x], C, n)
  BY <1>1, <1>4, <1>5, <1>6, <1>7, <1>8, <1>9, <1>10 DEF CuckooWhole
<1>12. QED
  BY <1>2, <1>3, <1>11 DEF Placed

\* A round in state <<t, u, e>>.
InHand(t, u, e) == [table1 |-> t, table2 |-> u, entry |-> e]

\* A round of evictions changes nothing of what the tables and the hand hold.
LEMMA EvictKeeps ==
  ASSUME Cuckoo!HashTypeOK, NEW t, NEW u, NEW e, NEW C, NEW n, NEW i,
         CuckooWhole(t, u, e, C, n)
  PROVE  \E t2, u2, e2 : /\ Cuckoo!Evict(InHand(t, u, e), i) = InHand(t2, u2, e2)
                         /\ CuckooWhole(t2, u2, e2, C, n)
<1> DEFINE old1 == t[Cell1(e[1])]
           old2 == u[Cell2(old1[1])]
           w == [t EXCEPT ![Cell1(e[1])] = e]
           z == [u EXCEPT ![Cell2(old1[1])] = old1]
<1>1. Cuckoo!Evict(InHand(t, u, e), i) =
        IF e = NULL THEN InHand(t, u, e)
        ELSE IF old1 = NULL THEN InHand(w, u, old1)
        ELSE InHand(w, z, old2)
  <2>1. InHand(t, u, e).table1 = t /\ InHand(t, u, e).table2 = u /\ InHand(t, u, e).entry = e
    BY DEF InHand
  <2>2. QED
    BY <2>1 DEF Cuckoo!Evict, InHand, Cell1, Cell2
<1>2. CASE e = NULL
  BY <1>1, <1>2
<1>3. CASE e # NULL /\ old1 = NULL
  BY <1>1, <1>3, SwapFirst
<1>4. CASE e # NULL /\ old1 # NULL
  <2>1. CuckooWhole(w, u, old1, C, n)
    BY <1>4, SwapFirst
  <2>2. CuckooWhole(w, z, old2, C, n)
    <3> HIDE DEF w, old1
    <3>1. QED
      BY <1>4, <2>1, SwapSecond
  <2>3. QED
    BY <1>1, <1>4, <2>2
<1>5. QED
  BY <1>2, <1>3, <1>4

\* The rounds of Insert(k, v): a recursive function, and it exists.
RoundsUpTo(f, k, v, n) ==
    f = [i \in 0 .. n |-> IF i = 0 THEN InHand(table1, table2, <<k, v>>) ELSE Cuckoo!Evict(f[i - 1], i)]

Rounds(k, v) == CHOOSE f : RoundsUpTo(f, k, v, MAX_LOOP)

\* The loop of ck_put runs any number of rounds.
LEMMA RoundsExist ==
  ASSUME NEW k, NEW v, NEW n \in Nat
  PROVE  \E f : RoundsUpTo(f, k, v, n)
<1> DEFINE S == {m \in Nat : \E f : RoundsUpTo(f, k, v, m)}
<1>1. 0 \in S
  <2> DEFINE f == [i \in 0 .. 0 |-> InHand(table1, table2, <<k, v>>)]
  <2>1. RoundsUpTo(f, k, v, 0)
    BY DEF RoundsUpTo
  <2>2. QED
    BY <2>1
<1>2. ASSUME NEW m \in S PROVE m + 1 \in S
  <2>1. PICK f : RoundsUpTo(f, k, v, m)
    OBVIOUS
  <2> DEFINE g == [i \in 0 .. m + 1 |-> IF i = m + 1 THEN Cuckoo!Evict(f[m], m + 1) ELSE f[i]]
  <2>2. m \in Nat /\ \A i \in 0 .. m + 1 : i = m + 1 \/ i \in 0 .. m
    OBVIOUS
  <2>3. \A i \in 0 .. m : f[i] = IF i = 0 THEN InHand(table1, table2, <<k, v>>)
                                 ELSE Cuckoo!Evict(f[i - 1], i)
    BY <2>1 DEF RoundsUpTo
  <2>4. \A i \in 0 .. m + 1 : g[i] = IF i = 0 THEN InHand(table1, table2, <<k, v>>)
                                     ELSE Cuckoo!Evict(g[i - 1], i)
    BY <2>2, <2>3
  <2>5. g = [i \in 0 .. m + 1 |-> IF i = 0 THEN InHand(table1, table2, <<k, v>>)
                                  ELSE Cuckoo!Evict(g[i - 1], i)]
    <3>1. g = [i \in 0 .. m + 1 |-> g[i]]
      OBVIOUS
    <3> HIDE DEF g
    <3>2. QED
      BY <2>4, <3>1
  <2>6. RoundsUpTo(g, k, v, m + 1)
    BY <2>5 DEF RoundsUpTo
  <2>7. QED
    BY <2>2, <2>6
<1>3. S = Nat
  BY <1>1, <1>2, SetInduction
<1>4. QED
  BY <1>3

\* After every round the tables and the hand hold what they held, and k.
LEMMA RoundsKeep ==
  ASSUME Cuckoo!HashTypeOK, NEW k, NEW v, NEW C, NEW n,
         CuckooWhole(table1, table2, <<k, v>>, C, n)
  PROVE  \E t, u, e : Rounds(k, v)[MAX_LOOP] = InHand(t, u, e) /\ CuckooWhole(t, u, e, C, n)
<1>1. MAX_LOOP \in Nat
  BY TablesAssumption
<1>2. PICK f : f = Rounds(k, v) /\ RoundsUpTo(f, k, v, MAX_LOOP)
  BY <1>1, RoundsExist DEF Rounds
<1> DEFINE Good(m) == m \in 0 .. MAX_LOOP =>
              \E t, u, e : f[m] = InHand(t, u, e) /\ CuckooWhole(t, u, e, C, n)
           S == {m \in Nat : Good(m)}
<1>3. \A i \in 0 .. MAX_LOOP :
        f[i] = IF i = 0 THEN InHand(table1, table2, <<k, v>>) ELSE Cuckoo!Evict(f[i - 1], i)
  BY <1>2 DEF RoundsUpTo
<1>4. 0 \in S
  BY <1>1, <1>3
<1>5. ASSUME NEW m \in S PROVE m + 1 \in S
  <2>1. SUFFICES ASSUME m + 1 \in 0 .. MAX_LOOP PROVE Good(m + 1)
    OBVIOUS
  <2>2. m \in 0 .. MAX_LOOP /\ m + 1 # 0 /\ (m + 1) - 1 = m
    BY <1>1, <2>1
  <2>3. PICK t, u, e : f[m] = InHand(t, u, e) /\ CuckooWhole(t, u, e, C, n)
    BY <2>2
  <2>4. f[m + 1] = Cuckoo!Evict(InHand(t, u, e), m + 1)
    BY <1>3, <2>1, <2>2, <2>3
  <2>5. QED
    BY <2>3, <2>4, EvictKeeps
<1>6. S = Nat
  <2> HIDE DEF Good
  <2>1. S \in SUBSET Nat
    OBVIOUS
  <2> HIDE DEF S
  <2>2. QED
    BY <1>4, <1>5, <2>1, SetInduction
<1>7. QED
  BY <1>1, <1>2, <1>6

\* What a table shows of its invariant.
LEMMA CuckooFacts ==
  ASSUME CuckooInv
  PROVE  /\ table1 \in CuckooTables /\ table2 \in CuckooTables /\ Cuckoo!HashTypeOK
         /\ \A x \in Filled(table1) : /\ x \in Cuckoo!Cells /\ table1[x] \in Key \X Value
                                      /\ table1[x] # NULL /\ Cell1(table1[x][1]) = x
         /\ \A x \in Filled(table2) : /\ x \in Cuckoo!Cells /\ table2[x] \in Key \X Value
                                      /\ table2[x] # NULL /\ Cell2(table2[x][1]) = x
         /\ \A x \in Filled(table1), y \in Filled(table2) : table1[x][1] # table2[y][1]
         /\ ck_size = Cardinality(Filled(table1)) + Cardinality(Filled(table2))
<1>1. /\ table1 \in CuckooTables /\ table2 \in CuckooTables
      /\ \A x \in Filled(table1) : Cell1(table1[x][1]) = x
      /\ \A x \in Filled(table2) : Cell2(table2[x][1]) = x
      /\ \A x \in Filled(table1), y \in Filled(table2) : table1[x][1] # table2[y][1]
      /\ ck_size = Cardinality(Filled(table1)) + Cardinality(Filled(table2)) + HandSize(NULL)
  BY DEF CuckooInv, CuckooWhole
<1>2. \A t \in CuckooTables : \A x \in Filled(t) : x \in Cuckoo!Cells /\ t[x] # NULL /\ t[x] \in Key \X Value
  BY DEF CuckooTables, Filled
<1>3. ck_size = Cardinality(Filled(table1)) + Cardinality(Filled(table2))
  BY <1>1, FilledFinite DEF HandSize
<1>4. QED
  BY <1>1, <1>2, <1>3 DEF CuckooInv

\* In1 and In2 find the key where it is.
LEMMA CuckooFinds ==
  ASSUME CuckooInv, NEW k \in Key
  PROVE  /\ Cuckoo!In1(k) <=> Cell1(k) \in Filled(table1) /\ table1[Cell1(k)][1] = k
         /\ Cuckoo!In2(k) <=> Cell2(k) \in Filled(table2) /\ table2[Cell2(k)][1] = k
         /\ \A x \in Filled(table1) : table1[x][1] = k => x = Cell1(k)
         /\ \A x \in Filled(table2) : table2[x][1] = k => x = Cell2(k)
<1>1. Cell1(k) \in Cuckoo!Cells /\ Cell2(k) \in Cuckoo!Cells
  BY CuckooFacts, CellsOfKey
<1>2. QED
  BY <1>1, CuckooFacts DEF Cuckoo!In1, Cuckoo!In2, Cell1, Cell2, Filled

\* The two properties the runs check of the table.
LEMMA CuckooShows ==
  CuckooInv => Cuckoo!TypeOK /\ Cuckoo!TableExact
<1> SUFFICES ASSUME CuckooInv PROVE Cuckoo!TypeOK /\ Cuckoo!TableExact
  OBVIOUS
<1>1. CK_SIZE \in Nat \ {0}
  BY TablesAssumption
<1>2. ck_size \in 0 .. 2 * CK_SIZE
  <2>1. Cardinality(Filled(table1)) \in 0 .. CK_SIZE /\ Cardinality(Filled(table2)) \in 0 .. CK_SIZE
    BY FilledFinite
  <2>2. QED
    BY <1>1, <2>1, CuckooFacts
<1>3. Cuckoo!TypeOK
  BY <1>2, CuckooFacts DEF Cuckoo!TypeOK, CuckooTables
<1>4. /\ Filled(table1) = {x \in Cuckoo!Cells : table1[x] # NULL}
      /\ Filled(table2) = {x \in Cuckoo!Cells : table2[x] # NULL}
  BY DEF Filled
<1>5. ck_size = Cuckoo!Cardinality(Filled(table1)) + Cuckoo!Cardinality(Filled(table2))
  BY CuckooFacts, CuckooCardinality
<1>6. ASSUME NEW x \in Filled(table1)
      PROVE  Cuckoo!i1(table1[x][1]) = x /\ ~ Cuckoo!In2(table1[x][1])
  <2>1. PICK k \in Key : k = table1[x][1]
    BY CuckooFacts
  <2>2. ~ Cuckoo!In2(k)
    BY <2>1, CuckooFacts, CuckooFinds
  <2>3. QED
    BY <2>1, <2>2, CuckooFacts DEF Cell1
<1>7. \A x \in Filled(table2) : Cuckoo!i2(table2[x][1]) = x
  BY CuckooFacts DEF Cell2
<1>8. Cuckoo!TableExact
  BY <1>4, <1>5, <1>6, <1>7 DEF Cuckoo!TableExact
<1>9. QED
  BY <1>3, <1>8

\* What ck_get finds.
CuckooAnswers ==
    /\ IsMap(CuckooContent)
    /\ \A k \in Key : Cuckoo!ck_get(k) = ValueIn(CuckooContent, k)

\* A lookup in two cells finds the content.
LEMMA CuckooFindsContent ==
  CuckooInv => CuckooAnswers
<1> SUFFICES ASSUME CuckooInv PROVE CuckooAnswers
  OBVIOUS
<1>1. \A k \in Key, v \in Value : <<k, v>> \in CuckooContent <=>
          \/ Cuckoo!In1(k) /\ table1[Cell1(k)][2] = v
          \/ Cuckoo!In2(k) /\ table2[Cell2(k)][2] = v
  <2>1. TAKE k \in Key, v \in Value
  <2>2. ASSUME <<k, v>> \in CuckooContent
        PROVE  \/ Cuckoo!In1(k) /\ table1[Cell1(k)][2] = v
               \/ Cuckoo!In2(k) /\ table2[Cell2(k)][2] = v
    <3>1. CASE <<k, v>> \in Entries(table1)
      <4>1. PICK x \in Filled(table1) : table1[x] = <<k, v>>
        BY <3>1 DEF Entries
      <4>2. QED
        BY <4>1, CuckooFinds
    <3>2. CASE <<k, v>> \in Entries(table2)
      <4>1. PICK x \in Filled(table2) : table2[x] = <<k, v>>
        BY <3>2 DEF Entries
      <4>2. QED
        BY <4>1, CuckooFinds
    <3>3. QED
      BY <2>2, <3>1, <3>2 DEF CuckooContent
  <2>3. ASSUME Cuckoo!In1(k), table1[Cell1(k)][2] = v PROVE <<k, v>> \in CuckooContent
    <3>1. Cell1(k) \in Filled(table1) /\ table1[Cell1(k)] = <<k, v>>
      BY <2>3, CuckooFacts, CuckooFinds
    <3>2. QED
      BY <3>1 DEF CuckooContent, Entries
  <2>4. ASSUME Cuckoo!In2(k), table2[Cell2(k)][2] = v PROVE <<k, v>> \in CuckooContent
    <3>1. Cell2(k) \in Filled(table2) /\ table2[Cell2(k)] = <<k, v>>
      BY <2>4, CuckooFacts, CuckooFinds
    <3>2. QED
      BY <3>1 DEF CuckooContent, Entries
  <2>5. QED
    BY <2>2, <2>3, <2>4
<1>2. \A k \in Key : ~ (Cuckoo!In1(k) /\ Cuckoo!In2(k))
  <2>1. \A x \in Filled(table1), y \in Filled(table2) : table1[x][1] # table2[y][1]
    BY CuckooFacts
  <2>2. \A k \in Key :
          /\ Cuckoo!In1(k) => Cell1(k) \in Filled(table1) /\ table1[Cell1(k)][1] = k
          /\ Cuckoo!In2(k) => Cell2(k) \in Filled(table2) /\ table2[Cell2(k)][1] = k
    BY CuckooFinds
  <2>3. QED
    BY <2>1, <2>2
<1>3. CuckooContent \subseteq Key \X Value
  BY CuckooFacts DEF CuckooContent, Entries
<1>4. IsMap(CuckooContent)
  BY <1>1, <1>2, <1>3 DEF IsMap
<1>5. ASSUME NEW k \in Key PROVE Cuckoo!ck_get(k) = ValueIn(CuckooContent, k)
  <2>1. Cuckoo!In1(k) => table1[Cell1(k)][2] \in Value
    BY CuckooFacts, CuckooFinds
  <2>2. Cuckoo!In2(k) => table2[Cell2(k)][2] \in Value
    BY CuckooFacts, CuckooFinds
  <2>3. Cuckoo!In1(k) => ValueIn(CuckooContent, k) = table1[Cell1(k)][2]
    BY <1>1, <1>4, <2>1, ValueOfPair
  <2>4. Cuckoo!In2(k) => ValueIn(CuckooContent, k) = table2[Cell2(k)][2]
    BY <1>1, <1>4, <2>2, ValueOfPair
  <2>5. ~ Cuckoo!In1(k) /\ ~ Cuckoo!In2(k) => ValueIn(CuckooContent, k) = Missing
    BY <1>1, ValueInIsValue
  <2>6. QED
    BY <2>3, <2>4, <2>5 DEF Cuckoo!ck_get, Cell1, Cell2
<1>6. QED
  BY <1>4, <1>5 DEF CuckooAnswers

\* The first tables are empty.
LEMMA CuckooInit ==
  ASSUME Cuckoo!Init
  PROVE  CuckooInv /\ CuckooContent = {}
<1>1. Filled(table1) = {} /\ Filled(table2) = {}
  BY DEF Cuckoo!Init, Filled
<1>2. CuckooContent = {}
  BY <1>1 DEF CuckooContent, Entries
<1>3. Cuckoo!HashTypeOK
  BY DEF Cuckoo!Init, Cuckoo!HashInit, Cuckoo!HashTypeOK
<1>4. table1 \in CuckooTables /\ table2 \in CuckooTables
  BY DEF Cuckoo!Init, CuckooTables
<1>5. ck_size = Cardinality(Filled(table1)) + Cardinality(Filled(table2)) + HandSize(NULL)
  BY <1>1, FS_EmptySet DEF HandSize, Cuckoo!Init
<1>6. CuckooContent = Entries(table1) \union Entries(table2) \union Hand(NULL)
  BY DEF CuckooContent, Hand
<1>7. QED
  BY <1>1, <1>2, <1>3, <1>4, <1>5, <1>6 DEF CuckooInv, CuckooWhole

\* The entry of k in cell x gives way to another entry of k, or to none.
LEMMA CellChanged ==
  ASSUME NEW t \in CuckooTables, NEW x \in Filled(t), NEW k \in Key, t[x][1] = k,
         \A y \in Filled(t) : t[y][1] = k => y = x,
         NEW e, e = NULL \/ \E v \in Value : e = <<k, v>>,
         NEW w, w = Placed(t, x, e)
  PROVE  /\ w \in CuckooTables
         /\ Filled(w) = IF e = NULL THEN Filled(t) \ {x} ELSE Filled(t)
         /\ \A y \in Filled(w) : y \in Filled(t) /\ w[y][1] = t[y][1]
         /\ Entries(w) = Without(Entries(t), k) \union Hand(e)
         /\ Cardinality(Filled(w)) = Cardinality(Filled(t)) - 1 + HandSize(e)
<1>1. x \in Cuckoo!Cells /\ e \in (Key \X Value) \union {NULL}
  BY DEF Filled
<1>2. w \in CuckooTables /\ w[x] = e /\ \A y \in Cuckoo!Cells \ {x} : w[y] = t[y]
  BY <1>1 DEF CuckooTables, Placed
<1>3. Filled(w) = IF e = NULL THEN Filled(t) \ {x} ELSE Filled(t)
  BY <1>1, <1>2 DEF Filled
<1>4. \A y \in Filled(t) : y \in Cuckoo!Cells /\ t[y] \in Key \X Value
  BY DEF CuckooTables, Filled
<1>5. e # NULL => e[1] = k
  OBVIOUS
<1>6. \A y \in Filled(w) : y \in Filled(t) /\ w[y][1] = t[y][1]
  BY <1>2, <1>3, <1>4, <1>5
<1>7. {t[y] : y \in Filled(t) \ {x}} = Without(Entries(t), k)
  <2>1. \A y \in Filled(t) : t[y] \in {k} \X Value <=> y = x
    BY <1>4
  <2>2. QED
    BY <2>1 DEF Without, Entries
<1>8. Entries(w) = {t[y] : y \in Filled(t) \ {x}} \union Hand(e)
  BY <1>2, <1>3, <1>4 DEF Entries, Hand
<1>9. Cardinality(Filled(w)) = Cardinality(Filled(t)) - 1 + HandSize(e)
  <2>1. Cardinality(Filled(t) \ {x}) = Cardinality(Filled(t)) - 1
    BY FilledFinite, FS_RemoveElement
  <2>2. Cardinality(Filled(t)) \in Nat
    BY FilledFinite
  <2>3. QED
    BY <1>3, <2>1, <2>2 DEF HandSize
<1>10. QED
  BY <1>2, <1>3, <1>6, <1>7, <1>8, <1>9

\* The entry of k in its slot, of the first table if it is in both, is
\* replaced or removed.
LEMMA CuckooChange ==
  ASSUME CuckooInv, NEW k \in Key, Cuckoo!In1(k) \/ Cuckoo!In2(k),
         NEW e, e = NULL \/ \E v \in Value : e = <<k, v>>,
         table1' = IF Cuckoo!In1(k) THEN [table1 EXCEPT ![Cell1(k)] = e] ELSE table1,
         table2' = IF Cuckoo!In1(k) THEN table2 ELSE [table2 EXCEPT ![Cell2(k)] = e],
         Cuckoo!HashTypeOK', UNCHANGED <<h1, h2>>, ck_size' = ck_size - 1 + HandSize(e)
  PROVE  CuckooInv' /\ CuckooContent' = Without(CuckooContent, k) \union Hand(e)
<1>1. /\ table1 \in CuckooTables /\ table2 \in CuckooTables /\ Cuckoo!HashTypeOK
      /\ \A x \in Filled(table1) : /\ x \in Cuckoo!Cells /\ table1[x] \in Key \X Value
                                   /\ table1[x] # NULL /\ Cell1(table1[x][1]) = x
      /\ \A x \in Filled(table2) : /\ x \in Cuckoo!Cells /\ table2[x] \in Key \X Value
                                   /\ table2[x] # NULL /\ Cell2(table2[x][1]) = x
      /\ \A x \in Filled(table1), y \in Filled(table2) : table1[x][1] # table2[y][1]
      /\ ck_size = Cardinality(Filled(table1)) + Cardinality(Filled(table2))
  BY CuckooFacts
<1>2. \A l : Cell1(l)' = Cell1(l) /\ Cell2(l)' = Cell2(l)
  BY DEF Cell1, Cell2, Cuckoo!i1, Cuckoo!i2
<1>3. /\ Cuckoo!In1(k) <=> Cell1(k) \in Filled(table1) /\ table1[Cell1(k)][1] = k
      /\ Cuckoo!In2(k) <=> Cell2(k) \in Filled(table2) /\ table2[Cell2(k)][1] = k
      /\ \A x \in Filled(table1) : table1[x][1] = k => x = Cell1(k)
      /\ \A x \in Filled(table2) : table2[x][1] = k => x = Cell2(k)
  BY CuckooFinds
<1>4. PICK t, u : t = table1' /\ u = table2'
  OBVIOUS
<1>5. /\ t \in CuckooTables /\ u \in CuckooTables
      /\ \A x \in Filled(t) : x \in Filled(table1) /\ t[x][1] = table1[x][1]
      /\ \A x \in Filled(u) : x \in Filled(table2) /\ u[x][1] = table2[x][1]
      /\ Entries(t) \union Entries(u) = Without(CuckooContent, k) \union Hand(e)
      /\ Cardinality(Filled(t)) + Cardinality(Filled(u)) = ck_size - 1 + HandSize(e)
  <2>1. CASE Cuckoo!In1(k)
    <3>1. t = Placed(table1, Cell1(k), e) /\ u = table2
      BY <1>4, <2>1 DEF Placed
    <3>2. /\ t \in CuckooTables
          /\ Filled(t) = IF e = NULL THEN Filled(table1) \ {Cell1(k)} ELSE Filled(table1)
          /\ \A y \in Filled(t) : y \in Filled(table1) /\ t[y][1] = table1[y][1]
          /\ Entries(t) = Without(Entries(table1), k) \union Hand(e)
          /\ Cardinality(Filled(t)) = Cardinality(Filled(table1)) - 1 + HandSize(e)
      BY <1>1, <1>3, <2>1, <3>1, CellChanged
    <3>3. \A y \in Filled(table2) : table2[y][1] # k
      BY <1>1, <1>3, <2>1
    <3>4. Entries(u) = Without(Entries(table2), k)
      BY <3>1, <3>3 DEF Entries, Without
    <3>5. Entries(t) \union Entries(u) = Without(CuckooContent, k) \union Hand(e)
      BY <3>2, <3>4 DEF CuckooContent, Without
    <3>6. Cardinality(Filled(t)) + Cardinality(Filled(u)) = ck_size - 1 + HandSize(e)
      <4>1. /\ Cardinality(Filled(table1)) \in Nat /\ Cardinality(Filled(table2)) \in Nat
            /\ HandSize(e) \in Nat
        BY FilledFinite DEF HandSize
      <4>2. QED
        BY <1>1, <3>1, <3>2, <4>1
    <3>7. QED
      BY <1>1, <3>1, <3>2, <3>5, <3>6
  <2>2. CASE ~ Cuckoo!In1(k) /\ Cuckoo!In2(k)
    <3>1. u = Placed(table2, Cell2(k), e) /\ t = table1
      BY <1>4, <2>2 DEF Placed
    <3>2. /\ u \in CuckooTables
          /\ Filled(u) = IF e = NULL THEN Filled(table2) \ {Cell2(k)} ELSE Filled(table2)
          /\ \A y \in Filled(u) : y \in Filled(table2) /\ u[y][1] = table2[y][1]
          /\ Entries(u) = Without(Entries(table2), k) \union Hand(e)
          /\ Cardinality(Filled(u)) = Cardinality(Filled(table2)) - 1 + HandSize(e)
      BY <1>1, <1>3, <2>2, <3>1, CellChanged
    <3>3. \A y \in Filled(table1) : table1[y][1] # k
      BY <1>1, <1>3, <2>2
    <3>4. Entries(t) = Without(Entries(table1), k)
      BY <3>1, <3>3 DEF Entries, Without
    <3>5. Entries(t) \union Entries(u) = Without(CuckooContent, k) \union Hand(e)
      BY <3>2, <3>4 DEF CuckooContent, Without
    <3>6. Cardinality(Filled(t)) + Cardinality(Filled(u)) = ck_size - 1 + HandSize(e)
      <4>1. /\ Cardinality(Filled(table1)) \in Nat /\ Cardinality(Filled(table2)) \in Nat
            /\ HandSize(e) \in Nat
        BY FilledFinite DEF HandSize
      <4>2. QED
        BY <1>1, <3>1, <3>2, <4>1
    <3>7. QED
      BY <1>1, <3>1, <3>2, <3>5, <3>6
  <2>3. QED
    BY <2>1, <2>2
<1>6. /\ \A x \in Filled(t) : Cell1(t[x][1]) = x
      /\ \A x \in Filled(u) : Cell2(u[x][1]) = x
      /\ \A x \in Filled(t), y \in Filled(u) : t[x][1] # u[y][1]
  BY <1>1, <1>5
<1>7. CuckooContent' = Entries(t) \union Entries(u)
  BY <1>4 DEF CuckooContent, Entries, Filled, Cuckoo!Cells
<1>8. CuckooWhole(t, u, NULL, CuckooContent', ck_size')
  <2>1. /\ Cardinality(Filled(t)) \in Nat /\ Cardinality(Filled(u)) \in Nat
    BY FilledFinite
  <2>2. ck_size' = Cardinality(Filled(t)) + Cardinality(Filled(u)) + HandSize(NULL)
    BY <1>5, <2>1 DEF HandSize
  <2>3. CuckooContent' = Entries(t) \union Entries(u) \union Hand(NULL)
    BY <1>7 DEF Hand
  <2>4. QED
    BY <1>5, <1>6, <2>2, <2>3 DEF CuckooWhole
<1>9. CuckooInv'
  BY <1>2, <1>4, <1>8 DEF CuckooInv, CuckooWhole, CuckooTables, Filled, Entries, Cuckoo!Cells
<1>10. QED
  BY <1>5, <1>7, <1>9

\* What the tables hold, and the rest of the state, make the invariant.
LEMMA CuckooInvOf ==
  ASSUME NEW t, NEW u, t = table1', u = table2', Cuckoo!HashTypeOK', UNCHANGED <<h1, h2>>,
         NEW C, CuckooWhole(t, u, NULL, C, ck_size')
  PROVE  CuckooInv' /\ CuckooContent' = C
<1>1. \A l : Cell1(l)' = Cell1(l) /\ Cell2(l)' = Cell2(l)
  BY DEF Cell1, Cell2, Cuckoo!i1, Cuckoo!i2
<1>2. CuckooContent' = Entries(t) \union Entries(u)
  BY DEF CuckooContent, Entries, Filled, Cuckoo!Cells
<1>3. CuckooContent' = C
  BY <1>2 DEF CuckooWhole, Hand
<1>4. CuckooInv'
  BY <1>1, <1>3 DEF CuckooInv, CuckooWhole, CuckooTables, Filled, Entries, Cuckoo!Cells
<1>5. QED
  BY <1>3, <1>4

\* A put that finds room moves what is in its way; one that does not loses the
\* entry it has in hand at the end.
LEMMA CuckooInsert ==
  ASSUME CuckooInv, NEW k \in Key, NEW v \in Value, Cuckoo!Insert(k, v)
  PROVE  CuckooInv' /\ LossyStep(CuckooContent, CuckooContent')
<1> DEFINE e0 == <<k, v>>
           D == With(CuckooContent, k, v)
<1>1. /\ table1 \in CuckooTables /\ table2 \in CuckooTables /\ Cuckoo!HashTypeOK
      /\ \A x \in Filled(table1) : /\ x \in Cuckoo!Cells /\ table1[x] \in Key \X Value
                                   /\ table1[x] # NULL /\ Cell1(table1[x][1]) = x
      /\ \A x \in Filled(table2) : /\ x \in Cuckoo!Cells /\ table2[x] \in Key \X Value
                                   /\ table2[x] # NULL /\ Cell2(table2[x][1]) = x
      /\ \A x \in Filled(table1), y \in Filled(table2) : table1[x][1] # table2[y][1]
      /\ ck_size = Cardinality(Filled(table1)) + Cardinality(Filled(table2))
  BY CuckooFacts
<1>2. ~ Cuckoo!In1(k) /\ ~ Cuckoo!In2(k)
  BY DEF Cuckoo!Insert
<1>3. e0 \in Key \X Value /\ e0 # NULL /\ e0[1] = k
  BY NullIsNoPair
<1>4. /\ \A x \in Filled(table1) : table1[x][1] # k
      /\ \A x \in Filled(table2) : table2[x][1] # k
  <2>1. /\ Cuckoo!In1(k) <=> Cell1(k) \in Filled(table1) /\ table1[Cell1(k)][1] = k
        /\ Cuckoo!In2(k) <=> Cell2(k) \in Filled(table2) /\ table2[Cell2(k)][1] = k
        /\ \A x \in Filled(table1) : table1[x][1] = k => x = Cell1(k)
        /\ \A x \in Filled(table2) : table2[x][1] = k => x = Cell2(k)
    BY CuckooFinds
  <2>2. QED
    BY <1>2, <2>1
<1>5. Without(CuckooContent, k) = CuckooContent
  BY <1>4 DEF Without, CuckooContent, Entries
<1>6. D = Entries(table1) \union Entries(table2) \union Hand(e0)
  BY <1>3, <1>5 DEF With, CuckooContent, Hand
<1>7. Cardinality(Filled(table1)) \in Nat /\ Cardinality(Filled(table2)) \in Nat
  BY FilledFinite
<1>8. CuckooWhole(table1, table2, e0, D, ck_size + 1)
  <2>1. ck_size + 1 = Cardinality(Filled(table1)) + Cardinality(Filled(table2)) + HandSize(e0)
    BY <1>1, <1>3, <1>7 DEF HandSize
  <2> HIDE DEF D, e0
  <2>2. QED
    BY <1>1, <1>3, <1>4, <1>6, <2>1 DEF CuckooWhole
<1>9. PICK t, u, e : /\ Rounds(k, v)[MAX_LOOP] = InHand(t, u, e)
                     /\ CuckooWhole(t, u, e, D, ck_size + 1)
  <2> HIDE DEF D
  <2>1. QED
    BY <1>1, <1>8, RoundsKeep
<1>10. /\ table1' = Rounds(k, v)[MAX_LOOP].table1
       /\ table2' = Rounds(k, v)[MAX_LOOP].table2
       /\ ck_size' = IF Rounds(k, v)[MAX_LOOP].entry = NULL THEN ck_size + 1 ELSE ck_size
       /\ ret' = <<k, IF Rounds(k, v)[MAX_LOOP].entry = NULL THEN "stored" ELSE "refused">>
       /\ UNCHANGED <<h1, h2>>
  BY DEF Cuckoo!Insert, Cuckoo!Return, Rounds, RoundsUpTo, InHand
<1>11. /\ table1' = t /\ table2' = u
       /\ ck_size' = IF e = NULL THEN ck_size + 1 ELSE ck_size
       /\ ret' = <<k, IF e = NULL THEN "stored" ELSE "refused">>
  <2>1. InHand(t, u, e).table1 = t /\ InHand(t, u, e).table2 = u /\ InHand(t, u, e).entry = e
    BY DEF InHand
  <2>2. QED
    BY <1>9, <1>10, <2>1
<1>12. Cuckoo!HashTypeOK'
  BY <1>1, <1>10, <1>11 DEF Cuckoo!HashTypeOK
<1>13. CASE e = NULL
  <2>1. CuckooWhole(t, u, NULL, D, ck_size')
    BY <1>9, <1>11, <1>13
  <2>2. CuckooInv' /\ CuckooContent' = D
    <3> HIDE DEF D
    <3>1. QED
      BY <1>10, <1>11, <1>12, <2>1, CuckooInvOf
  <2>3. QED
    BY <1>11, <1>13, <2>2 DEF LossyStep, ContentStep
<1>14. CASE e # NULL
  <2> DEFINE E == Entries(t) \union Entries(u)
  <2> HIDE DEF D
  <2>1. /\ t \in CuckooTables /\ u \in CuckooTables /\ e \in (Key \X Value) \union {NULL}
        /\ \A x \in Filled(t) : Cell1(t[x][1]) = x
        /\ \A x \in Filled(u) : Cell2(u[x][1]) = x
        /\ \A x \in Filled(t), y \in Filled(u) : t[x][1] # u[y][1]
        /\ \A x \in Filled(t) : t[x][1] # e[1]
        /\ \A x \in Filled(u) : u[x][1] # e[1]
        /\ D = E \union {e}
        /\ ck_size + 1 = Cardinality(Filled(t)) + Cardinality(Filled(u)) + 1
    BY <1>9, <1>14 DEF CuckooWhole, Hand, HandSize
  <2>2. PICK lost \in Key : lost = e[1] /\ e \in {lost} \X Value
    BY <1>14, <2>1
  <2>3. E = Without(D, lost)
    <3>1. \A p \in E : p \notin {lost} \X Value
      BY <2>1, <2>2 DEF Entries
    <3>2. QED
      BY <2>1, <2>2, <3>1 DEF Without
  <2>4. CuckooWhole(t, u, NULL, E, ck_size')
    <3>1. Cardinality(Filled(t)) \in Nat /\ Cardinality(Filled(u)) \in Nat
      BY FilledFinite
    <3>2. ck_size' = Cardinality(Filled(t)) + Cardinality(Filled(u)) + HandSize(NULL)
      BY <1>1, <1>7, <1>11, <1>14, <2>1, <3>1 DEF HandSize
    <3>3. E = Entries(t) \union Entries(u) \union Hand(NULL)
      BY DEF Hand
    <3> HIDE DEF E
    <3>4. QED
      BY <2>1, <3>2, <3>3 DEF CuckooWhole
  <2>5. CuckooInv' /\ CuckooContent' = E
    <3> HIDE DEF E
    <3>1. QED
      BY <1>10, <1>11, <1>12, <2>4, CuckooInvOf
  <2>6. CuckooContent' = Without(With(CuckooContent, k, v), lost)
    BY <2>3, <2>5 DEF D
  <2>7. QED
    BY <1>11, <1>14, <2>5, <2>6 DEF LossyStep
<1>15. QED
  BY <1>13, <1>14

\* Every call keeps the invariant and does what a map does, or loses a key.
LEMMA CuckooStep ==
  ASSUME CuckooInv, Cuckoo!Next
  PROVE  CuckooInv' /\ LossyStep(CuckooContent, CuckooContent')
<1>1. PICK k \in Key : \/ Cuckoo!RemoveKey(k) \/ Cuckoo!RemoveAbsent(k)
                       \/ \E v \in Value : Cuckoo!Update(k, v) \/ Cuckoo!Insert(k, v)
  BY DEF Cuckoo!Next
<1>2. Cuckoo!HashTypeOK
  BY DEF CuckooInv
<1>3. CuckooAnswers
  BY CuckooFindsContent
<1>4. ASSUME Cuckoo!In1(k) \/ Cuckoo!In2(k) PROVE ValueIn(CuckooContent, k) # Missing
  <2>1. /\ Cuckoo!In1(k) => table1[Cuckoo!i1(k)][2] \in Value
        /\ Cuckoo!In2(k) => table2[Cuckoo!i2(k)][2] \in Value
    <3>1. /\ Cuckoo!In1(k) => Cell1(k) \in Filled(table1)
          /\ Cuckoo!In2(k) => Cell2(k) \in Filled(table2)
      BY CuckooFinds
    <3>2. QED
      BY <3>1, CuckooFacts DEF Cell1, Cell2
  <2>2. Cuckoo!ck_get(k) \in Value
    BY <1>4, <2>1 DEF Cuckoo!ck_get
  <2>3. QED
    BY <1>3, <2>2, HashAssumption DEF CuckooAnswers
<1>5. CASE Cuckoo!RemoveKey(k)
  <2>1. PICK e : e = NULL
    OBVIOUS
  <2>2. /\ Cuckoo!In1(k) \/ Cuckoo!In2(k)
        /\ table1' = IF Cuckoo!In1(k) THEN [table1 EXCEPT ![Cell1(k)] = e] ELSE table1
        /\ table2' = IF Cuckoo!In1(k) THEN table2 ELSE [table2 EXCEPT ![Cell2(k)] = e]
        /\ UNCHANGED <<h1, h2>> /\ ret' = <<k, "removed">> /\ ck_size' = ck_size - 1
    BY <1>5, <2>1 DEF Cuckoo!RemoveKey, Cuckoo!Return, Cell1, Cell2
  <2>3. Cuckoo!HashTypeOK'
    BY <1>2, <2>2 DEF Cuckoo!HashTypeOK
  <2>4. ck_size' = ck_size - 1 + HandSize(e)
    <3>1. ck_size \in Int
      BY CuckooFacts, FilledFinite
    <3>2. QED
      BY <2>1, <2>2, <3>1 DEF HandSize
  <2>5. CuckooInv' /\ CuckooContent' = Without(CuckooContent, k) \union Hand(e)
    BY <2>1, <2>2, <2>3, <2>4, CuckooChange
  <2>6. CuckooContent' = Without(CuckooContent, k)
    BY <2>1, <2>5 DEF Hand
  <2>7. QED
    BY <1>4, <2>2, <2>5, <2>6 DEF LossyStep, ContentStep
<1>6. CASE Cuckoo!RemoveAbsent(k)
  <2>1. /\ ~ Cuckoo!In1(k) /\ ~ Cuckoo!In2(k)
        /\ UNCHANGED <<table1, table2, ck_size, h1, h2>> /\ ret' = <<k, "absent">>
    BY <1>6 DEF Cuckoo!RemoveAbsent, Cuckoo!Return
  <2>2. Cuckoo!HashTypeOK'
    BY <1>2, <2>1 DEF Cuckoo!HashTypeOK
  <2>3. CuckooInv' /\ CuckooContent' = CuckooContent
    <3>1. PICK t, u, C : t = table1' /\ u = table2' /\ C = CuckooContent
      OBVIOUS
    <3>2. CuckooWhole(t, u, NULL, C, ck_size')
      BY <2>1, <3>1 DEF CuckooInv
    <3>3. QED
      BY <2>1, <2>2, <3>1, <3>2, CuckooInvOf
  <2>4. ValueIn(CuckooContent, k) = Missing
    BY <1>3, <2>1 DEF CuckooAnswers, Cuckoo!ck_get
  <2>5. QED
    BY <2>1, <2>3, <2>4 DEF LossyStep, ContentStep
<1>7. ASSUME NEW v \in Value, Cuckoo!Update(k, v)
      PROVE  CuckooInv' /\ LossyStep(CuckooContent, CuckooContent')
  <2>1. PICK e : e = <<k, v>>
    OBVIOUS
  <2>2. /\ Cuckoo!In1(k) \/ Cuckoo!In2(k)
        /\ table1' = IF Cuckoo!In1(k) THEN [table1 EXCEPT ![Cell1(k)] = e] ELSE table1
        /\ table2' = IF Cuckoo!In1(k) THEN table2 ELSE [table2 EXCEPT ![Cell2(k)] = e]
        /\ UNCHANGED <<h1, h2>> /\ ret' = <<k, "stored">> /\ ck_size' = ck_size
    BY <1>7, <2>1 DEF Cuckoo!Update, Cuckoo!Return, Cell1, Cell2
  <2>3. Cuckoo!HashTypeOK'
    BY <1>2, <2>2 DEF Cuckoo!HashTypeOK
  <2>4. e # NULL
    BY <2>1, NullIsNoPair
  <2>5. ck_size' = ck_size - 1 + HandSize(e)
    <3>1. ck_size \in Int
      BY CuckooFacts, FilledFinite
    <3>2. QED
      BY <2>2, <2>4, <3>1 DEF HandSize
  <2>6. CuckooInv' /\ CuckooContent' = Without(CuckooContent, k) \union Hand(e)
    BY <2>1, <2>2, <2>3, <2>5, CuckooChange
  <2>7. CuckooContent' = With(CuckooContent, k, v)
    BY <2>1, <2>4, <2>6 DEF With, Hand
  <2>8. QED
    BY <2>2, <2>6, <2>7 DEF LossyStep, ContentStep
<1>8. QED
  BY <1>1, <1>5, <1>6, <1>7, CuckooInsert

-----------------------------------------------------------------------------
(* Chaining.  Every chain holds entries of its own bucket, no key twice;   *)
(* rehashing moves them one by one.                                        *)

\* What a chain holds, and that it holds no key twice.
Held(s) == {s[x] : x \in 1 .. Len(s)}
Chained(s) ==
    /\ s \in Seq(Key \X Value)
    /\ \A x, y \in 1 .. Len(s) : s[x][1] = s[y][1] => x = y

\* The entries of a chain.
LEMMA ChainFacts ==
  ASSUME NEW s, Chained(s)
  PROVE  /\ Len(s) \in Nat /\ DOMAIN s = 1 .. Len(s) /\ s \in Seq(Key \X Value)
         /\ \A x \in 1 .. Len(s) : /\ s[x] \in Key \X Value
                                   /\ s[x] = <<s[x][1], s[x][2]>>
                                   /\ s[x][1] \in Key /\ s[x][2] \in Value
         /\ \A x, y \in 1 .. Len(s) : s[x][1] = s[y][1] => x = y
         /\ Held(s) \subseteq Key \X Value
         /\ IsMap(Held(s))
<1>1. /\ s \in Seq(Key \X Value) /\ Len(s) \in Nat /\ DOMAIN s = 1 .. Len(s)
      /\ \A x \in 1 .. Len(s) : s[x] \in Key \X Value
      /\ \A x, y \in 1 .. Len(s) : s[x][1] = s[y][1] => x = y
  BY LenProperties, ElementOfSeq DEF Chained
<1>2. \A x \in 1 .. Len(s) : s[x] = <<s[x][1], s[x][2]>> /\ s[x][1] \in Key /\ s[x][2] \in Value
  BY <1>1
<1>3. Held(s) \subseteq Key \X Value
  BY <1>1 DEF Held
<1>4. IsMap(Held(s))
  BY <1>1, <1>2, <1>3 DEF IsMap, Held
<1>5. QED
  BY <1>1, <1>2, <1>3, <1>4

\* How many numbers there are up to n.
LEMMA FirstNumbers ==
  ASSUME NEW n \in Nat
  PROVE  IsFiniteSet(1 .. n) /\ Cardinality(1 .. n) = n
<1>1. IsFiniteSet(1 .. n) /\ Cardinality(1 .. n) = IF 1 > n THEN 0 ELSE n - 1 + 1
  BY FS_Interval
<1>2. QED
  BY <1>1

\* The length of a chain is the number of its entries.
LEMMA ChainLength ==
  ASSUME NEW s, Chained(s)
  PROVE  IsFiniteSet(Held(s)) /\ Cardinality(Held(s)) = Len(s)
<1> DEFINE f == [x \in 1 .. Len(s) |-> s[x]]
<1>1. Len(s) \in Nat /\ \A x, y \in 1 .. Len(s) : s[x] = s[y] => x = y
  BY ChainFacts
<1>2. f \in Bijection(1 .. Len(s), Held(s))
  <2>1. f \in [1 .. Len(s) -> Held(s)]
    BY DEF Held
  <2>2. \A x, y \in 1 .. Len(s) : f[x] = f[y] => x = y
    BY <1>1
  <2>3. \A e \in Held(s) : \E x \in 1 .. Len(s) : f[x] = e
    BY DEF Held
  <2> HIDE DEF f
  <2>4. QED
    BY <2>1, <2>2, <2>3 DEF Bijection, Injection, Surjection, IsInjective
<1>3. ExistsBijection(1 .. Len(s), Held(s))
  BY <1>2 DEF ExistsBijection
<1>4. IsFiniteSet(1 .. Len(s)) /\ Cardinality(1 .. Len(s)) = Len(s)
  BY <1>1, FirstNumbers
<1>5. QED
  BY <1>3, <1>4, FS_Bijection

\* Two chains with no key in common are one.
LEMMA JoinedChains ==
  ASSUME NEW s, Chained(s), NEW t, Chained(t),
         \A d \in Held(s), e \in Held(t) : d[1] # e[1]
  PROVE  Chained(s \o t) /\ Held(s \o t) = Held(s) \union Held(t)
<1> DEFINE m == Len(s)   n == Len(t)   u == s \o t
<1>1. m \in Nat /\ n \in Nat /\ s \in Seq(Key \X Value) /\ t \in Seq(Key \X Value)
  BY ChainFacts
<1>2. /\ u \in Seq(Key \X Value) /\ Len(u) = m + n
      /\ \A i \in 1 .. m + n : u[i] = IF i <= m THEN s[i] ELSE t[i - m]
  BY <1>1, ConcatProperties
<1>3. /\ \A x, y \in 1 .. m : s[x][1] = s[y][1] => x = y
      /\ \A x, y \in 1 .. n : t[x][1] = t[y][1] => x = y
      /\ \A x \in 1 .. m, y \in 1 .. n : s[x][1] # t[y][1]
  BY ChainFacts DEF Held
<1> HIDE DEF m, n, u
<1>4. \A i \in 1 .. m + n : (i <= m /\ i \in 1 .. m) \/ (~ (i <= m) /\ i - m \in 1 .. n)
  BY <1>1
<1>5. \A x, y \in 1 .. m + n : u[x][1] = u[y][1] => x = y
  <2>1. TAKE x \in 1 .. m + n, y \in 1 .. m + n
  <2>2. CASE x <= m /\ y <= m
    BY <1>2, <1>3, <1>4, <2>2
  <2>3. CASE x <= m /\ ~ (y <= m)
    BY <1>2, <1>3, <1>4, <2>3
  <2>4. CASE ~ (x <= m) /\ y <= m
    BY <1>2, <1>3, <1>4, <2>4
  <2>5. CASE ~ (x <= m) /\ ~ (y <= m)
    <3>1. u[x] = t[x - m] /\ u[y] = t[y - m] /\ x - m \in 1 .. n /\ y - m \in 1 .. n
      BY <1>2, <1>4, <2>5
    <3>2. x - m = y - m => x = y
      BY <1>1
    <3>3. QED
      BY <1>3, <3>1, <3>2
  <2>6. QED
    BY <2>2, <2>3, <2>4, <2>5
<1>6. Held(u) = Held(s) \union Held(t)
  <2>1. Held(u) = {u[i] : i \in 1 .. m + n} /\ Held(s) = {s[i] : i \in 1 .. m}
        /\ Held(t) = {t[i] : i \in 1 .. n}
    BY <1>2 DEF Held, m, n
  <2>2. \A i \in 1 .. m + n : u[i] \in {s[x] : x \in 1 .. m} \union {t[x] : x \in 1 .. n}
    BY <1>2, <1>4
  <2>3. \A i \in 1 .. m : i \in 1 .. m + n /\ u[i] = s[i]
    BY <1>1, <1>2
  <2>4. \A i \in 1 .. n : i + m \in 1 .. m + n /\ ~ (i + m <= m) /\ (i + m) - m = i
    BY <1>1
  <2>5. \A i \in 1 .. n : i + m \in 1 .. m + n /\ u[i + m] = t[i]
    BY <1>2, <2>4
  <2>6. QED
    BY <2>1, <2>2, <2>3, <2>5
<1>7. QED
  BY <1>2, <1>5, <1>6 DEF Chained, u

\* A chain of no entry, and of one.
LEMMA ShortChains ==
  /\ Chained(<<>>) /\ Held(<<>>) = {}
  /\ \A e \in Key \X Value : Chained(<<e>>) /\ Held(<<e>>) = {e}
<1>1. Chained(<<>>) /\ Held(<<>>) = {}
  BY EmptySeq DEF Chained, Held
<1>2. ASSUME NEW e \in Key \X Value PROVE Chained(<<e>>) /\ Held(<<e>>) = {e}
  <2>1. Len(<<e>>) = 1 /\ <<e>>[1] = e /\ <<e>> \in Seq(Key \X Value) /\ 1 .. 1 = {1}
    OBVIOUS
  <2>2. QED
    BY <2>1 DEF Chained, Held
<1>3. QED
  BY <1>1, <1>2

\* The entry in front of a chain.
LEMMA PushedChain ==
  ASSUME NEW s, Chained(s), NEW e \in Key \X Value, \A d \in Held(s) : d[1] # e[1]
  PROVE  Chained(<<e>> \o s) /\ Held(<<e>> \o s) = Held(s) \union {e}
BY JoinedChains, ShortChains

\* The entry of a key replaced.
LEMMA ReplacedInChain ==
  ASSUME NEW s, Chained(s), NEW at \in 1 .. Len(s), NEW k \in Key, s[at][1] = k, NEW v \in Value,
         NEW u, u = Placed(s, at, <<k, v>>)
  PROVE  Chained(u) /\ Held(u) = With(Held(s), k, v)
<1>1. /\ Len(s) \in Nat /\ s \in Seq(Key \X Value)
      /\ \A x \in 1 .. Len(s) : s[x] \in Key \X Value
      /\ \A x, y \in 1 .. Len(s) : s[x][1] = s[y][1] => x = y
  BY ChainFacts
<1>2. /\ u \in Seq(Key \X Value) /\ Len(u) = Len(s)
      /\ \A j \in 1 .. Len(s) : u[j] = IF j = at THEN <<k, v>> ELSE s[j]
  BY <1>1, ExceptSeq DEF Placed
<1>3. \A j \in 1 .. Len(s) : u[j][1] = s[j][1]
  <2>1. TAKE j \in 1 .. Len(s)
  <2>2. CASE j = at
    <3>1. u[j] = <<k, v>> /\ s[j][1] = k
      BY <1>2, <2>2
    <3>2. QED
      BY <3>1
  <2>3. CASE j # at
    BY Zenon, <1>2, <2>3
  <2>4. QED
    BY <2>2, <2>3
<1>4. Chained(u)
  <2>1. \A x, y \in 1 .. Len(u) : u[x][1] = u[y][1] => x = y
    <3>1. \A x, y \in 1 .. Len(s) : s[x][1] = s[y][1] => x = y
      BY <1>1
    <3>2. \A j \in 1 .. Len(s) : u[j][1] = s[j][1]
      BY <1>3
    <3>3. Len(u) = Len(s)
      BY <1>2
    <3>4. QED
      BY Zenon, <3>1, <3>2, <3>3
  <2>2. u \in Seq(Key \X Value)
    BY <1>2
  <2>3. QED
    BY Zenon, <2>1, <2>2 DEF Chained
<1>5. Held(u) = {s[j] : j \in (1 .. Len(s)) \ {at}} \union {<<k, v>>}
  BY <1>2 DEF Held
<1>6. {s[j] : j \in (1 .. Len(s)) \ {at}} = Without(Held(s), k)
  <2>1. \A j \in 1 .. Len(s) : s[j] \in {k} \X Value <=> j = at
    BY <1>1
  <2>2. QED
    BY <2>1 DEF Without, Held
<1>7. QED
  BY <1>4, <1>5, <1>6 DEF With

\* The entry of a key removed.
LEMMA RemovedFromChain ==
  ASSUME NEW s, Chained(s), NEW at \in 1 .. Len(s), NEW k \in Key, s[at][1] = k
  PROVE  Chained(Chaining!RemoveAt(s, at)) /\ Held(Chaining!RemoveAt(s, at)) = Without(Held(s), k)
<1> DEFINE n == Len(s)
           a == SubSeq(s, 1, at - 1)
           b == SubSeq(s, at + 1, n)
           u == a \o b
<1>1. /\ n \in Nat /\ s \in Seq(Key \X Value) /\ at \in 1 .. n
      /\ \A x \in 1 .. n : s[x] \in Key \X Value
      /\ \A x, y \in 1 .. n : s[x][1] = s[y][1] => x = y
  BY ChainFacts
<1> HIDE DEF n
<1>2. /\ a \in Seq(Key \X Value) /\ Len(a) = at - 1
      /\ \A i \in 1 .. at - 1 : a[i] = s[i]
  <2>1. 1 \in Int /\ at - 1 \in Int /\ \A i \in 1 .. at - 1 : i \in 1 .. n /\ 1 + i - 1 = i
    BY <1>1
  <2>2. /\ a \in Seq(Key \X Value) /\ Len(a) = IF 1 <= at - 1 THEN (at - 1) - 1 + 1 ELSE 0
        /\ \A i \in 1 .. (at - 1) - 1 + 1 : a[i] = s[1 + i - 1]
    BY <1>1, <2>1, SubSeqProperties
  <2>3. (at - 1) - 1 + 1 = at - 1 /\ (1 <= at - 1 \/ at - 1 = 0)
    BY <1>1
  <2> HIDE DEF a
  <2>4. QED
    BY <2>1, <2>2, <2>3
<1>3. /\ b \in Seq(Key \X Value) /\ Len(b) = n - at
      /\ \A i \in 1 .. n - at : b[i] = s[at + i]
  <2>1. /\ at + 1 \in Int /\ n \in Int
        /\ \A i \in at + 1 .. n : i \in 1 .. n
        /\ \A i \in 1 .. n - at : (at + 1) + i - 1 = at + i
    BY <1>1
  <2>2. /\ b \in Seq(Key \X Value) /\ Len(b) = IF at + 1 <= n THEN n - (at + 1) + 1 ELSE 0
        /\ \A i \in 1 .. n - (at + 1) + 1 : b[i] = s[(at + 1) + i - 1]
    BY <1>1, <2>1, SubSeqProperties
  <2>3. n - (at + 1) + 1 = n - at /\ (at + 1 <= n \/ n - at = 0)
    BY <1>1
  <2> HIDE DEF b
  <2>4. QED
    BY <2>1, <2>2, <2>3
<1> HIDE DEF a, b
<1>4. /\ u \in Seq(Key \X Value) /\ Len(u) = n - 1
      /\ \A i \in 1 .. n - 1 : u[i] = IF i < at THEN s[i] ELSE s[i + 1]
  <2>1. /\ u \in Seq(Key \X Value) /\ Len(u) = Len(a) + Len(b)
        /\ \A i \in 1 .. Len(a) + Len(b) : u[i] = IF i <= Len(a) THEN a[i] ELSE b[i - Len(a)]
    BY <1>2, <1>3, ConcatProperties
  <2>2. Len(a) + Len(b) = n - 1
    BY <1>1, <1>2, <1>3
  <2> HIDE DEF u
  <2>3. ASSUME NEW i \in 1 .. n - 1 PROVE u[i] = IF i < at THEN s[i] ELSE s[i + 1]
    <3>1. CASE i < at
      <4>1. i <= at - 1 /\ i \in 1 .. at - 1
        BY <1>1, <3>1
      <4>2. QED
        BY <1>2, <2>1, <2>2, <3>1, <4>1
    <3>2. CASE ~ (i < at)
      <4>1. ~ (i <= at - 1) /\ i - (at - 1) \in 1 .. n - at /\ at + (i - (at - 1)) = i + 1
        BY <1>1, <3>2
      <4>2. u[i] = b[i - (at - 1)]
        BY <1>2, <2>1, <2>2, <4>1
      <4>3. QED
        BY <1>3, <3>2, <4>1, <4>2
    <3>3. QED
      BY <3>1, <3>2
  <2>4. QED
    BY <2>1, <2>2, <2>3
<1> HIDE DEF u
<1>5. \A i \in 1 .. n - 1 : \E j \in (1 .. n) \ {at} : u[i] = s[j] /\ j = IF i < at THEN i ELSE i + 1
  <2>1. TAKE i \in 1 .. n - 1
  <2>2. CASE i < at
    <3>1. i \in (1 .. n) \ {at}
      BY <1>1, <2>2
    <3>2. QED
      BY <1>4, <2>2, <3>1
  <2>3. CASE ~ (i < at)
    <3>1. i + 1 \in (1 .. n) \ {at}
      BY <1>1, <2>3
    <3>2. QED
      BY <1>4, <2>3, <3>1
  <2>4. QED
    BY <2>2, <2>3
<1>6. \A x, y \in 1 .. n - 1 : u[x][1] = u[y][1] => x = y
  <2>1. SUFFICES ASSUME NEW x \in 1 .. n - 1, NEW y \in 1 .. n - 1, u[x][1] = u[y][1] PROVE x = y
    OBVIOUS
  <2>2. PICK i \in (1 .. n) \ {at} : u[x] = s[i] /\ i = IF x < at THEN x ELSE x + 1
    BY <1>5
  <2>3. PICK j \in (1 .. n) \ {at} : u[y] = s[j] /\ j = IF y < at THEN y ELSE y + 1
    BY <1>5
  <2>4. i = j
    BY <1>1, <2>1, <2>2, <2>3
  <2>5. QED
    BY <1>1, <2>2, <2>3, <2>4
<1>7. Held(u) = {s[j] : j \in (1 .. n) \ {at}}
  <2>1. Held(u) = {u[i] : i \in 1 .. n - 1}
    BY <1>4 DEF Held
  <2>2. ASSUME NEW j \in (1 .. n) \ {at} PROVE \E i \in 1 .. n - 1 : u[i] = s[j]
    <3>1. CASE j < at
      <4>1. j \in 1 .. n - 1
        BY <1>1, <3>1
      <4>2. QED
        BY <1>4, <3>1, <4>1
    <3>2. CASE j > at
      <4>1. j - 1 \in 1 .. n - 1 /\ ~ (j - 1 < at) /\ (j - 1) + 1 = j
        BY <1>1, <3>2
      <4>2. QED
        BY <1>4, <4>1
    <3>3. QED
      BY <1>1, <3>1, <3>2
  <2>3. \A i \in 1 .. n - 1 : u[i] \in {s[j] : j \in (1 .. n) \ {at}}
    BY <1>5
  <2>4. \A j \in (1 .. n) \ {at} : s[j] \in {u[i] : i \in 1 .. n - 1}
    BY <2>2
  <2>5. QED
    BY <2>1, <2>3, <2>4
<1>8. {s[j] : j \in (1 .. n) \ {at}} = Without(Held(s), k)
  <2>1. \A j \in 1 .. n : s[j] \in {k} \X Value <=> j = at
    BY <1>1
  <2>2. QED
    BY <2>1 DEF Without, Held, n
<1>9. Chaining!RemoveAt(s, at) = u
  BY DEF Chaining!RemoveAt, u, a, b, n
<1>10. QED
  BY <1>4, <1>6, <1>7, <1>8, <1>9 DEF Chained

\* Position is the place of the entry of a key.
LEMMA PositionInChain ==
  ASSUME NEW s, Chained(s), NEW k \in Key
  PROVE  \/ /\ Chaining!Position(s, k) \in 1 .. Len(s)
            /\ Chaining!Position(s, k) # 0
            /\ s[Chaining!Position(s, k)][1] = k
         \/ /\ Chaining!Position(s, k) = 0
            /\ \A d \in Held(s) : d[1] # k
<1> DEFINE I == {x \in 1 .. Len(s) : s[x][1] = k}
<1>1. Chaining!Position(s, k) = IF I # {} THEN CHOOSE x \in I : \A y \in I : x <= y ELSE 0
  BY DEF Chaining!Position, Chaining!SelectInSeq, Chaining!Min
<1>2. CASE I = {}
  BY <1>1, <1>2 DEF Held
<1>3. CASE I # {}
  <2>1. PICK x \in I : I = {x}
    BY <1>3, ChainFacts
  <2>2. Len(s) \in Nat
    BY ChainFacts
  <2>3. x \in Nat /\ x # 0
    BY <2>2
  <2>4. Chaining!Position(s, k) = x
    <3> HIDE DEF I
    <3>1. \A z \in I : (\A y \in I : z <= y) <=> z = x
      BY <2>1, <2>3
    <3>2. QED
      BY <1>1, <1>3, <2>1, <3>1
  <2>5. QED
    BY <2>1, <2>3, <2>4
<1>4. QED
  BY <1>2, <1>3

\* n chains, each holding the entries that belong to it.
Rows(t, n) ==
    /\ DOMAIN t = 0 .. n - 1 /\ t = [b \in 0 .. n - 1 |-> t[b]]
    /\ \A b \in 0 .. n - 1 : Chained(t[b]) /\ \A d \in Held(t[b]) : h1[d[1]] % n = b

RowsContent(t, n) == UNION {Held(t[b]) : b \in 0 .. n - 1}

\* The chain of a key is one of the table.
LEMMA RowOfKey ==
  ASSUME Chaining!HashTypeOK, NEW n \in Nat \ {0}, NEW k \in Key
  PROVE  h1[k] % n \in 0 .. n - 1
<1>1. h1[k] \in Hash1
  BY DEF Chaining!HashTypeOK
<1>2. h1[k] \in Nat
  BY <1>1, HashAssumption
<1>3. QED
  BY <1>2

\* One chain gets another content, of entries that belong to it.
LEMMA RowChanged ==
  ASSUME NEW n \in Nat \ {0}, NEW t, Rows(t, n), NEW b0 \in 0 .. n - 1,
         NEW s, Chained(s), \A d \in Held(s) : h1[d[1]] % n = b0,
         NEW w, w = Placed(t, b0, s)
  PROVE  /\ Rows(w, n)
         /\ RowsContent(w, n) = (RowsContent(t, n) \ Held(t[b0])) \union Held(s)
<1>1. DOMAIN w = 0 .. n - 1 /\ w = [b \in 0 .. n - 1 |-> w[b]]
      /\ \A b \in 0 .. n - 1 : w[b] = IF b = b0 THEN s ELSE t[b]
  BY DEF Rows, Placed
<1>2. Rows(w, n)
  BY <1>1 DEF Rows
<1>3. \A b, c \in 0 .. n - 1 : b # c => Held(t[b]) \intersect Held(t[c]) = {}
  BY DEF Rows
<1>4. ASSUME NEW d, d \in RowsContent(w, n)
      PROVE  d \in (RowsContent(t, n) \ Held(t[b0])) \union Held(s)
  <2>1. PICK b \in 0 .. n - 1 : d \in Held(w[b])
    BY <1>4 DEF RowsContent
  <2>2. CASE b = b0
    BY <1>1, <2>1, <2>2
  <2>3. CASE b # b0
    <3>1. d \in Held(t[b]) /\ d \notin Held(t[b0])
      BY <1>1, <1>3, <2>1, <2>3
    <3>2. QED
      BY <3>1 DEF RowsContent
  <2>4. QED
    BY <2>2, <2>3
<1>5. ASSUME NEW d, d \in (RowsContent(t, n) \ Held(t[b0])) \union Held(s)
      PROVE  d \in RowsContent(w, n)
  <2>1. CASE d \in Held(s)
    BY <1>1, <2>1 DEF RowsContent
  <2>2. CASE d \in RowsContent(t, n) \ Held(t[b0])
    <3>1. PICK b \in 0 .. n - 1 : d \in Held(t[b])
      BY <2>2 DEF RowsContent
    <3>2. b # b0
      BY <2>2, <3>1
    <3>3. QED
      BY <1>1, <3>1, <3>2 DEF RowsContent
  <2>3. QED
    BY <1>5, <2>1, <2>2
<1>6. QED
  BY <1>2, <1>4, <1>5

\* What a table of chains shows.
LEMMA RowsFacts ==
  ASSUME Chaining!HashTypeOK, NEW n \in Nat \ {0}, NEW t, Rows(t, n)
  PROVE  /\ IsMap(RowsContent(t, n))
         /\ \A k \in Key : \A d \in RowsContent(t, n) :
               d[1] = k => d \in Held(t[h1[k] % n])
         /\ \A b \in 0 .. n - 1 : Chained(t[b]) /\ Held(t[b]) \subseteq RowsContent(t, n)
<1>1. \A b \in 0 .. n - 1 : Chained(t[b]) /\ \A d \in Held(t[b]) : h1[d[1]] % n = b
  BY DEF Rows
<1>2. \A k \in Key : \A d \in RowsContent(t, n) : d[1] = k => d \in Held(t[h1[k] % n])
  BY <1>1 DEF RowsContent
<1>3. RowsContent(t, n) \subseteq Key \X Value
  <2>1. \A b \in 0 .. n - 1 : Held(t[b]) \subseteq Key \X Value
    BY <1>1, ChainFacts
  <2>2. QED
    BY <2>1 DEF RowsContent
<1>4. ASSUME NEW k \in Key, NEW v \in Value, NEW w \in Value,
             <<k, v>> \in RowsContent(t, n), <<k, w>> \in RowsContent(t, n)
      PROVE  v = w
  <2>1. PICK b \in 0 .. n - 1 : b = h1[k] % n
    BY RowOfKey
  <2>2. <<k, v>> \in Held(t[b]) /\ <<k, w>> \in Held(t[b])
    BY <1>2, <1>4, <2>1
  <2>3. IsMap(Held(t[b]))
    BY <1>1, ChainFacts
  <2>4. QED
    BY <2>2, <2>3 DEF IsMap
<1>5. IsMap(RowsContent(t, n))
  BY <1>3, <1>4 DEF IsMap
<1>6. QED
  BY <1>1, <1>2, <1>5 DEF RowsContent

\* A new entry in front of its chain.
LEMMA RowPushed ==
  ASSUME Chaining!HashTypeOK, NEW n \in Nat \ {0}, NEW t, Rows(t, n),
         NEW e \in Key \X Value, \A d \in RowsContent(t, n) : d[1] # e[1],
         NEW w, w = Placed(t, h1[e[1]] % n, <<e>> \o t[h1[e[1]] % n])
  PROVE  Rows(w, n) /\ RowsContent(w, n) = RowsContent(t, n) \union {e}
<1>1. PICK b0 \in 0 .. n - 1 : b0 = h1[e[1]] % n
  BY RowOfKey
<1>2. Chained(t[b0]) /\ Held(t[b0]) \subseteq RowsContent(t, n)
  BY RowsFacts
<1>3. PICK s : s = <<e>> \o t[b0]
  OBVIOUS
<1>4. Chained(s) /\ Held(s) = Held(t[b0]) \union {e}
  BY <1>2, <1>3, PushedChain
<1>5. \A d \in Held(s) : h1[d[1]] % n = b0
  BY <1>1, <1>4 DEF Rows
<1>6. w = Placed(t, b0, s)
  BY <1>1, <1>3
<1>7. Rows(w, n) /\ RowsContent(w, n) = (RowsContent(t, n) \ Held(t[b0])) \union Held(s)
  BY <1>4, <1>5, <1>6, RowChanged
<1>8. QED
  BY <1>2, <1>4, <1>7

\* FlattenSeq of n chains, as a recursive function; it exists.
FlatUpTo(f, g, n) == f = [i \in 1 .. n |-> IF i = 1 THEN g[i] ELSE f[i - 1] \o g[i]]

Flat(g) == CHOOSE f : FlatUpTo(f, g, Len(g))

\* Chains can be flattened one after the other, as far as wanted.
LEMMA FlatExists ==
  ASSUME NEW g, NEW n \in Nat
  PROVE  \E f : FlatUpTo(f, g, n)
<1> DEFINE S == {m \in Nat : \E f : FlatUpTo(f, g, m)}
<1>1. 0 \in S
  <2> DEFINE f == [i \in 1 .. 0 |-> <<>>]
  <2>1. FlatUpTo(f, g, 0)
    BY DEF FlatUpTo
  <2>2. QED
    BY <2>1
<1>2. ASSUME NEW m \in S PROVE m + 1 \in S
  <2>1. PICK f : FlatUpTo(f, g, m)
    OBVIOUS
  <2> DEFINE h == [i \in 1 .. m + 1 |-> IF i = m + 1 /\ i # 1 THEN f[m] \o g[i]
                                        ELSE IF i = 1 THEN g[i] ELSE f[i]]
  <2>2. m \in Nat /\ \A i \in 1 .. m + 1 : i = m + 1 \/ i \in 1 .. m
    OBVIOUS
  <2>3. \A i \in 1 .. m : f[i] = IF i = 1 THEN g[i] ELSE f[i - 1] \o g[i]
    BY <2>1 DEF FlatUpTo
  <2>4. \A i \in 1 .. m : h[i] = f[i]
    BY <2>2, <2>3
  <2>5. \A i \in 1 .. m + 1 : h[i] = IF i = 1 THEN g[i] ELSE h[i - 1] \o g[i]
    <3>1. TAKE i \in 1 .. m + 1
    <3>2. CASE i = 1
      BY <3>2
    <3>3. CASE i # 1 /\ i = m + 1
      <4>1. m \in 1 .. m /\ i - 1 = m
        BY <2>2, <3>3
      <4>2. h[i - 1] = f[m]
        BY <2>4, <4>1
      <4>3. h[i] = f[m] \o g[i]
        BY <3>3
      <4>4. QED
        BY <3>3, <4>2, <4>3
    <3>4. CASE i # 1 /\ i # m + 1
      <4>1. i \in 1 .. m /\ i - 1 \in 1 .. m
        BY <2>2, <3>4
      <4>2. QED
        BY <2>3, <2>4, <3>4, <4>1
    <3>5. QED
      BY <3>2, <3>3, <3>4
  <2>6. h = [i \in 1 .. m + 1 |-> h[i]]
    OBVIOUS
  <2> HIDE DEF h
  <2>7. FlatUpTo(h, g, m + 1)
    BY <2>5, <2>6 DEF FlatUpTo
  <2>8. QED
    BY <2>2, <2>7
<1>3. S = Nat
  BY <1>1, <1>2, SetInduction
<1>4. QED
  BY <1>3

\* The chains of a table one after the other: every entry of the table, once.
LEMMA AllEntries ==
  ASSUME NEW n \in Nat \ {0}, NEW t, Rows(t, n),
         NEW g, g = [b \in 1 .. n |-> t[b - 1]]
  PROVE  /\ Chained(Chaining!FlattenSeq(g))
         /\ Held(Chaining!FlattenSeq(g)) = RowsContent(t, n)
<1>1. Len(g) = n /\ n \in Nat /\ n # 0 /\ \A b \in 1 .. n : g[b] = t[b - 1]
  OBVIOUS
<1>2. Chaining!FlattenSeq(g) = Flat(g)[n]
  BY <1>1 DEF Chaining!FlattenSeq, Flat, FlatUpTo
<1>3. PICK f : f = Flat(g) /\ FlatUpTo(f, g, n)
  BY <1>1, FlatExists DEF Flat
<1>4. \A i \in 1 .. n : f[i] = IF i = 1 THEN g[i] ELSE f[i - 1] \o g[i]
  BY <1>3 DEF FlatUpTo
<1>5. \A b \in 0 .. n - 1 : Chained(t[b]) /\ \A d \in Held(t[b]) : h1[d[1]] % n = b
  BY DEF Rows
<1> DEFINE Union(m) == UNION {Held(t[b]) : b \in 0 .. m - 1}
           Good(m) == m \in 1 .. n => Chained(f[m]) /\ Held(f[m]) = Union(m)
           S == {m \in Nat : Good(m)}
<1>6. 0 \in S
  OBVIOUS
<1>7. ASSUME NEW m \in S PROVE m + 1 \in S
  <2>1. SUFFICES ASSUME m + 1 \in 1 .. n PROVE Good(m + 1)
    OBVIOUS
  <2>2. m \in 0 .. n - 1 /\ g[m + 1] = t[m]
    BY <1>1, <2>1
  <2>3. CASE m = 0
    <3>1. f[1] = t[0]
      BY <1>1, <1>4, <2>2, <2>3
    <3>2. Union(1) = Held(t[0])
      OBVIOUS
    <3> HIDE DEF Union
    <3>3. QED
      BY <1>5, <2>2, <2>3, <3>1, <3>2
  <2>4. CASE m # 0
    <3>1. m \in 1 .. n /\ m + 1 # 1 /\ (m + 1) - 1 = m
      BY <2>2, <2>4
    <3>2. f[m + 1] = f[m] \o t[m]
      BY <1>4, <2>1, <2>2, <3>1
    <3>3. Chained(f[m]) /\ Held(f[m]) = Union(m) /\ Chained(t[m])
      BY <1>5, <2>2, <3>1
    <3>4. \A d \in Held(f[m]), e \in Held(t[m]) : d[1] # e[1]
      <4>1. \A d \in Union(m) : \E b \in 0 .. m - 1 : d \in Held(t[b])
        OBVIOUS
      <4>2. \A b \in 0 .. m - 1 : b \in 0 .. n - 1 /\ b # m
        BY <2>2
      <4> HIDE DEF Union
      <4>3. QED
        BY <1>5, <2>2, <3>3, <4>1, <4>2
    <3>5. Union(m + 1) = Union(m) \union Held(t[m])
      <4>1. 0 .. m = (0 .. m - 1) \union {m} /\ (m + 1) - 1 = m
        BY <2>2
      <4>2. QED
        BY <4>1
    <3> HIDE DEF Union
    <3>6. Chained(f[m] \o t[m]) /\ Held(f[m] \o t[m]) = Held(f[m]) \union Held(t[m])
      BY <3>3, <3>4, JoinedChains
    <3>7. QED
      BY <3>2, <3>3, <3>5, <3>6
  <2>5. QED
    BY <2>3, <2>4
<1>8. S = Nat
  <2>1. S \in SUBSET Nat
    OBVIOUS
  <2> HIDE DEF S
  <2>2. QED
    BY <1>6, <1>7, <2>1, SetInduction
<1>9. Good(n)
  BY <1>1, <1>8
<1>10. QED
  BY <1>1, <1>2, <1>3, <1>9 DEF RowsContent

\* The moves of a rehashing, as a recursive function; it exists.
MovesUpTo(f, all, n, m) ==
    f = [i \in 0 .. m |->
            IF i = 0 THEN [b \in 0 .. 2 * n - 1 |-> <<>>]
            ELSE [f[i - 1] EXCEPT ![h1[all[i][1]] % (2 * n)] = <<all[i]>> \o @]]

Moved(all, n) == CHOOSE f : MovesUpTo(f, all, n, Len(all))

\* The loop of hm_rehash moves any number of entries.
LEMMA MovesExist ==
  ASSUME NEW all, NEW n, NEW m \in Nat
  PROVE  \E f : MovesUpTo(f, all, n, m)
<1> DEFINE Next1(p, i) == [p EXCEPT ![h1[all[i][1]] % (2 * n)] = <<all[i]>> \o @]
           First1 == [b \in 0 .. 2 * n - 1 |-> <<>>]
           Is(f, l) == f = [i \in 0 .. l |-> IF i = 0 THEN First1 ELSE Next1(f[i - 1], i)]
           S == {l \in Nat : \E f : Is(f, l)}
<1>1. 0 \in S
  <2> DEFINE f == [i \in 0 .. 0 |-> First1]
  <2> HIDE DEF First1, Next1
  <2>1. Is(f, 0)
    OBVIOUS
  <2>2. QED
    BY <2>1
<1>2. ASSUME NEW l \in S PROVE l + 1 \in S
  <2> HIDE DEF First1, Next1
  <2>1. PICK f : Is(f, l)
    OBVIOUS
  <2> DEFINE g == [i \in 0 .. l + 1 |-> IF i = l + 1 THEN Next1(f[l], l + 1) ELSE f[i]]
  <2>2. l \in Nat /\ \A i \in 0 .. l + 1 : i = l + 1 \/ i \in 0 .. l
    OBVIOUS
  <2>3. \A i \in 0 .. l : f[i] = IF i = 0 THEN First1 ELSE Next1(f[i - 1], i)
    BY <2>1
  <2>4. \A i \in 0 .. l + 1 : g[i] = IF i = 0 THEN First1 ELSE Next1(g[i - 1], i)
    BY <2>2, <2>3
  <2>5. g = [i \in 0 .. l + 1 |-> g[i]]
    OBVIOUS
  <2> HIDE DEF g
  <2>6. Is(g, l + 1)
    BY <2>4, <2>5
  <2>7. QED
    BY <2>2, <2>6
<1>3. S = Nat
  <2> HIDE DEF Is
  <2>1. S \in SUBSET Nat
    OBVIOUS
  <2> HIDE DEF S
  <2>2. QED
    BY <1>1, <1>2, <2>1, SetInduction
<1>4. \E f : Is(f, m)
  BY <1>3
<1>5. QED
  BY <1>4 DEF MovesUpTo

HmContent == RowsContent(buckets, bucket_count)

HmInv ==
    /\ Chaining!HashTypeOK
    /\ bucket_count \in Nat \ {0}
    /\ Rows(buckets, bucket_count)
    /\ hm_size = Cardinality(HmContent)

\* All the entries of the table, in the order of its buckets.
HmEntries == Chaining!FlattenSeq([b \in 1 .. bucket_count |-> buckets[b - 1]])

\* The chains one after the other are the content, no entry twice, and hm_size their
\* length.
LEMMA EntriesOfTable ==
  ASSUME HmInv
  PROVE  /\ Chained(HmEntries) /\ Held(HmEntries) = HmContent
         /\ IsFiniteSet(HmContent) /\ Len(HmEntries) = hm_size /\ hm_size \in Nat
<1>1. PICK g : g = [b \in 1 .. bucket_count |-> buckets[b - 1]]
  OBVIOUS
<1>2. Chained(Chaining!FlattenSeq(g)) /\ Held(Chaining!FlattenSeq(g)) = HmContent
  BY <1>1, AllEntries DEF HmInv, HmContent
<1>3. Chained(HmEntries) /\ Held(HmEntries) = HmContent
  BY <1>1, <1>2 DEF HmEntries
<1>4. IsFiniteSet(HmContent) /\ Cardinality(HmContent) = Len(HmEntries)
  BY <1>3, ChainLength
<1>5. Len(HmEntries) \in Nat
  BY <1>3, ChainFacts
<1>6. QED
  BY <1>3, <1>4, <1>5 DEF HmInv

\* The two properties the runs check of the table.
LEMMA HmShows ==
  HmInv => Chaining!TypeOK /\ Chaining!TableExact
<1> SUFFICES ASSUME HmInv PROVE Chaining!TypeOK /\ Chaining!TableExact
  OBVIOUS
<1>1. /\ Chaining!HashTypeOK /\ bucket_count \in Nat \ {0} /\ Rows(buckets, bucket_count)
  BY DEF HmInv
<1>2. hm_size = Len(HmEntries) /\ hm_size \in Nat
  BY EntriesOfTable
<1>3. \A b \in 0 .. bucket_count - 1 :
        /\ Chained(buckets[b])
        /\ \A d \in Held(buckets[b]) : h1[d[1]] % bucket_count = b
  BY <1>1 DEF Rows
<1>4. \A b \in 0 .. bucket_count - 1 :
        /\ DOMAIN buckets[b] = 1 .. Len(buckets[b])
        /\ Held(buckets[b]) \subseteq Key \X Value
        /\ \A x, y \in 1 .. Len(buckets[b]) : buckets[b][x][1] = buckets[b][y][1] => x = y
  BY <1>3, ChainFacts
<1>5. DOMAIN buckets = 0 .. bucket_count - 1
  BY <1>1 DEF Rows
<1>6. \A b \in 0 .. bucket_count - 1 : Chaining!ToSet(buckets[b]) = Held(buckets[b])
  BY <1>4 DEF Chaining!ToSet, Held
<1>7. Chaining!TypeOK
  BY <1>1, <1>2, <1>4, <1>5, <1>6 DEF Chaining!TypeOK
<1>8. \A b \in 0 .. bucket_count - 1 : \A x, y \in DOMAIN buckets[b] :
        /\ h1[buckets[b][x][1]] % bucket_count = b
        /\ buckets[b][x][1] = buckets[b][y][1] => x = y
  BY <1>3, <1>4 DEF Held
<1>9. Chaining!TableExact
  BY <1>2, <1>5, <1>8 DEF Chaining!TableExact, HmEntries
<1>10. QED
  BY <1>7, <1>9

\* What hm_get finds.
HmAnswers ==
    /\ IsMap(HmContent)
    /\ \A k \in Key : Chaining!hm_get(k) = ValueIn(HmContent, k)

\* A lookup in the chain of a key finds the content.
LEMMA HmFindsContent ==
  HmInv => HmAnswers
<1> SUFFICES ASSUME HmInv PROVE HmAnswers
  OBVIOUS
<1>1. /\ Chaining!HashTypeOK /\ bucket_count \in Nat \ {0} /\ Rows(buckets, bucket_count)
  BY DEF HmInv
<1>2. /\ IsMap(HmContent)
      /\ \A k \in Key : \A d \in HmContent : d[1] = k => d \in Held(buckets[h1[k] % bucket_count])
      /\ \A b \in 0 .. bucket_count - 1 : Chained(buckets[b]) /\ Held(buckets[b]) \subseteq HmContent
  BY <1>1, RowsFacts DEF HmContent
<1>3. ASSUME NEW k \in Key PROVE Chaining!hm_get(k) = ValueIn(HmContent, k)
  <2>1. PICK b \in 0 .. bucket_count - 1 : b = h1[k] % bucket_count
    BY <1>1, RowOfKey
  <2>2. PICK at : at = Chaining!Position(buckets[b], k)
    OBVIOUS
  <2>3. Chaining!hm_get(k) = IF at = 0 THEN Missing ELSE buckets[b][at][2]
    BY <2>1, <2>2 DEF Chaining!hm_get
  <2>4. CASE at \in 1 .. Len(buckets[b]) /\ at # 0 /\ buckets[b][at][1] = k
    <3>1. buckets[b][at] = <<k, buckets[b][at][2]>> /\ buckets[b][at][2] \in Value
      BY <1>2, <2>4, ChainFacts
    <3>2. <<k, buckets[b][at][2]>> \in HmContent
      BY <1>2, <2>4, <3>1 DEF Held
    <3>3. QED
      BY <1>2, <2>3, <2>4, <3>1, <3>2, ValueOfPair
  <2>5. CASE at = 0 /\ \A d \in Held(buckets[b]) : d[1] # k
    <3>1. ~ \E v \in Value : <<k, v>> \in HmContent
      BY <1>2, <2>1, <2>5
    <3>2. QED
      BY <2>3, <2>5, <3>1, ValueInIsValue
  <2>6. QED
    BY <1>2, <2>2, <2>4, <2>5, PositionInChain
<1>4. QED
  BY <1>2, <1>3 DEF HmAnswers

\* A table twice as large holds the same after a rehashing.
LEMMA RehashKeeps ==
  ASSUME HmInv
  PROVE  /\ Rows(Chaining!Rehashed, 2 * bucket_count)
         /\ RowsContent(Chaining!Rehashed, 2 * bucket_count) = HmContent
<1>1. PICK all, m, n : all = HmEntries /\ m = Len(all) /\ n = 2 * bucket_count
  OBVIOUS
<1>2. /\ Chained(all) /\ Held(all) = HmContent /\ m \in Nat
      /\ n \in Nat \ {0} /\ Chaining!HashTypeOK
  BY <1>1, EntriesOfTable DEF HmInv
<1>3. Chaining!Rehashed = Moved(all, bucket_count)[m]
  BY <1>1 DEF Chaining!Rehashed, Moved, MovesUpTo, HmEntries
<1>4. PICK f : f = Moved(all, bucket_count) /\ MovesUpTo(f, all, bucket_count, m)
  BY <1>1, <1>2, MovesExist DEF Moved
<1>5. /\ f[0] = [b \in 0 .. n - 1 |-> <<>>]
      /\ \A i \in 1 .. m : f[i] =
            Placed(f[i - 1], h1[all[i][1]] % n, <<all[i]>> \o f[i - 1][h1[all[i][1]] % n])
  <2>1. \A i \in 0 .. m : f[i] =
          IF i = 0 THEN [b \in 0 .. n - 1 |-> <<>>]
          ELSE Placed(f[i - 1], h1[all[i][1]] % n, <<all[i]>> \o f[i - 1][h1[all[i][1]] % n])
    BY <1>1, <1>4 DEF MovesUpTo, Placed
  <2>2. 0 \in 0 .. m /\ \A i \in 1 .. m : i \in 0 .. m /\ i # 0
    BY <1>2
  <2>3. QED
    BY <2>1, <2>2
<1>6. /\ \A x \in 1 .. m : all[x] \in Key \X Value
      /\ \A x, y \in 1 .. m : all[x][1] = all[y][1] => x = y
  BY <1>1, <1>2, ChainFacts
<1> DEFINE Part(i) == {all[x] : x \in 1 .. i}
           Good(i) == i \in 0 .. m => Rows(f[i], n) /\ RowsContent(f[i], n) = Part(i)
           S == {i \in Nat : Good(i)}
<1>7. 0 \in S
  <2>1. f[0] = [b \in 0 .. n - 1 |-> <<>>]
    BY <1>5
  <2>2. Rows(f[0], n)
    BY <2>1, ShortChains DEF Rows
  <2>3. RowsContent(f[0], n) = {}
    BY <2>1, ShortChains DEF RowsContent
  <2>4. Part(0) = {}
    OBVIOUS
  <2> HIDE DEF Part
  <2>5. QED
    BY <2>2, <2>3, <2>4
<1>8. ASSUME NEW i \in S PROVE i + 1 \in S
  <2>1. SUFFICES ASSUME i + 1 \in 0 .. m PROVE Good(i + 1)
    OBVIOUS
  <2>2. i \in 0 .. m /\ i + 1 \in 1 .. m /\ i + 1 # 0 /\ (i + 1) - 1 = i
    BY <1>2, <2>1
  <2>3. Rows(f[i], n) /\ RowsContent(f[i], n) = Part(i)
    BY <2>2
  <2>4. PICK e \in Key \X Value : e = all[i + 1]
    BY <1>6, <2>2
  <2>5. \A d \in Part(i) : d[1] # e[1]
    <3>1. \A x \in 1 .. i : x \in 1 .. m /\ x # i + 1
      BY <1>2, <2>2
    <3>2. QED
      BY <1>6, <2>2, <2>4, <3>1
  <2>6. f[i + 1] = Placed(f[i], h1[e[1]] % n, <<e>> \o f[i][h1[e[1]] % n])
    BY <1>5, <2>1, <2>2, <2>4
  <2>7. Part(i + 1) = Part(i) \union {e}
    <3>1. 1 .. i + 1 = (1 .. i) \union {i + 1}
      BY <2>2
    <3>2. QED
      BY <2>4, <3>1
  <2> HIDE DEF Part
  <2>8. Rows(f[i + 1], n) /\ RowsContent(f[i + 1], n) = RowsContent(f[i], n) \union {e}
    BY <1>2, <2>3, <2>5, <2>6, RowPushed
  <2>9. QED
    BY <2>3, <2>7, <2>8
<1>9. S = Nat
  <2>1. S \in SUBSET Nat
    OBVIOUS
  <2> HIDE DEF S
  <2>2. QED
    BY <1>7, <1>8, <2>1, SetInduction
<1>10. Rows(f[m], n) /\ RowsContent(f[m], n) = Held(all)
  <2>1. Part(m) = Held(all)
    BY <1>1 DEF Held
  <2>2. QED
    BY <1>2, <1>9, <2>1
<1>11. Rows(f[m], n) /\ RowsContent(f[m], n) = HmContent
  BY <1>2, <1>10
<1>12. Chaining!Rehashed = f[m]
  BY <1>3, <1>4
<1>13. QED
  BY <1>1, <1>11, <1>12

\* The first table is empty.
LEMMA HmInit ==
  ASSUME Chaining!Init
  PROVE  HmInv /\ HmContent = {}
<1>1. /\ bucket_count \in Nat \ {0} /\ buckets = [b \in 0 .. bucket_count - 1 |-> <<>>] /\ hm_size = 0
  BY TablesAssumption DEF Chaining!Init
<1>2. Rows(buckets, bucket_count)
  BY <1>1, ShortChains DEF Rows
<1>3. HmContent = {}
  BY <1>1, ShortChains DEF RowsContent, HmContent
<1>4. Chaining!HashTypeOK
  BY DEF Chaining!Init, Chaining!HashInit, Chaining!HashTypeOK
<1>5. QED
  BY <1>1, <1>2, <1>3, <1>4, FS_EmptySet DEF HmInv

\* The table as its next state and what that holds.
LEMMA HmInvOf ==
  ASSUME Chaining!HashTypeOK', UNCHANGED <<h1, h2>>,
         NEW n \in Nat \ {0}, n = bucket_count', NEW t, t = buckets', Rows(t, n),
         hm_size' = Cardinality(RowsContent(t, n))
  PROVE  HmInv' /\ HmContent' = RowsContent(t, n)
<1>1. HmContent' = RowsContent(t, n)
  BY DEF HmContent, RowsContent
<1>2. Rows(buckets, bucket_count)'
  BY DEF Rows
<1>3. QED
  BY <1>1, <1>2 DEF HmInv

\* A put, in the table hm_put searches: of n buckets t, with the old content.
LEMMA HmStore ==
  ASSUME HmInv, NEW k \in Key, NEW v \in Value,
         NEW n \in Nat \ {0}, NEW t, Rows(t, n), RowsContent(t, n) = HmContent,
         NEW at, at = Chaining!Position(t[h1[k] % n], k),
         bucket_count' = n, UNCHANGED <<h1, h2>>, Chaining!HashTypeOK',
         at # 0 => /\ buckets' = [t EXCEPT ![h1[k] % n][at] = <<k, v>>]
                   /\ UNCHANGED hm_size,
         at = 0 => /\ buckets' = [t EXCEPT ![h1[k] % n] = <<<<k, v>>>> \o @]
                   /\ hm_size' = hm_size + 1
  PROVE  HmInv' /\ HmContent' = With(HmContent, k, v)
<1>1. Chaining!HashTypeOK /\ hm_size = Cardinality(HmContent)
  BY DEF HmInv
<1>2. IsFiniteSet(HmContent)
  BY EntriesOfTable
<1>3. PICK b \in 0 .. n - 1 : b = h1[k] % n
  BY <1>1, RowOfKey
<1>4. /\ IsMap(HmContent)
      /\ \A d \in HmContent : d[1] = k => d \in Held(t[b])
      /\ Chained(t[b]) /\ Held(t[b]) \subseteq HmContent
  BY <1>1, <1>3, RowsFacts
<1>5. PICK e \in Key \X Value : e = <<k, v>>
  OBVIOUS
<1>6. PICK u : u = buckets'
  OBVIOUS
<1>7. CASE at # 0
  <2>1. at \in 1 .. Len(t[b]) /\ t[b][at][1] = k
    BY <1>3, <1>4, <1>7, PositionInChain
  <2>2. PICK s : s = Placed(t[b], at, <<k, v>>)
    OBVIOUS
  <2>3. Chained(s) /\ Held(s) = With(Held(t[b]), k, v)
    BY <1>4, <2>1, <2>2, ReplacedInChain
  <2>4. u = Placed(t, b, s)
    BY <1>3, <1>6, <1>7, <2>2 DEF Placed
  <2>5. \A d \in Held(s) : h1[d[1]] % n = b
    BY <1>3, <2>3 DEF With, Without, Rows
  <2>6. Rows(u, n) /\ RowsContent(u, n) = (HmContent \ Held(t[b])) \union Held(s)
    BY <2>3, <2>4, <2>5, RowChanged
  <2>7. RowsContent(u, n) = With(HmContent, k, v)
    BY <1>4, <2>3, <2>6 DEF With, Without
  <2>8. PICK w \in Value : <<k, w>> \in HmContent
    <3>1. t[b][at] = <<k, t[b][at][2]>> /\ t[b][at][2] \in Value
      BY <1>4, <2>1, ChainFacts
    <3>2. <<k, t[b][at][2]>> \in HmContent
      BY <1>4, <2>1, <3>1 DEF Held
    <3>3. QED
      BY <3>1, <3>2
  <2>9. Cardinality(With(HmContent, k, v)) = Cardinality(HmContent)
    BY <1>2, <1>4, <2>8, ContentSize
  <2>10. hm_size' = Cardinality(RowsContent(u, n))
    BY <1>1, <1>7, <2>7, <2>9
  <2>11. QED
    BY <1>6, <2>6, <2>7, <2>10, HmInvOf
<1>8. CASE at = 0
  <2>1. \A d \in Held(t[b]) : d[1] # k
    BY <1>3, <1>4, <1>8, PositionInChain
  <2>2. \A d \in HmContent : d[1] # e[1]
    BY <1>4, <1>5, <2>1
  <2>3. u = Placed(t, h1[e[1]] % n, <<e>> \o t[h1[e[1]] % n])
    BY <1>5, <1>6, <1>8 DEF Placed
  <2>4. Rows(u, n) /\ RowsContent(u, n) = HmContent \union {e}
    BY <1>1, <2>2, <2>3, RowPushed
  <2>5. RowsContent(u, n) = With(HmContent, k, v)
    BY <1>5, <2>2, <2>4 DEF With, Without
  <2>6. Cardinality(With(HmContent, k, v)) = Cardinality(HmContent) + 1
    <3>1. ~ \E w \in Value : <<k, w>> \in HmContent
      BY <1>5, <2>2
    <3>2. QED
      BY <1>2, <1>4, <3>1, ContentSize
  <2>7. hm_size' = Cardinality(RowsContent(u, n))
    BY <1>1, <1>8, <2>5, <2>6
  <2>8. QED
    BY <1>6, <2>4, <2>5, <2>7, HmInvOf
<1>9. QED
  BY <1>7, <1>8

\* hm_put, which rehashes a crowded table first, stores its pair.
LEMMA HmPut ==
  ASSUME HmInv, NEW k \in Key, NEW v \in Value, Chaining!Put(k, v)
  PROVE  HmInv' /\ HmContent' = With(HmContent, k, v)
<1>1. PICK n : n = IF Chaining!Crowded THEN 2 * bucket_count ELSE bucket_count
  OBVIOUS
<1>2. PICK t : t = Chaining!Table
  OBVIOUS
<1>3. n \in Nat \ {0} /\ Rows(t, n) /\ RowsContent(t, n) = HmContent
  <2>1. bucket_count \in Nat \ {0} /\ Rows(buckets, bucket_count)
    BY DEF HmInv
  <2>2. CASE Chaining!Crowded
    <3>1. n = 2 * bucket_count /\ t = Chaining!Rehashed
      BY <1>1, <1>2, <2>2 DEF Chaining!Table
    <3>2. QED
      BY <2>1, <3>1, RehashKeeps
  <2>3. CASE ~ Chaining!Crowded
    <3>1. n = bucket_count /\ t = buckets
      BY <1>1, <1>2, <2>3 DEF Chaining!Table
    <3>2. QED
      BY <2>1, <3>1 DEF HmContent
  <2>4. QED
    BY <2>2, <2>3
<1>4. PICK at : at = Chaining!Position(t[h1[k] % n], k)
  OBVIOUS
<1>5. /\ bucket_count' = n
      /\ IF at # 0
           THEN /\ buckets' = [t EXCEPT ![h1[k] % n][at] = <<k, v>>]
                /\ UNCHANGED hm_size
           ELSE /\ buckets' = [t EXCEPT ![h1[k] % n] = <<<<k, v>>>> \o @]
                /\ hm_size' = hm_size + 1
      /\ Chaining!Return(k, "stored")
  BY <1>1, <1>2, <1>4 DEF Chaining!Put
<1>6. UNCHANGED <<h1, h2>> /\ Chaining!HashTypeOK'
  BY <1>5 DEF Chaining!Return, Chaining!HashTypeOK, HmInv
<1>7. QED
  BY <1>3, <1>4, <1>5, <1>6, HmStore

\* hm_remove takes the entry of its key out of the chain.
LEMMA HmRemoveKey ==
  ASSUME HmInv, NEW k \in Key, Chaining!RemoveKey(k)
  PROVE  /\ HmInv' /\ HmContent' = Without(HmContent, k)
         /\ ValueIn(HmContent, k) # Missing
<1>1. /\ Chaining!HashTypeOK /\ bucket_count \in Nat \ {0} /\ Rows(buckets, bucket_count)
      /\ hm_size = Cardinality(HmContent)
  BY DEF HmInv
<1>2. IsFiniteSet(HmContent)
  BY EntriesOfTable
<1>3. PICK b \in 0 .. bucket_count - 1 : b = h1[k] % bucket_count
  BY <1>1, RowOfKey
<1>4. /\ IsMap(HmContent)
      /\ \A d \in HmContent : d[1] = k => d \in Held(buckets[b])
      /\ Chained(buckets[b]) /\ Held(buckets[b]) \subseteq HmContent
  BY <1>1, <1>3, RowsFacts DEF HmContent
<1>5. PICK at : at = Chaining!Position(buckets[b], k)
  OBVIOUS
<1>6. PICK n, u, s : n = bucket_count /\ u = buckets' /\ s = Chaining!RemoveAt(buckets[b], at)
  OBVIOUS
<1>7. /\ at # 0 /\ u = Placed(buckets, b, s) /\ hm_size' = hm_size - 1
      /\ n = bucket_count' /\ UNCHANGED <<h1, h2>> /\ ret' = <<k, "removed">>
  BY <1>3, <1>5, <1>6 DEF Chaining!RemoveKey, Chaining!Return, Placed
<1>8. Chaining!HashTypeOK'
  BY <1>1, <1>7 DEF Chaining!HashTypeOK
<1>9. at \in 1 .. Len(buckets[b]) /\ buckets[b][at][1] = k
  BY <1>4, <1>5, <1>7, PositionInChain
<1>10. Chained(s) /\ Held(s) = Without(Held(buckets[b]), k)
  BY <1>4, <1>6, <1>9, RemovedFromChain
<1>11. \A d \in Held(s) : h1[d[1]] % bucket_count = b
  BY <1>1, <1>10 DEF Without, Rows
<1>12. Rows(u, n) /\ RowsContent(u, n) = (HmContent \ Held(buckets[b])) \union Held(s)
  <2>1. /\ n \in Nat \ {0} /\ Rows(buckets, n) /\ b \in 0 .. n - 1
        /\ RowsContent(buckets, n) = HmContent /\ \A d \in Held(s) : h1[d[1]] % n = b
    BY <1>1, <1>3, <1>6, <1>11 DEF HmContent
  <2>2. PICK t : t = buckets
    OBVIOUS
  <2>3. /\ Rows(t, n) /\ Chained(s) /\ u = Placed(t, b, s)
        /\ \A d \in Held(s) : h1[d[1]] % n = b
    BY <1>7, <1>10, <2>1, <2>2
  <2>4. Rows(u, n) /\ RowsContent(u, n) = (RowsContent(t, n) \ Held(t[b])) \union Held(s)
    BY <2>1, <2>3, RowChanged
  <2>5. QED
    BY <2>1, <2>2, <2>4
<1>13. RowsContent(u, n) = Without(HmContent, k)
  BY <1>4, <1>10, <1>12 DEF Without
<1>14. PICK w \in Value : <<k, w>> \in HmContent
  <2>1. buckets[b][at] = <<k, buckets[b][at][2]>> /\ buckets[b][at][2] \in Value
    BY <1>4, <1>9, ChainFacts
  <2>2. <<k, buckets[b][at][2]>> \in HmContent
    BY <1>4, <1>9, <2>1 DEF Held
  <2>3. QED
    BY <2>1, <2>2
<1>15. hm_size' = Cardinality(RowsContent(u, n))
  BY <1>1, <1>2, <1>4, <1>7, <1>13, <1>14, ContentSize
<1>16. HmInv' /\ HmContent' = RowsContent(u, n)
  BY <1>1, <1>6, <1>7, <1>8, <1>12, <1>15, HmInvOf
<1>17. ValueIn(HmContent, k) # Missing
  BY <1>14, ValueInIsValue, HashAssumption
<1>18. QED
  BY <1>13, <1>16, <1>17

\* Every call keeps the invariant and does to the content what a map does.
LEMMA HmStep ==
  ASSUME HmInv, Chaining!Next
  PROVE  HmInv' /\ ContentStep(HmContent, HmContent')
<1>1. PICK k \in Key : \/ Chaining!RemoveKey(k) \/ Chaining!RemoveAbsent(k)
                       \/ \E v \in Value : Chaining!Put(k, v)
  BY DEF Chaining!Next
<1>2. CASE Chaining!RemoveKey(k)
  <2>1. ret' = <<k, "removed">>
    BY <1>2 DEF Chaining!RemoveKey, Chaining!Return
  <2>2. QED
    BY <1>2, <2>1, HmRemoveKey DEF ContentStep
<1>3. CASE Chaining!RemoveAbsent(k)
  <2>1. /\ Chaining!Position(buckets[h1[k] % bucket_count], k) = 0
        /\ UNCHANGED <<buckets, bucket_count, hm_size, h1, h2>> /\ ret' = <<k, "absent">>
    BY <1>3 DEF Chaining!RemoveAbsent, Chaining!Return
  <2>2. Chaining!HashTypeOK'
    BY <2>1 DEF HmInv, Chaining!HashTypeOK
  <2>3. PICK n, t : n = bucket_count' /\ t = buckets'
    OBVIOUS
  <2>4. /\ n \in Nat \ {0} /\ Rows(t, n) /\ hm_size' = Cardinality(RowsContent(t, n))
        /\ HmContent = RowsContent(t, n)
    BY <2>1, <2>3 DEF HmInv, HmContent
  <2>5. HmInv' /\ HmContent' = HmContent
    BY <2>1, <2>2, <2>3, <2>4, HmInvOf
  <2>6. ValueIn(HmContent, k) = Missing
    BY <2>1, HmFindsContent DEF HmAnswers, Chaining!hm_get
  <2>7. QED
    BY <2>1, <2>5, <2>6 DEF ContentStep
<1>4. ASSUME NEW v \in Value, Chaining!Put(k, v) PROVE HmInv' /\ ContentStep(HmContent, HmContent')
  <2>1. ret' = <<k, "stored">>
    BY <1>4 DEF Chaining!Put, Chaining!Return
  <2>2. QED
    BY <1>4, <2>1, HmPut DEF ContentStep
<1>5. QED
  BY <1>1, <1>2, <1>3, <1>4

-----------------------------------------------------------------------------
(* Robin Hood.  An entry is at its distance from its ideal cell, and every *)
(* cell before it holds an entry that is at least as far from its own.     *)

\* The ideal cell of k.
Home(k) == h1[k] % RH_CAPACITY

RobinTables == [RobinHood!Cells -> (Key \X Value \X RobinHood!Cells) \union {NULL}]

Taken(t) == {x \in RobinHood!Cells : t[x] # NULL}

\* Every cell before the one at distance d from k's holds an entry, which is as
\* far from its own as k would be.
Way(t, k, d) ==
    \A i \in 0 .. d - 1 :
        t[RobinHood!Cell(k, i)] # NULL /\ t[RobinHood!Cell(k, i)][3] >= i

\* Every entry is where it belongs and no key comes twice.
RobinWhole(t) ==
    /\ t \in RobinTables
    /\ \A x \in Taken(t) : x = RobinHood!Cell(t[x][1], t[x][3]) /\ Way(t, t[x][1], t[x][3])
    /\ \A x, y \in Taken(t) : t[x][1] = t[y][1] => x = y

Pairs(t) == {<<t[x][1], t[x][2]>> : x \in Taken(t)}

RobinContent == Pairs(rh_slots)

RobinInv ==
    /\ RobinHood!HashTypeOK
    /\ RobinWhole(rh_slots)
    /\ rh_size = Cardinality(Taken(rh_slots))
    /\ rh_size <= (RH_CAPACITY * 3) \div 4

\* FiniteSets is instantiated with the module of each table.
LEMMA RobinCardinality ==
  ASSUME NEW S
  PROVE  RobinHood!Cardinality(S) = Cardinality(S)
BY Zenon DEF RobinHood!Cardinality, RobinHood!IsFiniteSet, Cardinality, IsFiniteSet

\* A remainder of less than twice the divisor.
LEMMA ShortRemainder ==
  ASSUME NEW m \in Nat \ {0}, NEW a \in 0 .. 2 * m - 1
  PROVE  a % m = IF a < m THEN a ELSE a - m
<1>1. a % m \in 0 .. m - 1 /\ a \div m \in Int /\ a = m * (a \div m) + (a % m)
  BY DivMod
<1>2. CASE a < m
  BY <1>2, SmallRemainder
<1>3. CASE a >= m
  <2>1. a - m \in 0 .. m - 1 /\ m * (a \div m) + (a % m) = m * 1 + (a - m)
    BY <1>1, <1>3
  <2>2. QED
    BY <1>1, <1>3, <2>1, DivModUnique
<1>4. QED
  BY <1>2, <1>3

\* A remainder keeps when its dividend is replaced by its own remainder.
LEMMA RemainderFirst ==
  ASSUME NEW m \in Nat \ {0}, NEW a \in Nat, NEW b \in Nat
  PROVE  (a + b) % m = ((a % m) + b) % m
<1> DEFINE r == (a % m) + b
<1>1. a % m \in 0 .. m - 1 /\ a \div m \in Int /\ a = m * (a \div m) + (a % m)
  BY DivMod
<1>2. r \in Int /\ a + b \in Int
  BY <1>1
<1>3. r % m \in 0 .. m - 1 /\ r \div m \in Int /\ r = m * (r \div m) + (r % m)
  BY <1>2, DivMod
<1>4. /\ (a + b) % m \in 0 .. m - 1 /\ (a + b) \div m \in Int
      /\ a + b = m * ((a + b) \div m) + ((a + b) % m)
  BY <1>2, DivMod
<1>5. a + b = m * (a \div m) + r
  BY <1>1
<1> HIDE DEF r
<1>6. m * ((a + b) \div m) + ((a + b) % m) = m * (a \div m) + (m * (r \div m) + (r % m))
  BY <1>3, <1>4, <1>5
<1>7. m * ((a \div m) + (r \div m)) = m * (a \div m) + m * (r \div m)
  <2>1. \A n, p, q \in Int : n * (p + q) = n * p + n * q
    OBVIOUS
  <2>2. m \in Int /\ a \div m \in Int /\ r \div m \in Int
    BY <1>1, <1>3
  <2>3. QED
    BY <2>1, <2>2
<1>8. m * ((a + b) \div m) + ((a + b) % m) = m * ((a \div m) + (r \div m)) + (r % m)
  <2>1. m * (a \div m) \in Int /\ m * (r \div m) \in Int
    BY <1>1, <1>3
  <2>2. QED
    BY <1>3, <1>6, <1>7, <2>1
<1>9. (a \div m) + (r \div m) \in Int
  BY <1>1, <1>3
<1>10. QED
  BY <1>3, <1>4, <1>8, <1>9, DivModUnique DEF r

\* The cells of a key lie behind one another from its ideal one, round the table.
LEMMA CellIs ==
  ASSUME RobinHood!HashTypeOK, NEW k \in Key
  PROVE  /\ RH_CAPACITY \in Nat \ {0}
         /\ Home(k) \in 0 .. RH_CAPACITY - 1
         /\ \A i \in 0 .. RH_CAPACITY : RobinHood!Cell(k, i) =
               IF Home(k) + i < RH_CAPACITY THEN Home(k) + i ELSE (Home(k) + i) - RH_CAPACITY
<1>1. RH_CAPACITY \in Nat \ {0}
  BY TablesAssumption
<1>2. h1[k] \in Nat
  <2>1. h1[k] \in Hash1
    BY DEF RobinHood!HashTypeOK
  <2>2. QED
    BY <2>1, HashAssumption
<1>3. Home(k) \in 0 .. RH_CAPACITY - 1
  BY <1>1, <1>2 DEF Home
<1>4. ASSUME NEW i \in 0 .. RH_CAPACITY
      PROVE  RobinHood!Cell(k, i) =
               IF Home(k) + i < RH_CAPACITY THEN Home(k) + i ELSE (Home(k) + i) - RH_CAPACITY
  <2>1. RobinHood!Cell(k, i) = (Home(k) + i) % RH_CAPACITY
    <3>1. i \in Nat
      BY <1>1
    <3>2. QED
      BY <1>1, <1>2, <3>1, RemainderFirst DEF Home, RobinHood!Cell
  <2>2. Home(k) + i \in 0 .. 2 * RH_CAPACITY - 1
    BY <1>1, <1>3
  <2>3. PICK a \in 0 .. 2 * RH_CAPACITY - 1 : a = Home(k) + i
    BY <2>2
  <2>4. a % RH_CAPACITY = IF a < RH_CAPACITY THEN a ELSE a - RH_CAPACITY
    BY <1>1, ShortRemainder
  <2>5. RobinHood!Cell(k, i) = a % RH_CAPACITY
    BY Zenon, <2>1, <2>3
  <2>6. QED
    BY Zenon, <2>3, <2>4, <2>5
<1>5. QED
  BY <1>1, <1>3, <1>4

\* The cells of a key are the table's, each once.
LEMMA CellsOnce ==
  ASSUME RobinHood!HashTypeOK, NEW k \in Key
  PROVE  /\ \A i \in 0 .. RH_CAPACITY : RobinHood!Cell(k, i) \in RobinHood!Cells
         /\ \A i \in RobinHood!Cells : RobinHood!Cell(k, i) \in RobinHood!Cells
         /\ \A i, j \in RobinHood!Cells :
               RobinHood!Cell(k, i) = RobinHood!Cell(k, j) => i = j
         /\ \A x \in RobinHood!Cells : \E i \in RobinHood!Cells : RobinHood!Cell(k, i) = x
<1>1. /\ RH_CAPACITY \in Nat \ {0}
      /\ Home(k) \in 0 .. RH_CAPACITY - 1
      /\ \A i \in 0 .. RH_CAPACITY : RobinHood!Cell(k, i) =
            IF Home(k) + i < RH_CAPACITY THEN Home(k) + i ELSE (Home(k) + i) - RH_CAPACITY
  BY CellIs
<1>2. \A i \in 0 .. RH_CAPACITY : RobinHood!Cell(k, i) \in RobinHood!Cells
  BY <1>1 DEF RobinHood!Cells
<1>3. ASSUME NEW i \in RobinHood!Cells, NEW j \in RobinHood!Cells,
             RobinHood!Cell(k, i) = RobinHood!Cell(k, j)
      PROVE  i = j
  BY <1>1, <1>3 DEF RobinHood!Cells
<1>4. ASSUME NEW x \in RobinHood!Cells
      PROVE  \E i \in RobinHood!Cells : RobinHood!Cell(k, i) = x
  <2>1. PICK i \in 0 .. RH_CAPACITY - 1 :
           i = IF x >= Home(k) THEN x - Home(k) ELSE x - Home(k) + RH_CAPACITY
    BY <1>1 DEF RobinHood!Cells
  <2>2. QED
    BY <1>1, <2>1 DEF RobinHood!Cells
<1>5. \A i \in RobinHood!Cells : i \in 0 .. RH_CAPACITY
  BY <1>1 DEF RobinHood!Cells
<1>6. QED
  BY <1>2, <1>3, <1>4, <1>5

\* The cell behind x.
After(x) == IF x = RH_CAPACITY - 1 THEN 0 ELSE x + 1

\* The next cell of a key is the one behind.
LEMMA NextCell ==
  ASSUME RobinHood!HashTypeOK, NEW k \in Key, NEW i \in RobinHood!Cells
  PROVE  RobinHood!Cell(k, i + 1) = After(RobinHood!Cell(k, i))
<1>1. /\ RH_CAPACITY \in Nat \ {0}
      /\ Home(k) \in 0 .. RH_CAPACITY - 1
      /\ \A j \in 0 .. RH_CAPACITY : RobinHood!Cell(k, j) =
            IF Home(k) + j < RH_CAPACITY THEN Home(k) + j ELSE (Home(k) + j) - RH_CAPACITY
  BY CellIs
<1>2. i \in 0 .. RH_CAPACITY /\ i + 1 \in 0 .. RH_CAPACITY
  BY <1>1 DEF RobinHood!Cells
<1>3. PICK j \in 0 .. RH_CAPACITY : j = i + 1
  BY <1>2
<1>4. PICK h \in 0 .. RH_CAPACITY - 1 : h = Home(k)
  BY <1>1
<1>5. /\ RobinHood!Cell(k, i) = IF h + i < RH_CAPACITY THEN h + i ELSE (h + i) - RH_CAPACITY
      /\ RobinHood!Cell(k, j) = IF h + j < RH_CAPACITY THEN h + j ELSE (h + j) - RH_CAPACITY
  BY <1>1, <1>2, <1>4
<1>6. i \in 0 .. RH_CAPACITY - 1
  BY DEF RobinHood!Cells
<1>7. RobinHood!Cell(k, j) = After(RobinHood!Cell(k, i))
  BY <1>1, <1>3, <1>5, <1>6 DEF After
<1>8. QED
  BY <1>3, <1>7

\* What the entries of a whole table are.
LEMMA TakenFacts ==
  ASSUME NEW t \in RobinTables
  PROVE  /\ \A x \in Taken(t) : /\ x \in RobinHood!Cells /\ t[x] # NULL
                                /\ t[x] \in Key \X Value \X RobinHood!Cells
                                /\ t[x][1] \in Key /\ t[x][2] \in Value
                                /\ t[x][3] \in RobinHood!Cells
         /\ IsFiniteSet(Taken(t))
         /\ Cardinality(Taken(t)) \in 0 .. RH_CAPACITY
         /\ RobinHood!Cells \subseteq Int /\ IsFiniteSet(RobinHood!Cells)
         /\ Cardinality(RobinHood!Cells) = RH_CAPACITY
<1>1. /\ IsFiniteSet(RobinHood!Cells) /\ Cardinality(RobinHood!Cells) = RH_CAPACITY
      /\ RobinHood!Cells \subseteq Int /\ RH_CAPACITY \in Nat
  <2>1. RH_CAPACITY \in Nat \ {0}
    BY TablesAssumption
  <2>2. RH_CAPACITY - 1 \in Int /\ 0 \in Int
    BY <2>1
  <2>3. QED
    BY <2>1, <2>2, FS_Interval DEF RobinHood!Cells
<1>2. Taken(t) \in SUBSET RobinHood!Cells
  BY DEF Taken
<1>3. IsFiniteSet(Taken(t)) /\ Cardinality(Taken(t)) <= RH_CAPACITY
  BY <1>1, <1>2, FS_Subset
<1>4. Cardinality(Taken(t)) \in 0 .. RH_CAPACITY
  BY <1>1, <1>3, FS_CardinalityType
<1>5. \A x \in Taken(t) : /\ x \in RobinHood!Cells /\ t[x] # NULL
                          /\ t[x] \in Key \X Value \X RobinHood!Cells
  BY DEF Taken, RobinTables
<1>6. QED
  BY <1>1, <1>3, <1>4, <1>5

\* NULL is no entry.
LEMMA NullIsNoEntry == NULL \notin Key \X Value \X RobinHood!Cells
<1>1. RobinHood!Cells \subseteq Nat
  BY TablesAssumption DEF RobinHood!Cells
<1>2. QED
  BY <1>1, TablesAssumption

\* Min of a set of numbers is its least.
LEMMA LeastOf ==
  ASSUME NEW S \in SUBSET Nat, S # {}
  PROVE  RobinHood!Min(S) \in S /\ \A j \in S : RobinHood!Min(S) <= j
<1>1. PICK i \in S : \A j \in 0 .. i - 1 : j \notin S
  BY LeastTry
<1>2. \A j \in S : i <= j
  BY <1>1
<1>3. QED
  BY <1>1, <1>2 DEF RobinHood!Min

\* A key that is there is found at its distance.
LEMMA StopAtKey ==
  ASSUME RobinHood!HashTypeOK, RobinWhole(rh_slots), NEW x \in Taken(rh_slots),
         NEW k \in Key, rh_slots[x][1] = k
  PROVE  /\ RobinHood!Found(k)
         /\ RobinHood!Stop(k) = rh_slots[x][3]
         /\ RobinHood!Cell(k, RobinHood!Stop(k)) = x
<1>0. PICK d : d = rh_slots[x][3]
  OBVIOUS
<1> DEFINE S == {i \in RobinHood!Cells :
                   \/ rh_slots[RobinHood!Cell(k, i)] = NULL
                   \/ rh_slots[RobinHood!Cell(k, i)][3] < i
                   \/ rh_slots[RobinHood!Cell(k, i)][1] = k}
           T == {RH_CAPACITY} \union S
<1>1. rh_slots \in RobinTables
  BY DEF RobinWhole
<1>2. /\ d \in RobinHood!Cells /\ x \in RobinHood!Cells /\ rh_slots[x] # NULL
      /\ RH_CAPACITY \in Nat \ {0}
  BY <1>0, <1>1, TakenFacts, CellIs
<1>3. x = RobinHood!Cell(k, d) /\ Way(rh_slots, k, d)
  BY <1>0 DEF RobinWhole
<1>4. d \in S
  BY <1>2, <1>3
<1>5. ASSUME NEW i \in 0 .. d - 1 PROVE i \notin S
  <2>1. i \in RobinHood!Cells /\ i # d /\ i \in Nat
    BY <1>2 DEF RobinHood!Cells
  <2>2. RobinHood!Cell(k, i) \in Taken(rh_slots) /\ rh_slots[RobinHood!Cell(k, i)][3] >= i
    <3>1. RobinHood!Cell(k, i) \in RobinHood!Cells
      BY <2>1, CellsOnce
    <3>2. rh_slots[RobinHood!Cell(k, i)] # NULL /\ rh_slots[RobinHood!Cell(k, i)][3] >= i
      BY <1>3, <1>5 DEF Way
    <3>3. QED
      BY <3>1, <3>2 DEF Taken
  <2>3. rh_slots[RobinHood!Cell(k, i)][1] # k
    <3>1. SUFFICES ASSUME rh_slots[RobinHood!Cell(k, i)][1] = k PROVE FALSE
      OBVIOUS
    <3>2. RobinHood!Cell(k, i) = x
      BY <2>2, <3>1 DEF RobinWhole
    <3>3. QED
      BY <1>2, <1>3, <2>1, <3>2, CellsOnce
  <2>4. ~ (rh_slots[RobinHood!Cell(k, i)][3] < i)
    <3>1. rh_slots[RobinHood!Cell(k, i)][3] \in Int
      BY <1>1, <2>2, TakenFacts
    <3>2. QED
      BY <2>1, <2>2, <3>1
  <2>5. QED
    BY <2>2, <2>3, <2>4 DEF Taken
<1>6. RobinHood!Stop(k) = RobinHood!Min(T)
  BY DEF RobinHood!Stop
<1>7. T \in SUBSET Nat /\ T # {}
  BY <1>2 DEF RobinHood!Cells
<1>8. RobinHood!Min(T) \in T /\ \A j \in T : RobinHood!Min(T) <= j
  <2> HIDE DEF T
  <2>1. QED
    BY <1>7, LeastOf
<1>9. RobinHood!Stop(k) = d
  <2>1. PICK m \in T : m = RobinHood!Min(T) /\ m \in Nat
    BY <1>7, <1>8
  <2>2. d \in T /\ m <= d /\ d \in Nat /\ d < RH_CAPACITY
    BY <1>2, <1>4, <1>8, <2>1 DEF RobinHood!Cells
  <2>3. m \in S
    BY <2>1, <2>2
  <2> HIDE DEF S
  <2>4. ~ (m < d)
    BY <1>5, <2>1, <2>2, <2>3
  <2>5. QED
    BY <1>6, <2>1, <2>2, <2>4
<1> HIDE DEF S, T
<1>10. RobinHood!Found(k)
  <2>1. d < RH_CAPACITY /\ d >= d
    BY <1>2 DEF RobinHood!Cells
  <2>2. QED
    BY <1>0, <1>2, <1>3, <1>9, <2>1 DEF RobinHood!Found
<1>11. QED
  BY <1>0, <1>3, <1>9, <1>10

\* What is found is there.
LEMMA FoundIsTaken ==
  ASSUME RobinHood!HashTypeOK, NEW k \in Key, RobinHood!Found(k)
  PROVE  \E x \in Taken(rh_slots) :
            x = RobinHood!Cell(k, RobinHood!Stop(k)) /\ rh_slots[x][1] = k
<1> DEFINE S == {i \in RobinHood!Cells :
                   \/ rh_slots[RobinHood!Cell(k, i)] = NULL
                   \/ rh_slots[RobinHood!Cell(k, i)][3] < i
                   \/ rh_slots[RobinHood!Cell(k, i)][1] = k}
           T == {RH_CAPACITY} \union S
<1>1. RH_CAPACITY \in Nat \ {0}
  BY TablesAssumption
<1>2. RobinHood!Stop(k) = RobinHood!Min(T)
  BY DEF RobinHood!Stop
<1>3. T \in SUBSET Nat /\ T # {}
  BY <1>1 DEF RobinHood!Cells
<1>4. RobinHood!Stop(k) \in T /\ RobinHood!Stop(k) < RH_CAPACITY
  <2> HIDE DEF T
  <2>1. QED
    BY <1>2, <1>3, LeastOf DEF RobinHood!Found
<1>5. RobinHood!Stop(k) \in RobinHood!Cells
  BY <1>1, <1>4
<1>6. RobinHood!Cell(k, RobinHood!Stop(k)) \in RobinHood!Cells
  BY <1>5, CellsOnce
<1>7. QED
  BY <1>6 DEF RobinHood!Found, Taken

\* What rh_get finds.
RobinAnswers ==
    /\ IsMap(RobinContent)
    /\ \A k \in Key : RobinHood!rh_get(k) = ValueIn(RobinContent, k)

\* A table in which no key is twice holds a map.
LEMMA PairsAreMap ==
  ASSUME NEW t, RobinWhole(t)
  PROVE  IsMap(Pairs(t))
<1>1. t \in RobinTables /\ \A x, y \in Taken(t) : t[x][1] = t[y][1] => x = y
  BY DEF RobinWhole
<1>2. \A x \in Taken(t) : t[x][1] \in Key /\ t[x][2] \in Value
  BY <1>1, TakenFacts
<1>3. Pairs(t) \subseteq Key \X Value
  BY <1>2 DEF Pairs
<1>4. ASSUME NEW k \in Key, NEW v \in Value, NEW w \in Value,
             <<k, v>> \in Pairs(t), <<k, w>> \in Pairs(t)
      PROVE  v = w
  <2>1. PICK x \in Taken(t) : <<t[x][1], t[x][2]>> = <<k, v>>
    BY <1>4 DEF Pairs
  <2>2. PICK y \in Taken(t) : <<t[y][1], t[y][2]>> = <<k, w>>
    BY <1>4 DEF Pairs
  <2>3. x = y
    BY <1>1, <2>1, <2>2
  <2>4. QED
    BY <2>1, <2>2, <2>3
<1>5. QED
  BY <1>3, <1>4 DEF IsMap

\* A lookup finds what the table holds.
LEMMA RobinFindsContent ==
  RobinInv => RobinAnswers
<1> SUFFICES ASSUME RobinInv PROVE RobinAnswers
  OBVIOUS
<1>1. RobinHood!HashTypeOK /\ RobinWhole(rh_slots) /\ rh_slots \in RobinTables
  BY DEF RobinInv, RobinWhole
<1>2. IsMap(RobinContent)
  BY <1>1, PairsAreMap DEF RobinContent
<1>3. ASSUME NEW k \in Key, RobinHood!Found(k)
      PROVE  RobinHood!rh_get(k) = ValueIn(RobinContent, k)
  <2>1. PICK x \in Taken(rh_slots) :
           x = RobinHood!Cell(k, RobinHood!Stop(k)) /\ rh_slots[x][1] = k
    BY <1>1, <1>3, FoundIsTaken
  <2>2. rh_slots[x][2] \in Value /\ <<k, rh_slots[x][2]>> \in RobinContent
    BY <1>1, <2>1, TakenFacts DEF RobinContent, Pairs
  <2>3. ValueIn(RobinContent, k) = rh_slots[x][2]
    BY <1>2, <2>2, ValueOfPair
  <2>4. QED
    BY <1>3, <2>1, <2>3 DEF RobinHood!rh_get
<1>4. ASSUME NEW k \in Key, ~ RobinHood!Found(k)
      PROVE  RobinHood!rh_get(k) = ValueIn(RobinContent, k)
  <2>1. ASSUME NEW v \in Value, <<k, v>> \in RobinContent PROVE FALSE
    <3>1. PICK x \in Taken(rh_slots) : <<rh_slots[x][1], rh_slots[x][2]>> = <<k, v>>
      BY <2>1 DEF RobinContent, Pairs
    <3>2. rh_slots[x][1] = k
      BY <3>1
    <3>3. RobinHood!Found(k)
      BY <1>1, <3>2, StopAtKey
    <3>4. QED
      BY <1>4, <3>3
  <2>2. ValueIn(RobinContent, k) = Missing
    BY <2>1, ValueInIsValue
  <2>3. QED
    BY <1>4, <2>2 DEF RobinHood!rh_get
<1>5. QED
  BY <1>2, <1>3, <1>4 DEF RobinAnswers

\* The first table is empty.
LEMMA RobinInit ==
  ASSUME RobinHood!Init
  PROVE  RobinInv /\ RobinContent = {}
<1>1. Taken(rh_slots) = {}
  BY DEF RobinHood!Init, Taken
<1>2. RobinContent = {}
  BY <1>1 DEF RobinContent, Pairs
<1>3. RobinHood!HashTypeOK
  BY DEF RobinHood!Init, RobinHood!HashInit, RobinHood!HashTypeOK
<1>4. rh_slots \in RobinTables
  BY DEF RobinHood!Init, RobinTables
<1>5. rh_size = Cardinality(Taken(rh_slots))
  BY <1>1, FS_EmptySet DEF RobinHood!Init
<1>6. 0 <= (RH_CAPACITY * 3) \div 4
  BY TablesAssumption
<1>7. rh_size <= (RH_CAPACITY * 3) \div 4
  BY <1>6 DEF RobinHood!Init
<1>8. QED
  BY <1>1, <1>2, <1>3, <1>4, <1>5, <1>7 DEF RobinInv, RobinWhole

\* The two properties the runs check of the table.
LEMMA RobinShows ==
  RobinInv => RobinHood!TypeOK /\ RobinHood!TableExact
<1> SUFFICES ASSUME RobinInv PROVE RobinHood!TypeOK /\ RobinHood!TableExact
  OBVIOUS
<1>1. RobinHood!HashTypeOK /\ RobinWhole(rh_slots) /\ rh_slots \in RobinTables
  BY DEF RobinInv, RobinWhole
<1>2. rh_size \in 0 .. RH_CAPACITY
  BY <1>1, TakenFacts DEF RobinInv
<1>3. RobinHood!TypeOK
  BY <1>1, <1>2 DEF RobinHood!TypeOK, RobinTables
<1>4. Taken(rh_slots) = {x \in RobinHood!Cells : rh_slots[x] # NULL}
  BY DEF Taken
<1>5. rh_size = RobinHood!Cardinality(Taken(rh_slots))
  BY RobinCardinality DEF RobinInv
<1>6. \A x \in Taken(rh_slots) :
          /\ x = RobinHood!Cell(rh_slots[x][1], rh_slots[x][3])
          /\ \A i \in 0 .. rh_slots[x][3] - 1 :
                /\ rh_slots[RobinHood!Cell(rh_slots[x][1], i)] # NULL
                /\ rh_slots[RobinHood!Cell(rh_slots[x][1], i)][3] >= i
  BY <1>1 DEF RobinWhole, Way
<1>7. RobinHood!TableExact
  BY <1>4, <1>5, <1>6 DEF RobinHood!TableExact
<1>8. QED
  BY <1>3, <1>7

\* The pairs of a table but that of one key.
LEMMA PairsBut ==
  ASSUME NEW t \in RobinTables, \A y, z \in Taken(t) : t[y][1] = t[z][1] => y = z,
         NEW x \in Taken(t), NEW k, t[x][1] = k
  PROVE  {<<t[y][1], t[y][2]>> : y \in Taken(t) \ {x}} = Without(Pairs(t), k)
<1>1. \A y \in Taken(t) : t[y][1] \in Key /\ t[y][2] \in Value
  BY TakenFacts
<1>2. \A y \in Taken(t) : <<t[y][1], t[y][2]>> \in {k} \X Value <=> y = x
  BY <1>1
<1>3. QED
  BY <1>2 DEF Without, Pairs

\* The way of a key stays one when the cells hold entries farther from home.
LEMMA WayStays ==
  ASSUME RobinHood!HashTypeOK, NEW t, NEW w,
         \A y \in RobinHood!Cells : t[y] # NULL =>
             /\ t[y][3] \in Int /\ w[y] # NULL
             /\ w[y][3] \in Int /\ w[y][3] >= t[y][3],
         NEW k \in Key, NEW d \in RobinHood!Cells, Way(t, k, d)
  PROVE  Way(w, k, d)
<1>1. ASSUME NEW i \in 0 .. d - 1
      PROVE  w[RobinHood!Cell(k, i)] # NULL /\ w[RobinHood!Cell(k, i)][3] >= i
  <2>1. i \in RobinHood!Cells /\ i \in Int
    BY TablesAssumption DEF RobinHood!Cells
  <2>2. PICK y \in RobinHood!Cells : y = RobinHood!Cell(k, i)
    BY <2>1, CellsOnce
  <2>3. t[y] # NULL /\ t[y][3] >= i
    BY <2>2 DEF Way
  <2>4. w[y] # NULL /\ w[y][3] >= i
    BY <2>1, <2>3
  <2>5. QED
    BY <2>2, <2>4
<1>2. QED
  BY <1>1 DEF Way

\* A new key takes the cell its way has led to, if what is there is nearer.
LEMMA EntryPlaced ==
  ASSUME RobinHood!HashTypeOK, NEW t, RobinWhole(t),
         NEW e \in Key, NEW u \in Value, NEW d \in RobinHood!Cells,
         NEW x, x = RobinHood!Cell(e, d), Way(t, e, d),
         \A y \in Taken(t) : t[y][1] # e,
         t[x] # NULL => t[x][3] <= d,
         NEW w, w = Placed(t, x, <<e, u, d>>)
  PROVE  /\ RobinWhole(w)
         /\ Taken(w) = Taken(t) \union {x}
         /\ x \in RobinHood!Cells
         /\ w[x] = <<e, u, d>>
         /\ \A y \in RobinHood!Cells \ {x} : w[y] = t[y]
         /\ \A y \in RobinHood!Cells : t[y] # NULL =>
                /\ t[y][3] \in Int /\ w[y] # NULL
                /\ w[y][3] \in Int /\ w[y][3] >= t[y][3]
         /\ t[x] = NULL => Pairs(w) = Pairs(t) \union {<<e, u>>}
         /\ t[x] # NULL => /\ Pairs(w) \union {<<t[x][1], t[x][2]>>} = Pairs(t) \union {<<e, u>>}
                           /\ \A y \in Taken(w) : w[y][1] # t[x][1]
<1>1. /\ t \in RobinTables
      /\ \A y \in Taken(t) : y = RobinHood!Cell(t[y][1], t[y][3]) /\ Way(t, t[y][1], t[y][3])
      /\ \A y, z \in Taken(t) : t[y][1] = t[z][1] => y = z
  BY DEF RobinWhole
<1>2. \A y \in Taken(t) : /\ y \in RobinHood!Cells /\ t[y] # NULL
                          /\ t[y] \in Key \X Value \X RobinHood!Cells
                          /\ t[y][1] \in Key /\ t[y][2] \in Value
                          /\ t[y][3] \in RobinHood!Cells /\ t[y][3] \in Int
  BY <1>1, TakenFacts
<1>3. x \in RobinHood!Cells /\ d \in Int
  BY <1>1, CellsOnce, TakenFacts
<1>4. <<e, u, d>> \in Key \X Value \X RobinHood!Cells /\ <<e, u, d>> # NULL
  BY NullIsNoEntry
<1>5. /\ w \in RobinTables /\ w[x] = <<e, u, d>>
      /\ \A y \in RobinHood!Cells \ {x} : w[y] = t[y]
  BY <1>1, <1>3, <1>4 DEF RobinTables, Placed
<1>6. Taken(w) = Taken(t) \union {x}
  BY <1>3, <1>4, <1>5 DEF Taken
<1>7. ASSUME NEW y \in RobinHood!Cells, t[y] # NULL
      PROVE  t[y][3] \in Int /\ w[y] # NULL /\ w[y][3] \in Int /\ w[y][3] >= t[y][3]
  <2>1. y \in Taken(t)
    BY <1>7 DEF Taken
  <2>2. CASE y = x
    BY <1>2, <1>3, <1>4, <1>5, <1>7, <2>1, <2>2
  <2>3. CASE y # x
    <3>1. w[y] = t[y] /\ t[y][3] \in Int
      BY <1>2, <1>5, <2>1, <2>3
    <3>2. QED
      BY <1>7, <3>1
  <2>4. QED
    BY <2>2, <2>3
<1>8. ASSUME NEW y \in Taken(w)
      PROVE  y = RobinHood!Cell(w[y][1], w[y][3]) /\ Way(w, w[y][1], w[y][3])
  <2>1. CASE y = x
    <3>1. Way(w, e, d)
      BY <1>7, WayStays
    <3>2. QED
      BY <1>5, <2>1, <3>1
  <2>2. CASE y # x
    <3>1. y \in Taken(t) /\ w[y] = t[y]
      BY <1>2, <1>5, <1>6, <2>2
    <3>2. PICK l \in Key, c \in RobinHood!Cells : l = t[y][1] /\ c = t[y][3]
      BY <1>2, <3>1
    <3>3. Way(t, l, c)
      BY <1>1, <3>1, <3>2
    <3>4. Way(w, l, c)
      BY <1>7, <3>3, WayStays
    <3>5. QED
      BY <1>1, <3>1, <3>2, <3>4
  <2>3. QED
    BY <2>1, <2>2
<1>9. \A y \in Taken(w) : \/ y = x /\ w[y][1] = e
                          \/ y # x /\ y \in Taken(t) /\ w[y][1] = t[y][1] /\ w[y][2] = t[y][2]
  BY <1>2, <1>5, <1>6
<1>10. \A y, z \in Taken(w) : w[y][1] = w[z][1] => y = z
  BY <1>1, <1>9
<1>11. RobinWhole(w)
  BY <1>5, <1>8, <1>10 DEF RobinWhole
<1>12. Pairs(w) = {<<t[y][1], t[y][2]>> : y \in Taken(t) \ {x}} \union {<<e, u>>}
  <2>1. \A y \in Taken(t) \ {x} : y \in Taken(w) /\ w[y] = t[y]
    BY <1>2, <1>5, <1>6
  <2>2. x \in Taken(w) /\ <<w[x][1], w[x][2]>> = <<e, u>>
    BY <1>5, <1>6
  <2>3. \A y \in Taken(w) : y = x \/ y \in Taken(t) \ {x}
    BY <1>6
  <2>4. QED
    BY <2>1, <2>2, <2>3 DEF Pairs
<1>13. t[x] = NULL => Pairs(w) = Pairs(t) \union {<<e, u>>}
  <2>1. t[x] = NULL => Taken(t) \ {x} = Taken(t)
    BY DEF Taken
  <2>2. QED
    BY <1>12, <2>1 DEF Pairs
<1>14. ASSUME t[x] # NULL
       PROVE  /\ Pairs(w) \union {<<t[x][1], t[x][2]>>} = Pairs(t) \union {<<e, u>>}
              /\ \A y \in Taken(w) : w[y][1] # t[x][1]
  <2>1. x \in Taken(t)
    BY <1>3, <1>14 DEF Taken
  <2>2. Pairs(t) = {<<t[y][1], t[y][2]>> : y \in Taken(t) \ {x}} \union {<<t[x][1], t[x][2]>>}
    BY <2>1 DEF Pairs
  <2>3. \A y \in Taken(w) : w[y][1] # t[x][1]
    BY <1>1, <1>9, <2>1
  <2>4. QED
    BY <1>12, <2>2, <2>3
<1>15. QED
  BY <1>3, <1>5, <1>6, <1>7, <1>11, <1>13, <1>14

\* The value of a key replaced where it is.
LEMMA EntryUpdated ==
  ASSUME RobinHood!HashTypeOK, NEW t, RobinWhole(t), NEW x \in Taken(t),
         NEW k \in Key, t[x][1] = k, NEW v \in Value,
         NEW w, w = Placed(t, x, <<k, v, t[x][3]>>)
  PROVE  RobinWhole(w) /\ Taken(w) = Taken(t) /\ Pairs(w) = With(Pairs(t), k, v)
<1>1. /\ t \in RobinTables
      /\ \A y \in Taken(t) : y = RobinHood!Cell(t[y][1], t[y][3]) /\ Way(t, t[y][1], t[y][3])
      /\ \A y, z \in Taken(t) : t[y][1] = t[z][1] => y = z
  BY DEF RobinWhole
<1>2. \A y \in Taken(t) : /\ y \in RobinHood!Cells /\ t[y] # NULL
                          /\ t[y] \in Key \X Value \X RobinHood!Cells
                          /\ t[y][1] \in Key /\ t[y][2] \in Value
                          /\ t[y][3] \in RobinHood!Cells /\ t[y][3] \in Int
  BY <1>1, TakenFacts
<1>3. PICK e \in Key \X Value \X RobinHood!Cells : e = <<k, v, t[x][3]>>
  BY <1>2
<1>4. e # NULL /\ e[1] = t[x][1] /\ e[2] = v /\ e[3] = t[x][3]
  BY <1>3, NullIsNoEntry
<1>5. /\ w \in RobinTables /\ w[x] = e
      /\ \A y \in RobinHood!Cells \ {x} : w[y] = t[y]
  BY <1>1, <1>2, <1>3 DEF RobinTables, Placed
<1>6. Taken(w) = Taken(t)
  BY <1>2, <1>4, <1>5 DEF Taken
<1>7. \A y \in Taken(t) : w[y][1] = t[y][1] /\ w[y][3] = t[y][3]
  BY <1>2, <1>4, <1>5
<1>8. ASSUME NEW y \in Taken(t)
      PROVE  y = RobinHood!Cell(w[y][1], w[y][3]) /\ Way(w, w[y][1], w[y][3])
  <2>1. PICK l \in Key, c \in RobinHood!Cells : l = t[y][1] /\ c = t[y][3]
    BY <1>2
  <2>2. Way(t, l, c)
    BY <1>1, <2>1
  <2>3. Way(w, l, c)
    <3>1. ASSUME NEW i \in 0 .. c - 1
          PROVE  w[RobinHood!Cell(l, i)] # NULL /\ w[RobinHood!Cell(l, i)][3] >= i
      <4>1. i \in RobinHood!Cells
        BY TablesAssumption DEF RobinHood!Cells
      <4>2. PICK z \in Taken(t) : z = RobinHood!Cell(l, i)
        BY <2>2, <4>1, CellsOnce DEF Way, Taken
      <4>3. w[z] # NULL /\ w[z][3] = t[z][3]
        BY <1>6, <1>7, <4>2 DEF Taken
      <4>4. QED
        BY <2>2, <4>2, <4>3 DEF Way
    <3>2. QED
      BY <3>1 DEF Way
  <2>4. QED
    BY <1>1, <1>7, <2>1, <2>3
<1>9. \A y, z \in Taken(w) : w[y][1] = w[z][1] => y = z
  BY <1>1, <1>6, <1>7
<1>10. RobinWhole(w)
  BY <1>5, <1>6, <1>8, <1>9 DEF RobinWhole
<1>11. Pairs(w) = {<<t[y][1], t[y][2]>> : y \in Taken(t) \ {x}} \union {<<k, v>>}
  <2>1. \A y \in Taken(t) \ {x} : w[y] = t[y]
    BY <1>2, <1>5
  <2>2. <<w[x][1], w[x][2]>> = <<k, v>>
    BY <1>4, <1>5
  <2>3. QED
    BY <1>6, <2>1, <2>2 DEF Pairs
<1>12. {<<t[y][1], t[y][2]>> : y \in Taken(t) \ {x}} = Without(Pairs(t), k)
  BY <1>1, <1>2, PairsBut
<1>13. QED
  BY <1>6, <1>10, <1>11, <1>12 DEF With

\* The state of rh_put's loop: the table, the entry in hand and the outcome.
Loop(t, ins, how) == [slots |-> t, ins |-> ins, how |-> how]

\* What an iteration does.
LEMMA ProbeIs ==
  ASSUME NEW t \in RobinTables, NEW e, NEW u, NEW d, NEW k, NEW i,
         NEW x \in RobinHood!Cells, x = RobinHood!Cell(k, i)
  PROVE  RobinHood!Probe(k, Loop(t, <<e, u, d>>, "none"), i) =
            IF t[x] = NULL THEN Loop(Placed(t, x, <<e, u, d>>), <<e, u, d>>, "new")
            ELSE IF t[x][1] = k THEN Loop(Placed(t, x, <<k, u, t[x][3]>>), <<e, u, d>>, "update")
            ELSE IF d > t[x][3]
                 THEN Loop(Placed(t, x, <<e, u, d>>), <<t[x][1], t[x][2], t[x][3] + 1>>, "none")
            ELSE Loop(t, <<e, u, d + 1>>, "none")
<1> DEFINE st == Loop(t, <<e, u, d>>, "none")
<1>1. st.slots = t /\ st.ins = <<e, u, d>> /\ st.how = "none"
  BY DEF Loop
<1>2. [t EXCEPT ![x] = t[x]] = t
  BY DEF RobinTables
<1> HIDE DEF st
<1>3. RobinHood!Probe(k, st, i) =
        IF t[x] = NULL THEN Loop([t EXCEPT ![x] = <<e, u, d>>], <<e, u, d>>, "new")
        ELSE IF t[x][1] = k THEN Loop([t EXCEPT ![x] = <<k, u, t[x][3]>>], <<e, u, d>>, "update")
        ELSE IF d > t[x][3]
             THEN Loop([t EXCEPT ![x] = <<e, u, d>>], <<t[x][1], t[x][2], t[x][3] + 1>>, "none")
        ELSE Loop([t EXCEPT ![x] = t[x]], <<e, u, d + 1>>, "none")
  BY <1>1 DEF RobinHood!Probe, Loop
<1>4. QED
  BY <1>2, <1>3 DEF st, Placed

\* Before iteration i of a put of a new key: the entry in hand is not in the
\* table t, its way has led to the cell of k, and both hold what the table t0
\* held, and k.
Carrying(t0, k, v, i, t, e, u, d) ==
    /\ e \in Key /\ u \in Value /\ d \in 0 .. i
    /\ RobinWhole(t) /\ Taken(t) = Taken(t0)
    /\ RobinHood!Cell(e, d) = RobinHood!Cell(k, i) /\ Way(t, e, d)
    /\ \A y \in Taken(t) : t[y][1] # e
    /\ Pairs(t) \union {<<e, u>>} = Pairs(t0) \union {<<k, v>>}
    /\ \A j \in i .. RH_CAPACITY - 1 : t[RobinHood!Cell(k, j)] = t0[RobinHood!Cell(k, j)]
    /\ \A j \in 0 .. i - 1 : t0[RobinHood!Cell(k, j)] # NULL

\* After the iteration that found an empty cell.
Settled(t0, k, v, t) ==
    /\ RobinWhole(t)
    /\ \E x \in RobinHood!Cells \ Taken(t0) : Taken(t) = Taken(t0) \union {x}
    /\ Pairs(t) = Pairs(t0) \union {<<k, v>>}

NewKeyLoop(t0, k, v, i, st) ==
    \/ \E t, e, u, d : st = Loop(t, <<e, u, d>>, "none") /\ Carrying(t0, k, v, i, t, e, u, d)
    \/ \E t, ins : st = Loop(t, ins, "new") /\ Settled(t0, k, v, t)

\* An iteration of a put of a new key.
LEMMA ProbeNewKey ==
  ASSUME RobinHood!HashTypeOK, NEW t0, RobinWhole(t0), NEW k \in Key, NEW v \in Value,
         \A y \in Taken(t0) : t0[y][1] # k,
         NEW i \in RobinHood!Cells, NEW st, NewKeyLoop(t0, k, v, i, st)
  PROVE  NewKeyLoop(t0, k, v, i + 1, RobinHood!Probe(k, st, i))
<1>1. CASE \E t, ins : st = Loop(t, ins, "new") /\ Settled(t0, k, v, t)
  <2>1. st.how # "none"
    BY <1>1 DEF Loop
  <2>2. RobinHood!Probe(k, st, i) = st
    BY <2>1 DEF RobinHood!Probe
  <2>3. QED
    BY <1>1, <2>2 DEF NewKeyLoop
<1>2. CASE \E t, e, u, d : st = Loop(t, <<e, u, d>>, "none") /\ Carrying(t0, k, v, i, t, e, u, d)
  <2>1. PICK t, e, u, d : st = Loop(t, <<e, u, d>>, "none") /\ Carrying(t0, k, v, i, t, e, u, d)
    BY <1>2
  <2>2. PICK x \in RobinHood!Cells : x = RobinHood!Cell(k, i)
    BY CellsOnce
  <2>3. /\ e \in Key /\ u \in Value /\ d \in 0 .. i
        /\ RobinWhole(t) /\ t \in RobinTables /\ Taken(t) = Taken(t0)
        /\ x = RobinHood!Cell(e, d) /\ Way(t, e, d)
        /\ \A y \in Taken(t) : t[y][1] # e
        /\ Pairs(t) \union {<<e, u>>} = Pairs(t0) \union {<<k, v>>}
        /\ \A j \in i .. RH_CAPACITY - 1 : t[RobinHood!Cell(k, j)] = t0[RobinHood!Cell(k, j)]
        /\ \A j \in 0 .. i - 1 : t0[RobinHood!Cell(k, j)] # NULL
    BY <2>1, <2>2 DEF Carrying, RobinWhole
  <2>4. /\ RH_CAPACITY \in Nat \ {0} /\ i \in 0 .. RH_CAPACITY - 1
        /\ d \in RobinHood!Cells /\ d \in Nat /\ i \in Nat
    BY <2>3, TablesAssumption DEF RobinHood!Cells
  <2>5. t[x] = t0[x]
    <3>1. i \in i .. RH_CAPACITY - 1
      BY <2>4
    <3>2. QED
      BY <2>2, <2>3, <3>1
  <2>6. RobinHood!Probe(k, st, i) =
            IF t[x] = NULL THEN Loop(Placed(t, x, <<e, u, d>>), <<e, u, d>>, "new")
            ELSE IF t[x][1] = k THEN Loop(Placed(t, x, <<k, u, t[x][3]>>), <<e, u, d>>, "update")
            ELSE IF d > t[x][3]
                 THEN Loop(Placed(t, x, <<e, u, d>>), <<t[x][1], t[x][2], t[x][3] + 1>>, "none")
            ELSE Loop(t, <<e, u, d + 1>>, "none")
    <3>1. st = Loop(t, <<e, u, d>>, "none") /\ t \in RobinTables
      BY <2>1, <2>3
    <3>2. RobinHood!Probe(k, Loop(t, <<e, u, d>>, "none"), i) =
            IF t[x] = NULL THEN Loop(Placed(t, x, <<e, u, d>>), <<e, u, d>>, "new")
            ELSE IF t[x][1] = k THEN Loop(Placed(t, x, <<k, u, t[x][3]>>), <<e, u, d>>, "update")
            ELSE IF d > t[x][3]
                 THEN Loop(Placed(t, x, <<e, u, d>>), <<t[x][1], t[x][2], t[x][3] + 1>>, "none")
            ELSE Loop(t, <<e, u, d + 1>>, "none")
      BY <2>2, <3>1, ProbeIs
    <3>3. QED
      BY Zenon, <3>1, <3>2
  <2>7. t[x] # NULL => /\ x \in Taken(t) /\ x \in Taken(t0)
                       /\ t[x][1] # k /\ t[x][1] \in Key /\ t[x][2] \in Value
                       /\ t[x][3] \in RobinHood!Cells /\ t[x][3] \in Nat
                       /\ x = RobinHood!Cell(t[x][1], t[x][3]) /\ Way(t, t[x][1], t[x][3])
    <3>1. SUFFICES ASSUME t[x] # NULL
                   PROVE  /\ x \in Taken(t) /\ x \in Taken(t0)
                          /\ t[x][1] # k /\ t[x][1] \in Key /\ t[x][2] \in Value
                          /\ t[x][3] \in RobinHood!Cells /\ t[x][3] \in Nat
                          /\ x = RobinHood!Cell(t[x][1], t[x][3]) /\ Way(t, t[x][1], t[x][3])
      OBVIOUS
    <3>2. x \in Taken(t) /\ x \in Taken(t0)
      BY <2>3, <3>1 DEF Taken
    <3>3. t[x][1] # k
      BY <2>5, <3>2
    <3>4. t[x][1] \in Key /\ t[x][2] \in Value /\ t[x][3] \in RobinHood!Cells
      BY <2>3, <3>2, TakenFacts
    <3>5. t[x][3] \in Nat
      BY <3>4, <2>4 DEF RobinHood!Cells
    <3>6. x = RobinHood!Cell(t[x][1], t[x][3]) /\ Way(t, t[x][1], t[x][3])
      BY <2>3, <3>2 DEF RobinWhole
    <3>7. QED
      BY <3>2, <3>3, <3>4, <3>5, <3>6
  <2>8. PICK w : w = Placed(t, x, <<e, u, d>>)
    OBVIOUS
  <2>9. ASSUME t[x] # NULL => t[x][3] <= d
        PROVE  /\ RobinWhole(w)
               /\ Taken(w) = Taken(t) \union {x}
               /\ w[x] = <<e, u, d>>
               /\ \A y \in RobinHood!Cells \ {x} : w[y] = t[y]
               /\ \A y \in RobinHood!Cells : t[y] # NULL =>
                      /\ t[y][3] \in Int /\ w[y] # NULL
                      /\ w[y][3] \in Int /\ w[y][3] >= t[y][3]
               /\ t[x] = NULL => Pairs(w) = Pairs(t) \union {<<e, u>>}
               /\ t[x] # NULL => /\ Pairs(w) \union {<<t[x][1], t[x][2]>>} = Pairs(t) \union {<<e, u>>}
                                 /\ \A y \in Taken(w) : w[y][1] # t[x][1]
    BY <2>3, <2>4, <2>8, <2>9, EntryPlaced
  <2>10. CASE t[x] = NULL
    <3>1. RobinHood!Probe(k, st, i) = Loop(w, <<e, u, d>>, "new")
      BY <2>6, <2>8, <2>10
    <3>2. x \in RobinHood!Cells \ Taken(t0)
      BY <2>3, <2>10 DEF Taken
    <3>3. Settled(t0, k, v, w)
      BY <2>3, <2>9, <2>10, <3>2 DEF Settled
    <3>4. QED
      BY <3>1, <3>3 DEF NewKeyLoop
  <2>11. CASE t[x] # NULL /\ d > t[x][3]
    <3>1. PICK l \in Key, z \in Value, c \in RobinHood!Cells :
             /\ l = t[x][1] /\ z = t[x][2] /\ c = t[x][3]
             /\ c \in Nat /\ c + 1 \in Nat /\ d > c
      BY <2>7, <2>11
    <3>2. RobinHood!Probe(k, st, i) = Loop(w, <<l, z, c + 1>>, "none")
      BY <2>6, <2>7, <2>8, <2>11, <3>1
    <3>3. /\ RobinWhole(w)
          /\ Taken(w) = Taken(t) \union {x}
          /\ w[x] = <<e, u, d>>
          /\ \A y \in RobinHood!Cells \ {x} : w[y] = t[y]
          /\ \A y \in RobinHood!Cells : t[y] # NULL =>
                      /\ t[y][3] \in Int /\ w[y] # NULL
                      /\ w[y][3] \in Int /\ w[y][3] >= t[y][3]
          /\ Pairs(w) \union {<<l, z>>} = Pairs(t) \union {<<e, u>>}
          /\ \A y \in Taken(w) : w[y][1] # l
      <4>1. t[x][3] <= d
        BY <2>4, <3>1
      <4>2. QED
        BY <2>9, <2>11, <3>1, <4>1
    <3>4. Carrying(t0, k, v, i + 1, w, l, z, c + 1)
      <4>1. c + 1 \in 0 .. i + 1
        BY <2>3, <2>4, <3>1
      <4>2. Taken(w) = Taken(t0)
        BY <2>3, <2>7, <2>11, <3>3
      <4>3. RobinHood!Cell(l, c + 1) = RobinHood!Cell(k, i + 1)
        <5>1. RobinHood!Cell(l, c) = RobinHood!Cell(k, i)
          BY <2>2, <2>7, <2>11, <3>1
        <5>2. QED
          BY <3>1, <5>1, NextCell
      <4>4. Way(w, l, c + 1)
        <5>1. Way(w, l, c)
          <6>1. Way(t, l, c)
            BY <2>7, <2>11, <3>1
          <6>2. QED
            BY <3>3, <6>1, WayStays
        <5>2. w[RobinHood!Cell(l, c)] # NULL /\ w[RobinHood!Cell(l, c)][3] >= c
          <6>1. RobinHood!Cell(l, c) = x
            BY <2>7, <2>11, <3>1
          <6>2. w[x] # NULL /\ w[x][3] = d
            BY <2>2, <2>11, <3>3
          <6>3. QED
            BY <2>4, <3>1, <6>1, <6>2
        <5>3. \A j \in 0 .. (c + 1) - 1 : j \in 0 .. c - 1 \/ j = c
          BY <3>1
        <5>4. QED
          BY <5>1, <5>2, <5>3 DEF Way
      <4>5. \A j \in i + 1 .. RH_CAPACITY - 1 : w[RobinHood!Cell(k, j)] = t0[RobinHood!Cell(k, j)]
        <5>1. TAKE j \in i + 1 .. RH_CAPACITY - 1
        <5>2. j \in RobinHood!Cells /\ j # i /\ j \in i .. RH_CAPACITY - 1
          BY <2>4 DEF RobinHood!Cells
        <5>3. RobinHood!Cell(k, j) \in RobinHood!Cells \ {x}
          BY <2>2, <5>2, CellsOnce
        <5>4. QED
          BY <2>3, <3>3, <5>2, <5>3
      <4>6. \A j \in 0 .. (i + 1) - 1 : t0[RobinHood!Cell(k, j)] # NULL
        <5>1. \A j \in 0 .. (i + 1) - 1 : j \in 0 .. i - 1 \/ j = i
          BY <2>4
        <5>2. QED
          BY <2>2, <2>3, <2>5, <2>11, <5>1
      <4>7. Pairs(w) \union {<<l, z>>} = Pairs(t0) \union {<<k, v>>}
        BY <2>3, <3>3
      <4>8. QED
        BY <3>3, <4>1, <4>2, <4>3, <4>4, <4>5, <4>6, <4>7 DEF Carrying
    <3>5. QED
      BY <3>2, <3>4 DEF NewKeyLoop
  <2>12. CASE t[x] # NULL /\ ~ (d > t[x][3])
    <3>1. RobinHood!Probe(k, st, i) = Loop(t, <<e, u, d + 1>>, "none")
      BY <2>6, <2>7, <2>12
    <3>2. Carrying(t0, k, v, i + 1, t, e, u, d + 1)
      <4>1. d + 1 \in 0 .. i + 1
        BY <2>3, <2>4
      <4>2. RobinHood!Cell(e, d + 1) = RobinHood!Cell(k, i + 1)
        <5>1. RobinHood!Cell(e, d) = RobinHood!Cell(k, i)
          BY <2>2, <2>3
        <5>2. QED
          BY <2>3, <2>4, <5>1, NextCell
      <4>3. Way(t, e, d + 1)
        <5>1. t[x][3] >= d
          BY <2>4, <2>7, <2>12
        <5>2. \A j \in 0 .. (d + 1) - 1 : j \in 0 .. d - 1 \/ j = d
          BY <2>4
        <5>3. QED
          BY <2>3, <2>12, <5>1, <5>2 DEF Way
      <4>4. \A j \in i + 1 .. RH_CAPACITY - 1 : t[RobinHood!Cell(k, j)] = t0[RobinHood!Cell(k, j)]
        <5>1. \A j \in i + 1 .. RH_CAPACITY - 1 : j \in i .. RH_CAPACITY - 1
          BY <2>4
        <5>2. QED
          BY <2>3, <5>1
      <4>5. \A j \in 0 .. (i + 1) - 1 : t0[RobinHood!Cell(k, j)] # NULL
        <5>1. \A j \in 0 .. (i + 1) - 1 : j \in 0 .. i - 1 \/ j = i
          BY <2>4
        <5>2. QED
          BY <2>2, <2>3, <2>5, <2>12, <5>1
      <4>6. QED
        BY <2>3, <4>1, <4>2, <4>3, <4>4, <4>5 DEF Carrying
    <3>3. QED
      BY <3>1, <3>2 DEF NewKeyLoop
  <2>13. QED
    BY <2>10, <2>11, <2>12
<1>3. QED
  BY <1>1, <1>2 DEF NewKeyLoop

\* Before iteration i of a put of the key in cell x.
OldKeyLoop(t0, x, k, v, i, st) ==
    IF i <= t0[x][3] THEN st = Loop(t0, <<k, v, i>>, "none")
    ELSE st = Loop(Placed(t0, x, <<k, v, t0[x][3]>>), <<k, v, t0[x][3]>>, "update")

\* An iteration of a put of a key that is there.
LEMMA ProbeOldKey ==
  ASSUME RobinHood!HashTypeOK, NEW t0, RobinWhole(t0), NEW k \in Key, NEW v \in Value,
         NEW x \in Taken(t0), t0[x][1] = k,
         NEW i \in RobinHood!Cells, NEW st, OldKeyLoop(t0, x, k, v, i, st)
  PROVE  OldKeyLoop(t0, x, k, v, i + 1, RobinHood!Probe(k, st, i))
<1>1. /\ t0 \in RobinTables /\ x \in RobinHood!Cells /\ t0[x] # NULL
      /\ \A y, z \in Taken(t0) : t0[y][1] = t0[z][1] => y = z
  BY DEF RobinWhole, Taken
<1>2. PICK d \in RobinHood!Cells : d = t0[x][3]
  BY <1>1, TakenFacts
<1>3. x = RobinHood!Cell(k, d) /\ Way(t0, k, d)
  BY <1>2 DEF RobinWhole
<1>4. d \in Nat /\ i \in Nat
  BY TablesAssumption DEF RobinHood!Cells
<1>5. PICK y \in RobinHood!Cells : y = RobinHood!Cell(k, i)
  BY CellsOnce
<1>6. CASE i <= d
  <2>1. st = Loop(t0, <<k, v, i>>, "none")
    BY <1>2, <1>6 DEF OldKeyLoop
  <2>2. RobinHood!Probe(k, Loop(t0, <<k, v, i>>, "none"), i) =
            IF t0[y] = NULL THEN Loop(Placed(t0, y, <<k, v, i>>), <<k, v, i>>, "new")
            ELSE IF t0[y][1] = k
                 THEN Loop(Placed(t0, y, <<k, v, t0[y][3]>>), <<k, v, i>>, "update")
            ELSE IF i > t0[y][3]
                 THEN Loop(Placed(t0, y, <<k, v, i>>), <<t0[y][1], t0[y][2], t0[y][3] + 1>>, "none")
            ELSE Loop(t0, <<k, v, i + 1>>, "none")
    BY <1>1, <1>5, ProbeIs
  <2>3. CASE i = d
    <3>1. y = x
      BY <1>3, <1>5, <2>3
    <3>2. RobinHood!Probe(k, st, i) = Loop(Placed(t0, x, <<k, v, d>>), <<k, v, d>>, "update")
      BY <1>1, <1>2, <2>1, <2>2, <2>3, <3>1
    <3>3. ~ (i + 1 <= d)
      BY <1>4, <2>3
    <3>4. QED
      BY <1>2, <3>2, <3>3 DEF OldKeyLoop
  <2>4. CASE i < d
    <3>1. i \in 0 .. d - 1 /\ i + 1 <= d /\ i # d
      BY <1>4, <2>4
    <3>2. t0[y] # NULL /\ t0[y][3] >= i /\ y \in Taken(t0)
      BY <1>3, <1>5, <3>1 DEF Way, Taken
    <3>3. t0[y][1] # k
      <4>1. y # x
        BY <1>3, <1>5, <3>1, CellsOnce
      <4>2. QED
        BY <1>1, <3>2, <4>1
    <3>4. ~ (i > t0[y][3])
      <4>1. t0[y][3] \in Nat
        BY <1>1, <3>2, TakenFacts, TablesAssumption DEF RobinHood!Cells
      <4>2. QED
        BY <1>4, <3>2, <4>1
    <3>5. RobinHood!Probe(k, st, i) = Loop(t0, <<k, v, i + 1>>, "none")
      BY <2>1, <2>2, <3>2, <3>3, <3>4
    <3>6. QED
      BY <1>2, <3>1, <3>5 DEF OldKeyLoop
  <2>5. QED
    BY <1>4, <1>6, <2>3, <2>4
<1>7. CASE ~ (i <= d)
  <2>1. st = Loop(Placed(t0, x, <<k, v, d>>), <<k, v, d>>, "update")
    BY <1>2, <1>7 DEF OldKeyLoop
  <2>2. st.how # "none"
    BY <2>1 DEF Loop
  <2>3. RobinHood!Probe(k, st, i) = st
    BY <2>2 DEF RobinHood!Probe
  <2>4. ~ (i + 1 <= d)
    BY <1>4, <1>7
  <2>5. QED
    BY <1>2, <2>1, <2>3, <2>4 DEF OldKeyLoop
<1>8. QED
  BY <1>6, <1>7

\* The iterations of Put(k, v): a recursive function, and it exists.
LoopsUpTo(f, k, v, n) ==
    f = [i \in 0 .. n |-> IF i = 0 THEN Loop(rh_slots, <<k, v, 0>>, "none")
                          ELSE RobinHood!Probe(k, f[i - 1], i - 1)]

Loops(k, v) == CHOOSE f : LoopsUpTo(f, k, v, RH_CAPACITY)

\* There is such a function, whatever an iteration does.
LEMMA LoopsExist ==
  ASSUME NEW k, NEW v, NEW n \in Nat
  PROVE  \E f : LoopsUpTo(f, k, v, n)
<1> DEFINE S == {m \in Nat : \E f : LoopsUpTo(f, k, v, m)}
           start == Loop(rh_slots, <<k, v, 0>>, "none")
<1>1. 0 \in S
  <2> DEFINE f == [i \in 0 .. 0 |-> start]
  <2>1. LoopsUpTo(f, k, v, 0)
    BY DEF LoopsUpTo
  <2>2. QED
    BY <2>1
<1>2. ASSUME NEW m \in S PROVE m + 1 \in S
  <2>1. PICK f : LoopsUpTo(f, k, v, m)
    OBVIOUS
  <2> DEFINE g == [i \in 0 .. m + 1 |-> IF i = m + 1 THEN RobinHood!Probe(k, f[m], m) ELSE f[i]]
  <2>2. m \in Nat /\ (m + 1) - 1 = m /\ \A i \in 0 .. m + 1 : i = m + 1 \/ i \in 0 .. m
    OBVIOUS
  <2>3. \A i \in 0 .. m : f[i] = IF i = 0 THEN start ELSE RobinHood!Probe(k, f[i - 1], i - 1)
    BY <2>1 DEF LoopsUpTo
  <2>4. \A i \in 0 .. m + 1 : g[i] = IF i = 0 THEN start ELSE RobinHood!Probe(k, g[i - 1], i - 1)
    <3> HIDE DEF start
    <3>1. QED
      BY <2>2, <2>3
  <2>5. g = [i \in 0 .. m + 1 |-> IF i = 0 THEN start ELSE RobinHood!Probe(k, g[i - 1], i - 1)]
    <3>1. g = [i \in 0 .. m + 1 |-> g[i]]
      OBVIOUS
    <3> HIDE DEF g, start
    <3>2. QED
      BY <2>4, <3>1
  <2>6. LoopsUpTo(g, k, v, m + 1)
    BY <2>5 DEF LoopsUpTo
  <2>7. QED
    BY <2>2, <2>6
<1>3. S = Nat
  BY <1>1, <1>2, SetInduction
<1>4. QED
  BY <1>3

\* Where the loop is before iteration i, whether k is there or not.
PutLoop(k, v, i, st) ==
    \/ (\A y \in Taken(rh_slots) : rh_slots[y][1] # k) /\ NewKeyLoop(rh_slots, k, v, i, st)
    \/ \E x \in Taken(rh_slots) :
          rh_slots[x][1] = k /\ OldKeyLoop(rh_slots, x, k, v, i, st)

\* After the last iteration.
LEMMA LoopsKeep ==
  ASSUME RobinHood!HashTypeOK, RobinWhole(rh_slots), NEW k \in Key, NEW v \in Value
  PROVE  PutLoop(k, v, RH_CAPACITY, Loops(k, v)[RH_CAPACITY])
<1>1. RH_CAPACITY \in Nat \ {0}
  BY TablesAssumption
<1>2. PICK f : f = Loops(k, v) /\ LoopsUpTo(f, k, v, RH_CAPACITY)
  BY <1>1, LoopsExist DEF Loops
<1> DEFINE Good(m) == m \in 0 .. RH_CAPACITY => PutLoop(k, v, m, f[m])
           S == {m \in Nat : Good(m)}
<1>3. \A i \in 0 .. RH_CAPACITY :
        f[i] = IF i = 0 THEN Loop(rh_slots, <<k, v, 0>>, "none")
               ELSE RobinHood!Probe(k, f[i - 1], i - 1)
  BY <1>2 DEF LoopsUpTo
<1>4. 0 \in S
  <2>1. f[0] = Loop(rh_slots, <<k, v, 0>>, "none")
    BY <1>1, <1>3
  <2>2. CASE \A y \in Taken(rh_slots) : rh_slots[y][1] # k
    <3>1. Carrying(rh_slots, k, v, 0, rh_slots, k, v, 0)
      BY <2>2 DEF Carrying, Way
    <3>2. NewKeyLoop(rh_slots, k, v, 0, f[0])
      BY <2>1, <3>1 DEF NewKeyLoop
    <3>3. QED
      BY <2>2, <3>2 DEF PutLoop
  <2>3. CASE \E x \in Taken(rh_slots) : rh_slots[x][1] = k
    <3>1. PICK x \in Taken(rh_slots) : rh_slots[x][1] = k
      BY <2>3
    <3>2. rh_slots[x][3] \in RobinHood!Cells
      BY TakenFacts DEF RobinWhole
    <3>3. 0 <= rh_slots[x][3]
      BY <1>1, <3>2 DEF RobinHood!Cells
    <3>4. OldKeyLoop(rh_slots, x, k, v, 0, f[0])
      BY <2>1, <3>3 DEF OldKeyLoop
    <3>5. QED
      BY <3>1, <3>4 DEF PutLoop
  <2>4. QED
    BY <2>2, <2>3
<1>5. ASSUME NEW m \in S PROVE m + 1 \in S
  <2>1. SUFFICES ASSUME m + 1 \in 0 .. RH_CAPACITY PROVE Good(m + 1)
    OBVIOUS
  <2>2. /\ m \in 0 .. RH_CAPACITY /\ m + 1 # 0 /\ (m + 1) - 1 = m
        /\ m \in RobinHood!Cells
    BY <1>1, <2>1 DEF RobinHood!Cells
  <2>3. PutLoop(k, v, m, f[m])
    BY <2>2
  <2>4. f[m + 1] = RobinHood!Probe(k, f[m], m)
    BY <1>3, <2>1, <2>2
  <2>5. CASE (\A y \in Taken(rh_slots) : rh_slots[y][1] # k) /\ NewKeyLoop(rh_slots, k, v, m, f[m])
    <3>1. NewKeyLoop(rh_slots, k, v, m + 1, RobinHood!Probe(k, f[m], m))
      BY <2>2, <2>5, ProbeNewKey
    <3>2. QED
      BY <2>4, <2>5, <3>1 DEF PutLoop
  <2>6. CASE \E x \in Taken(rh_slots) :
                rh_slots[x][1] = k /\ OldKeyLoop(rh_slots, x, k, v, m, f[m])
    <3>1. PICK x \in Taken(rh_slots) :
             rh_slots[x][1] = k /\ OldKeyLoop(rh_slots, x, k, v, m, f[m])
      BY <2>6
    <3>2. OldKeyLoop(rh_slots, x, k, v, m + 1, RobinHood!Probe(k, f[m], m))
      BY <2>2, <3>1, ProbeOldKey
    <3>3. QED
      BY <2>4, <3>1, <3>2 DEF PutLoop
  <2>7. QED
    BY <2>3, <2>5, <2>6 DEF PutLoop
<1>6. S = Nat
  <2> HIDE DEF Good
  <2>1. S \in SUBSET Nat
    OBVIOUS
  <2> HIDE DEF S
  <2>2. QED
    BY <1>4, <1>5, <2>1, SetInduction
<1>7. QED
  BY <1>1, <1>2, <1>6

\* What the table is, and the rest of the state, make the invariant.
LEMMA RobinInvOf ==
  ASSUME NEW t, t = rh_slots', RobinHood!HashTypeOK', UNCHANGED <<h1, h2>>,
         RobinWhole(t), rh_size' = Cardinality(Taken(t)),
         rh_size' <= (RH_CAPACITY * 3) \div 4
  PROVE  RobinInv' /\ RobinContent' = Pairs(t)
<1>1. \A k, i : RobinHood!Cell(k, i)' = RobinHood!Cell(k, i)
  BY DEF RobinHood!Cell
<1>2. RobinContent' = Pairs(t)
  BY DEF RobinContent, Pairs, Taken, RobinHood!Cells
<1>3. RobinWhole(rh_slots)'
  BY <1>1 DEF RobinWhole, RobinTables, Taken, Way, RobinHood!Cells
<1>4. rh_size' = Cardinality(Taken(rh_slots)')
  BY DEF Taken, RobinHood!Cells
<1>5. QED
  BY <1>2, <1>3, <1>4 DEF RobinInv

\* A put stores its key: the loop does not end without.
LEMMA RobinPut ==
  ASSUME RobinInv, NEW k \in Key, NEW v \in Value, RobinHood!Put(k, v)
  PROVE  /\ RobinInv' /\ ret' = <<k, "stored">>
         /\ RobinContent' = With(RobinContent, k, v)
<1>1. /\ RobinHood!HashTypeOK /\ RobinWhole(rh_slots) /\ rh_slots \in RobinTables
      /\ rh_size = Cardinality(Taken(rh_slots))
  BY DEF RobinInv, RobinWhole
<1>2. PICK end : end = Loops(k, v)[RH_CAPACITY]
  OBVIOUS
<1>3. /\ ~ RobinHood!Full
      /\ rh_slots' = end.slots
      /\ rh_size' = IF end.how = "new" THEN rh_size + 1 ELSE rh_size
      /\ ret' = <<k, IF end.how = "none" THEN "refused" ELSE "stored">>
      /\ UNCHANGED <<h1, h2>>
  BY <1>2 DEF RobinHood!Put, RobinHood!Return, Loops, LoopsUpTo, Loop
<1>4. PutLoop(k, v, RH_CAPACITY, end)
  BY <1>1, <1>2, LoopsKeep
<1>5. /\ RH_CAPACITY \in Nat \ {0} /\ rh_size \in 0 .. RH_CAPACITY
      /\ IsFiniteSet(Taken(rh_slots))
  BY <1>1, TakenFacts, TablesAssumption
<1>6. rh_size < (RH_CAPACITY * 3) \div 4 /\ (RH_CAPACITY * 3) \div 4 \in Int /\ rh_size < RH_CAPACITY
  <2>1. RH_CAPACITY * 3 \in Int
    BY <1>5
  <2>2. (RH_CAPACITY * 3) \div 4 \in Int /\ (RH_CAPACITY * 3) \div 4 <= RH_CAPACITY
    BY <1>5
  <2>3. rh_size < (RH_CAPACITY * 3) \div 4
    BY <1>3, <1>5, <2>2 DEF RobinHood!Full
  <2>4. QED
    BY <1>5, <2>2, <2>3
<1>7. RobinHood!HashTypeOK' /\ (end.how # "none" => ret' = <<k, "stored">>)
  BY <1>1, <1>3 DEF RobinHood!HashTypeOK
<1>8. CASE (\A y \in Taken(rh_slots) : rh_slots[y][1] # k)
           /\ NewKeyLoop(rh_slots, k, v, RH_CAPACITY, end)
  <2>1. Without(RobinContent, k) = RobinContent
    <3>1. \A y \in Taken(rh_slots) :
             <<rh_slots[y][1], rh_slots[y][2]>> \notin {k} \X Value
      BY <1>8
    <3>2. QED
      BY <3>1 DEF RobinContent, Pairs, Without
  <2>2. CASE \E t, e, u, d : /\ end = Loop(t, <<e, u, d>>, "none")
                             /\ Carrying(rh_slots, k, v, RH_CAPACITY, t, e, u, d)
    <3>1. \A j \in 0 .. RH_CAPACITY - 1 : rh_slots[RobinHood!Cell(k, j)] # NULL
      BY <2>2 DEF Carrying
    <3>2. \A x \in RobinHood!Cells : rh_slots[x] # NULL
      <4>1. TAKE x \in RobinHood!Cells
      <4>2. PICK j \in RobinHood!Cells : RobinHood!Cell(k, j) = x
        BY <1>1, CellsOnce
      <4>3. j \in 0 .. RH_CAPACITY - 1
        BY DEF RobinHood!Cells
      <4>4. QED
        BY <3>1, <4>2, <4>3
    <3>3. Taken(rh_slots) = RobinHood!Cells
      BY <3>2 DEF Taken
    <3>4. rh_size = RH_CAPACITY
      BY <1>1, <3>3, TakenFacts
    <3>5. QED
      BY <1>5, <1>6, <3>4
  <2>3. CASE \E t, ins : end = Loop(t, ins, "new") /\ Settled(rh_slots, k, v, t)
    <3>1. PICK t, ins : end = Loop(t, ins, "new") /\ Settled(rh_slots, k, v, t)
      BY <2>3
    <3>2. end.slots = t /\ end.how = "new"
      BY <3>1 DEF Loop
    <3>3. RobinWhole(t) /\ Pairs(t) = With(RobinContent, k, v)
      BY <2>1, <3>1 DEF Settled, With, RobinContent
    <3>4. PICK x \in RobinHood!Cells \ Taken(rh_slots) : Taken(t) = Taken(rh_slots) \union {x}
      BY <3>1 DEF Settled
    <3>5. Cardinality(Taken(t)) = rh_size + 1
      BY <1>1, <1>5, <3>4, FS_AddElement
    <3>6. rh_size' = Cardinality(Taken(t)) /\ rh_size' <= (RH_CAPACITY * 3) \div 4
      BY <1>3, <1>5, <1>6, <3>2, <3>5
    <3>7. RobinInv' /\ RobinContent' = Pairs(t)
      BY <1>3, <1>7, <3>2, <3>3, <3>6, RobinInvOf
    <3>8. ret' = <<k, "stored">>
      BY <1>7, <3>2
    <3>9. QED
      BY <3>3, <3>7, <3>8
  <2>4. QED
    BY <1>8, <2>2, <2>3 DEF NewKeyLoop
<1>9. CASE \E x \in Taken(rh_slots) :
              rh_slots[x][1] = k /\ OldKeyLoop(rh_slots, x, k, v, RH_CAPACITY, end)
  <2>1. PICK x \in Taken(rh_slots) :
           rh_slots[x][1] = k /\ OldKeyLoop(rh_slots, x, k, v, RH_CAPACITY, end)
    BY <1>9
  <2>2. rh_slots[x][3] \in RobinHood!Cells
    BY <1>1, TakenFacts
  <2>3. ~ (RH_CAPACITY <= rh_slots[x][3])
    BY <1>5, <2>2 DEF RobinHood!Cells
  <2>4. PICK t : t = Placed(rh_slots, x, <<k, v, rh_slots[x][3]>>)
    OBVIOUS
  <2>5. end = Loop(t, <<k, v, rh_slots[x][3]>>, "update")
    BY <2>1, <2>3, <2>4 DEF OldKeyLoop
  <2>6. end.slots = t /\ end.how = "update"
    BY <2>5 DEF Loop
  <2>7. RobinWhole(t) /\ Taken(t) = Taken(rh_slots) /\ Pairs(t) = With(RobinContent, k, v)
    BY <1>1, <2>1, <2>4, EntryUpdated DEF RobinContent
  <2>8. rh_size' = Cardinality(Taken(t)) /\ rh_size' <= (RH_CAPACITY * 3) \div 4
    BY <1>1, <1>3, <2>6, <2>7 DEF RobinInv
  <2>9. RobinInv' /\ RobinContent' = Pairs(t)
    BY <1>3, <1>7, <2>6, <2>7, <2>8, RobinInvOf
  <2>10. ret' = <<k, "stored">>
    BY <1>7, <2>6
  <2>11. QED
    BY <2>7, <2>9, <2>10
<1>10. QED
  BY <1>4, <1>8, <1>9 DEF PutLoop

\* How far x is behind at, round the table.
Off(at, x) == (x - at) % RH_CAPACITY

\* It is a difference, or less than nothing and a round.
LEMMA OffIs ==
  ASSUME NEW at \in RobinHood!Cells, NEW x \in RobinHood!Cells
  PROVE  /\ Off(at, x) = IF x >= at THEN x - at ELSE (x - at) + RH_CAPACITY
         /\ \A i \in 0 .. RH_CAPACITY : (at + i) % RH_CAPACITY =
               IF at + i < RH_CAPACITY THEN at + i ELSE (at + i) - RH_CAPACITY
<1>1. /\ RH_CAPACITY \in Nat \ {0}
      /\ at \in 0 .. RH_CAPACITY - 1 /\ x \in 0 .. RH_CAPACITY - 1
  BY TablesAssumption DEF RobinHood!Cells
<1>2. PICK m : m = RH_CAPACITY /\ m \in Nat \ {0}
  BY <1>1
<1>3. PICK a \in Int : a = x - at
  BY <1>1
<1>4. a % m \in 0 .. m - 1 /\ a \div m \in Int /\ a = m * (a \div m) + (a % m)
  BY <1>2, DivMod
<1>5. ASSUME NEW i \in 0 .. RH_CAPACITY
      PROVE  (at + i) % RH_CAPACITY =
               IF at + i < RH_CAPACITY THEN at + i ELSE (at + i) - RH_CAPACITY
  <2>1. PICK b \in 0 .. 2 * m - 1 : b = at + i
    BY <1>1, <1>2
  <2>2. b % m = IF b < m THEN b ELSE b - m
    BY <1>2, ShortRemainder
  <2>3. QED
    BY Zenon, <1>2, <2>1, <2>2
<1>6. CASE x >= at
  <2>1. a \in 0 .. m - 1
    BY <1>1, <1>2, <1>3, <1>6
  <2>2. a % m = a
    BY <1>2, <2>1, SmallRemainder
  <2>3. Off(at, x) = x - at
    BY Zenon, <1>2, <1>3, <2>2 DEF Off
  <2>4. QED
    BY <1>5, <1>6, <2>3
<1>7. CASE ~ (x >= at)
  <2>1. a + m \in 0 .. m - 1
    BY <1>1, <1>2, <1>3, <1>7
  <2>2. m * (a \div m) + (a % m) = m * (0 - 1) + (a + m)
    BY <1>2, <1>4
  <2>3. a % m = a + m
    <3>1. 0 - 1 \in Int
      OBVIOUS
    <3>2. QED
      BY <1>2, <1>4, <2>1, <2>2, <3>1, DivModUnique
  <2>4. Off(at, x) = (x - at) + RH_CAPACITY
    BY Zenon, <1>2, <1>3, <2>3 DEF Off
  <2>5. QED
    BY <1>5, <1>7, <2>4
<1>8. QED
  BY <1>6, <1>7

\* Going round the table from at, the cells come in order, each once.
LEMMA OffFacts ==
  ASSUME NEW at \in RobinHood!Cells, NEW x \in RobinHood!Cells
  PROVE  /\ RH_CAPACITY \in Nat \ {0}
         /\ Off(at, x) \in 0 .. RH_CAPACITY - 1
         /\ After(x) \in RobinHood!Cells
         /\ (at + Off(at, x)) % RH_CAPACITY = x
         /\ (at + (Off(at, x) + 1)) % RH_CAPACITY = After(x)
         /\ Off(at, x) < RH_CAPACITY - 1 => Off(at, After(x)) = Off(at, x) + 1
         /\ Off(at, x) = 0 <=> x = at
         /\ \A y \in RobinHood!Cells : After(x) = After(y) => x = y
<1>1. /\ RH_CAPACITY \in Nat \ {0} /\ RobinHood!Cells = 0 .. RH_CAPACITY - 1
      /\ at \in 0 .. RH_CAPACITY - 1 /\ x \in 0 .. RH_CAPACITY - 1
  BY TablesAssumption DEF RobinHood!Cells
<1>2. PICK o \in 0 .. RH_CAPACITY - 1 :
         o = Off(at, x) /\ o = IF x >= at THEN x - at ELSE (x - at) + RH_CAPACITY
  BY <1>1, OffIs
<1>3. After(x) \in RobinHood!Cells /\ \A y \in RobinHood!Cells : After(x) = After(y) => x = y
  BY <1>1 DEF After
<1>4. (at + o) % RH_CAPACITY = IF at + o < RH_CAPACITY THEN at + o ELSE (at + o) - RH_CAPACITY
  <2>1. o \in 0 .. RH_CAPACITY
    BY <1>1
  <2>2. QED
    BY <2>1, OffIs
<1>5. (at + (o + 1)) % RH_CAPACITY =
         IF at + (o + 1) < RH_CAPACITY THEN at + (o + 1) ELSE (at + (o + 1)) - RH_CAPACITY
  <2>1. o + 1 \in 0 .. RH_CAPACITY
    BY <1>1
  <2>2. QED
    BY <2>1, OffIs
<1>6. (at + o) % RH_CAPACITY = x
  BY <1>1, <1>2, <1>4
<1>7. (at + (o + 1)) % RH_CAPACITY = After(x)
  BY <1>1, <1>2, <1>5 DEF After
<1>8. Off(at, After(x)) =
         IF After(x) >= at THEN After(x) - at ELSE (After(x) - at) + RH_CAPACITY
  BY <1>3, OffIs
<1>9. o < RH_CAPACITY - 1 => Off(at, After(x)) = o + 1
  BY <1>1, <1>2, <1>8 DEF After
<1>10. o = 0 <=> x = at
  BY <1>1, <1>2
<1>11. QED
  BY <1>1, <1>2, <1>3, <1>6, <1>7, <1>9, <1>10

\* A cell but at is behind another.
LEMMA OffBefore ==
  ASSUME NEW at \in RobinHood!Cells, NEW x \in RobinHood!Cells, x # at
  PROVE  \E y \in RobinHood!Cells : After(y) = x /\ Off(at, x) = Off(at, y) + 1
<1>1. /\ RH_CAPACITY \in Nat \ {0} /\ RobinHood!Cells = 0 .. RH_CAPACITY - 1
      /\ at \in 0 .. RH_CAPACITY - 1 /\ x \in 0 .. RH_CAPACITY - 1
  BY TablesAssumption DEF RobinHood!Cells
<1>2. PICK y \in RobinHood!Cells : y = IF x = 0 THEN RH_CAPACITY - 1 ELSE x - 1
  BY <1>1
<1>3. After(y) = x
  BY <1>1, <1>2 DEF After
<1>4. /\ Off(at, x) = IF x >= at THEN x - at ELSE (x - at) + RH_CAPACITY
      /\ Off(at, y) = IF y >= at THEN y - at ELSE (y - at) + RH_CAPACITY
  BY OffIs
<1>5. Off(at, x) = Off(at, y) + 1
  BY <1>1, <1>2, <1>4
<1>6. QED
  BY <1>3, <1>5

\* The entry of a cell, one nearer to its ideal cell.
Nearer(s) == <<s[1], s[2], s[3] - 1>>

\* The table w is t once the entries at distance 1 to run - 1 from at have
\* moved on by one cell.
MovedBack(t, at, run, w) ==
    w = [x \in RobinHood!Cells |->
           IF Off(at, x) < run - 1 THEN Nearer(t[After(x)])
           ELSE IF Off(at, x) = run - 1 THEN NULL ELSE t[x]]

\* The entries that move are not in their ideal cells; what is behind them is,
\* or is none.
EndsRun(t, at, run) ==
    /\ run \in 1 .. RH_CAPACITY - 1
    /\ \A x \in RobinHood!Cells : Off(at, x) \in 1 .. run - 1 => t[x] # NULL /\ t[x][3] # 0
    /\ \A x \in RobinHood!Cells : Off(at, x) = run => t[x] = NULL \/ t[x][3] = 0

\* rh_remove moves such a run if a cell is empty.
LEMMA ShiftedIs ==
  ASSUME NEW at \in Taken(rh_slots), NEW z \in RobinHood!Cells, rh_slots[z] = NULL
  PROVE  \E run : /\ EndsRun(rh_slots, at, run)
                  /\ MovedBack(rh_slots, at, run, RobinHood!Shifted(at))
<1> DEFINE Beh(i) == rh_slots[(at + i) % RH_CAPACITY]
           S == {i \in 1 .. RH_CAPACITY - 1 : Beh(i) = NULL \/ Beh(i)[3] = 0}
           T == {RH_CAPACITY} \union S
           run == RobinHood!Min(T)
<1>1. RH_CAPACITY \in Nat \ {0} /\ at \in RobinHood!Cells /\ at # z
  BY TablesAssumption DEF Taken
<1>2. \A x \in RobinHood!Cells :
         /\ Off(at, x) \in 0 .. RH_CAPACITY - 1
         /\ (at + Off(at, x)) % RH_CAPACITY = x
         /\ (at + (Off(at, x) + 1)) % RH_CAPACITY = After(x)
         /\ Off(at, x) = 0 <=> x = at
  BY <1>1, OffFacts
<1>3. Off(at, z) \in S
  <2>1. Off(at, z) \in 1 .. RH_CAPACITY - 1
    BY <1>1, <1>2
  <2>2. Beh(Off(at, z)) = NULL
    BY <1>2
  <2>3. QED
    BY <2>1, <2>2
<1>4. T \in SUBSET Nat /\ T # {}
  BY <1>1
<1>5. run \in T /\ \A j \in T : run <= j
  <2> HIDE DEF T
  <2>1. QED
    BY <1>4, LeastOf
<1>6. run \in S
  <2>1. Off(at, z) \in T /\ Off(at, z) < RH_CAPACITY /\ Off(at, z) \in Int
    BY <1>1, <1>3
  <2>2. PICK r : r = run
    OBVIOUS
  <2>3. r <= Off(at, z) /\ r \in T /\ r \in Nat
    BY <1>4, <1>5, <2>1, <2>2
  <2>4. r # RH_CAPACITY
    BY <1>1, <2>1, <2>3
  <2>5. QED
    BY <2>2, <2>3, <2>4
<1>7. PICK r \in 1 .. RH_CAPACITY - 1 : r = run /\ (Beh(r) = NULL \/ Beh(r)[3] = 0)
  BY <1>6
<1>8. ASSUME NEW x \in RobinHood!Cells, Off(at, x) \in 1 .. r - 1
      PROVE  rh_slots[x] # NULL /\ rh_slots[x][3] # 0
  <2>1. PICK o \in 1 .. r - 1 : o = Off(at, x)
    BY <1>8
  <2>2. o \in 1 .. RH_CAPACITY - 1 /\ ~ (r <= o)
    BY <1>1, <2>1
  <2>3. o \notin S
    BY <1>5, <1>7, <2>2
  <2>4. Beh(o) # NULL /\ Beh(o)[3] # 0
    BY <2>2, <2>3
  <2>5. Beh(o) = rh_slots[x]
    BY <1>2, <2>1
  <2>6. QED
    BY <2>4, <2>5
<1>9. ASSUME NEW x \in RobinHood!Cells, Off(at, x) = r
      PROVE  rh_slots[x] = NULL \/ rh_slots[x][3] = 0
  <2>1. Beh(r) = rh_slots[x]
    BY <1>2, <1>9
  <2>2. QED
    BY <1>7, <2>1
<1>10. EndsRun(rh_slots, at, r)
  BY <1>7, <1>8, <1>9 DEF EndsRun
<1>11. RobinHood!Shifted(at) =
         [x \in RobinHood!Cells |->
            IF Off(at, x) < run - 1 THEN Nearer(Beh(Off(at, x) + 1))
            ELSE IF Off(at, x) = run - 1 THEN NULL ELSE rh_slots[x]]
  BY DEF RobinHood!Shifted, Off, Nearer
<1>12. \A x \in RobinHood!Cells : Beh(Off(at, x) + 1) = rh_slots[After(x)]
  BY <1>2
<1>13. MovedBack(rh_slots, at, r, RobinHood!Shifted(at))
  <2> HIDE DEF Beh, run
  <2>1. QED
    BY <1>7, <1>11, <1>12 DEF MovedBack
<1>14. QED
  BY <1>10, <1>13

\* As many entries as pairs.
LEMMA PairsCount ==
  ASSUME NEW t, RobinWhole(t)
  PROVE  IsFiniteSet(Pairs(t)) /\ Cardinality(Pairs(t)) = Cardinality(Taken(t))
<1> DEFINE f == [x \in Taken(t) |-> <<t[x][1], t[x][2]>>]
<1>1. t \in RobinTables /\ \A x, y \in Taken(t) : t[x][1] = t[y][1] => x = y
  BY DEF RobinWhole
<1>2. f \in [Taken(t) -> Pairs(t)]
  BY DEF Pairs
<1>3. \A x, y \in Taken(t) : f[x] = f[y] => x = y
  <2>1. SUFFICES ASSUME NEW x \in Taken(t), NEW y \in Taken(t), f[x] = f[y] PROVE x = y
    OBVIOUS
  <2>2. <<t[x][1], t[x][2]>> = <<t[y][1], t[y][2]>>
    BY <2>1
  <2>3. t[x][1] = t[y][1]
    BY <2>2
  <2>4. QED
    BY <1>1, <2>3
<1>4. \A p \in Pairs(t) : \E x \in Taken(t) : f[x] = p
  BY DEF Pairs
<1> HIDE DEF f
<1>5. f \in Bijection(Taken(t), Pairs(t))
  BY <1>2, <1>3, <1>4 DEF Bijection, Injection, Surjection, IsInjective
<1>6. IsFiniteSet(Taken(t))
  BY <1>1, TakenFacts
<1>7. QED
  BY <1>5, <1>6, FS_Bijection DEF ExistsBijection

\* Every cell after a run has moved back: what it holds, and where from.
LEMMA MovedCells ==
  ASSUME NEW t, RobinWhole(t), NEW at \in Taken(t), NEW run, EndsRun(t, at, run),
         NEW w, MovedBack(t, at, run, w), NEW x \in RobinHood!Cells
  PROVE  \/ /\ Off(at, x) < run - 1 /\ Off(at, After(x)) \in 1 .. run - 1
            /\ After(x) \in Taken(t) \ {at}
            /\ t[After(x)][3] \in RobinHood!Cells \ {0} /\ t[After(x)][3] \in Nat
            /\ w[x] = Nearer(t[After(x)]) /\ x \in Taken(w)
            /\ w[x] \in Key \X Value \X RobinHood!Cells
         \/ /\ Off(at, x) = run - 1 /\ w[x] = NULL
            /\ t[After(x)] = NULL \/ t[After(x)][3] = 0
         \/ /\ Off(at, x) >= run /\ w[x] = t[x] /\ x # at
<1>1. /\ at \in RobinHood!Cells /\ t \in RobinTables
      /\ \A y \in Taken(t) : /\ y \in RobinHood!Cells /\ t[y] # NULL
                             /\ t[y] \in Key \X Value \X RobinHood!Cells
                             /\ t[y][1] \in Key /\ t[y][2] \in Value
                             /\ t[y][3] \in RobinHood!Cells
  <2>1. t \in RobinTables
    BY DEF RobinWhole
  <2>2. QED
    BY <2>1, TakenFacts
<1>2. /\ RH_CAPACITY \in Nat \ {0} /\ RobinHood!Cells = 0 .. RH_CAPACITY - 1
      /\ Off(at, x) \in 0 .. RH_CAPACITY - 1 /\ After(x) \in RobinHood!Cells
      /\ Off(at, x) < RH_CAPACITY - 1 => Off(at, After(x)) = Off(at, x) + 1
      /\ Off(at, x) = 0 <=> x = at
      /\ Off(at, After(x)) = 0 <=> After(x) = at
  BY <1>1, OffFacts DEF RobinHood!Cells
<1>3. /\ run \in 1 .. RH_CAPACITY - 1
      /\ \A y \in RobinHood!Cells : Off(at, y) \in 1 .. run - 1 => t[y] # NULL /\ t[y][3] # 0
      /\ \A y \in RobinHood!Cells : Off(at, y) = run => t[y] = NULL \/ t[y][3] = 0
  BY DEF EndsRun
<1>4. w[x] = IF Off(at, x) < run - 1 THEN Nearer(t[After(x)])
             ELSE IF Off(at, x) = run - 1 THEN NULL ELSE t[x]
  BY DEF MovedBack
<1>5. PICK o \in 0 .. RH_CAPACITY - 1, r \in 1 .. RH_CAPACITY - 1 : o = Off(at, x) /\ r = run
  BY <1>2, <1>3
<1>6. CASE o < r - 1
  <2>1. /\ Off(at, x) < run - 1 /\ Off(at, x) < RH_CAPACITY - 1
        /\ o + 1 \in 1 .. r - 1 /\ o + 1 # 0
    BY <1>2, <1>5, <1>6
  <2>2. Off(at, After(x)) \in 1 .. run - 1 /\ Off(at, After(x)) # 0
    BY <1>2, <1>5, <2>1
  <2>3. After(x) \in Taken(t) \ {at} /\ t[After(x)][3] # 0
    BY <1>2, <1>3, <2>2 DEF Taken
  <2>4. PICK l \in Key, v \in Value, d \in RobinHood!Cells :
           /\ l = t[After(x)][1] /\ v = t[After(x)][2] /\ d = t[After(x)][3]
           /\ d # 0 /\ d \in Nat
    BY <1>1, <1>2, <2>3
  <2>5. d - 1 \in RobinHood!Cells /\ w[x] = <<l, v, d - 1>>
    BY <1>2, <1>4, <2>1, <2>4 DEF Nearer
  <2>6. w[x] \in Key \X Value \X RobinHood!Cells /\ w[x] # NULL
    BY <2>5, NullIsNoEntry
  <2>7. w[x] = Nearer(t[After(x)]) /\ x \in Taken(w)
    BY <1>4, <2>1, <2>6 DEF Taken
  <2>8. QED
    BY <2>1, <2>2, <2>3, <2>4, <2>6, <2>7
<1>7. CASE o = r - 1
  <2>1. Off(at, x) < RH_CAPACITY - 1 /\ o + 1 = r
    BY <1>2, <1>5, <1>7
  <2>2. Off(at, After(x)) = run
    BY <1>2, <1>5, <2>1
  <2>3. w[x] = NULL
    <3>1. ~ (Off(at, x) < run - 1) /\ Off(at, x) = run - 1
      BY <1>5, <1>7
    <3>2. QED
      BY <1>4, <3>1
  <2>4. QED
    BY <1>2, <1>3, <1>5, <1>7, <2>2, <2>3
<1>8. CASE o >= r
  <2>1. ~ (Off(at, x) < run - 1) /\ Off(at, x) # run - 1 /\ Off(at, x) >= run /\ Off(at, x) # 0
    BY <1>5, <1>8
  <2>2. QED
    BY <1>2, <1>4, <2>1
<1>9. QED
  BY <1>5, <1>6, <1>7, <1>8

\* A taken cell after the run has moved holds what one cell held before.
LEMMA MovedFrom ==
  ASSUME NEW t, RobinWhole(t), NEW at \in Taken(t), NEW run, EndsRun(t, at, run),
         NEW w, MovedBack(t, at, run, w)
  PROVE  /\ w \in RobinTables
         /\ \A x \in Taken(w) : \E z \in Taken(t) \ {at} :
               /\ w[x][1] = t[z][1] /\ w[x][2] = t[z][2]
               /\ z = IF Off(at, x) < run - 1 THEN After(x) ELSE x
               /\ Off(at, x) < run - 1 => Off(at, z) \in 1 .. run - 1
               /\ ~ (Off(at, x) < run - 1) => Off(at, z) >= run
               /\ w[x][3] = IF Off(at, x) < run - 1 THEN t[z][3] - 1 ELSE t[z][3]
         /\ \A z \in Taken(t) \ {at} : \E x \in Taken(w) :
               w[x][1] = t[z][1] /\ w[x][2] = t[z][2]
<1> DEFINE A(x) == /\ Off(at, x) < run - 1 /\ Off(at, After(x)) \in 1 .. run - 1
                   /\ After(x) \in Taken(t) \ {at}
                   /\ t[After(x)][3] \in RobinHood!Cells \ {0} /\ t[After(x)][3] \in Nat
                   /\ w[x] = Nearer(t[After(x)]) /\ x \in Taken(w)
                   /\ w[x] \in Key \X Value \X RobinHood!Cells
           B(x) == /\ Off(at, x) = run - 1 /\ w[x] = NULL
                   /\ t[After(x)] = NULL \/ t[After(x)][3] = 0
           D(x) == Off(at, x) >= run /\ w[x] = t[x] /\ x # at
<1>1. \A x \in RobinHood!Cells : A(x) \/ B(x) \/ D(x)
  BY MovedCells
<1>2. /\ t \in RobinTables /\ run \in 1 .. RH_CAPACITY - 1 /\ RH_CAPACITY \in Nat \ {0}
      /\ at \in RobinHood!Cells
  BY TablesAssumption DEF RobinWhole, EndsRun, Taken
<1>3. \A x \in RobinHood!Cells : Off(at, x) \in 0 .. RH_CAPACITY - 1 /\ (Off(at, x) = 0 <=> x = at)
  BY <1>2, OffFacts
<1> HIDE DEF A, B, D
<1>4. w \in RobinTables
  <2>1. \A x \in RobinHood!Cells : w[x] \in (Key \X Value \X RobinHood!Cells) \union {NULL}
    <3>1. TAKE x \in RobinHood!Cells
    <3>2. CASE A(x)
      BY <3>2 DEF A
    <3>3. CASE B(x)
      BY <3>3 DEF B
    <3>4. CASE D(x)
      BY <1>2, <3>4 DEF D, RobinTables
    <3>5. QED
      BY <1>1, <3>2, <3>3, <3>4
  <2>2. w = [x \in RobinHood!Cells |-> w[x]]
    BY DEF MovedBack
  <2>3. QED
    BY <2>1, <2>2 DEF RobinTables
<1>5. ASSUME NEW x \in Taken(w)
      PROVE  \E z \in Taken(t) \ {at} :
               /\ w[x][1] = t[z][1] /\ w[x][2] = t[z][2]
               /\ z = IF Off(at, x) < run - 1 THEN After(x) ELSE x
               /\ Off(at, x) < run - 1 => Off(at, z) \in 1 .. run - 1
               /\ ~ (Off(at, x) < run - 1) => Off(at, z) >= run
               /\ w[x][3] = IF Off(at, x) < run - 1 THEN t[z][3] - 1 ELSE t[z][3]
  <2>1. x \in RobinHood!Cells /\ w[x] # NULL
    BY DEF Taken
  <2>2. CASE A(x)
    <3>1. PICK z \in Taken(t) \ {at} : z = After(x)
      BY <2>2 DEF A
    <3>2. /\ w[x][1] = t[z][1] /\ w[x][2] = t[z][2] /\ w[x][3] = t[z][3] - 1
          /\ Off(at, x) < run - 1 /\ Off(at, z) \in 1 .. run - 1
      BY <2>2, <3>1 DEF A, Nearer
    <3>3. QED
      BY <3>1, <3>2
  <2>3. CASE D(x)
    <3>1. x \in Taken(t) \ {at} /\ ~ (Off(at, x) < run - 1) /\ Off(at, x) >= run /\ w[x] = t[x]
      BY <1>2, <1>3, <2>1, <2>3 DEF D, Taken
    <3>2. QED
      BY <3>1
  <2>4. QED
    BY <1>1, <2>1, <2>2, <2>3 DEF B
<1>6. ASSUME NEW z \in Taken(t) \ {at}
      PROVE  \E x \in Taken(w) : w[x][1] = t[z][1] /\ w[x][2] = t[z][2]
  <2>1. z \in RobinHood!Cells /\ t[z] # NULL
    BY DEF Taken
  <2>2. PICK o \in 0 .. RH_CAPACITY - 1 : o = Off(at, z) /\ o # 0
    BY <1>3, <2>1
  <2>3. CASE o < run
    <3>1. PICK x \in RobinHood!Cells : After(x) = z /\ Off(at, z) = Off(at, x) + 1
      BY <1>2, <2>1, OffBefore
    <3>2. Off(at, x) < run - 1 /\ ~ (Off(at, x) >= run) /\ Off(at, x) # run - 1
      BY <1>2, <1>3, <2>2, <2>3, <3>1
    <3>3. A(x)
      BY <1>1, <3>2 DEF B, D
    <3>4. QED
      BY <3>1, <3>3 DEF A, Nearer
  <2>4. CASE o >= run
    <3>1. ~ (Off(at, z) < run - 1) /\ Off(at, z) # run - 1
      BY <1>2, <2>2, <2>4
    <3>2. D(z)
      BY <1>1, <2>1, <3>1 DEF A, B
    <3>3. z \in Taken(w) /\ w[z] = t[z]
      BY <2>1, <3>2 DEF D, Taken
    <3>4. QED
      BY <3>3
  <2>5. QED
    BY <1>2, <2>2, <2>3, <2>4
<1>7. QED
  BY <1>4, <1>5, <1>6

\* The table is whole after the run has moved, and only the key of at is gone.
LEMMA MovedWhole ==
  ASSUME RobinHood!HashTypeOK, NEW t, RobinWhole(t), NEW at \in Taken(t),
         NEW run, EndsRun(t, at, run), NEW w, MovedBack(t, at, run, w)
  PROVE  RobinWhole(w) /\ Pairs(w) = Without(Pairs(t), t[at][1])
<1>1. /\ t \in RobinTables /\ run \in 1 .. RH_CAPACITY - 1 /\ RH_CAPACITY \in Nat \ {0}
      /\ at \in RobinHood!Cells
      /\ \A x \in Taken(t) : x = RobinHood!Cell(t[x][1], t[x][3]) /\ Way(t, t[x][1], t[x][3])
      /\ \A x, y \in Taken(t) : t[x][1] = t[y][1] => x = y
  BY TablesAssumption DEF RobinWhole, EndsRun, Taken
<1>2. \A x \in Taken(t) : /\ x \in RobinHood!Cells /\ t[x] # NULL
                          /\ t[x][1] \in Key /\ t[x][2] \in Value
                          /\ t[x][3] \in RobinHood!Cells /\ t[x][3] \in Nat
  <2>1. RobinHood!Cells \subseteq Nat
    BY <1>1 DEF RobinHood!Cells
  <2>2. QED
    BY <1>1, <2>1, TakenFacts
<1>3. /\ w \in RobinTables
      /\ \A x \in Taken(w) : \E z \in Taken(t) \ {at} :
               /\ w[x][1] = t[z][1] /\ w[x][2] = t[z][2]
               /\ z = IF Off(at, x) < run - 1 THEN After(x) ELSE x
               /\ Off(at, x) < run - 1 => Off(at, z) \in 1 .. run - 1
               /\ ~ (Off(at, x) < run - 1) => Off(at, z) >= run
               /\ w[x][3] = IF Off(at, x) < run - 1 THEN t[z][3] - 1 ELSE t[z][3]
      /\ \A z \in Taken(t) \ {at} : \E x \in Taken(w) :
               w[x][1] = t[z][1] /\ w[x][2] = t[z][2]
  BY MovedFrom
<1>4. ASSUME NEW x \in Taken(w), NEW y \in Taken(w), w[x][1] = w[y][1] PROVE x = y
  <2>1. PICK z \in Taken(t) \ {at} :
               /\ w[x][1] = t[z][1]
               /\ z = IF Off(at, x) < run - 1 THEN After(x) ELSE x
               /\ Off(at, x) < run - 1 => Off(at, z) \in 1 .. run - 1
               /\ ~ (Off(at, x) < run - 1) => Off(at, z) >= run
    BY <1>3
  <2>2. PICK v \in Taken(t) \ {at} :
               /\ w[y][1] = t[v][1]
               /\ v = IF Off(at, y) < run - 1 THEN After(y) ELSE y
               /\ Off(at, y) < run - 1 => Off(at, v) \in 1 .. run - 1
               /\ ~ (Off(at, y) < run - 1) => Off(at, v) >= run
    BY <1>3
  <2>3. z = v
    BY <1>1, <1>4, <2>1, <2>2
  <2>4. x \in RobinHood!Cells /\ y \in RobinHood!Cells
    BY DEF Taken
  <2>5. Off(at, x) < run - 1 <=> Off(at, y) < run - 1
    BY <1>1, <2>1, <2>2, <2>3
  <2>6. \A a, b \in RobinHood!Cells : After(a) = After(b) => a = b
    BY <1>1, OffFacts
  <2>7. QED
    BY <2>1, <2>2, <2>3, <2>4, <2>5, <2>6
<1>5. ASSUME NEW p \in RobinHood!Cells, NEW j \in Nat, t[p] # NULL, t[p][3] >= j,
             After(p) \in Taken(t), t[After(p)][3] >= j + 1
      PROVE  w[p] # NULL /\ w[p][3] >= j
  <2>1. \/ /\ Off(at, p) < run - 1 /\ Off(at, After(p)) \in 1 .. run - 1
           /\ After(p) \in Taken(t) \ {at}
           /\ t[After(p)][3] \in RobinHood!Cells \ {0} /\ t[After(p)][3] \in Nat
           /\ w[p] = Nearer(t[After(p)]) /\ p \in Taken(w)
           /\ w[p] \in Key \X Value \X RobinHood!Cells
        \/ /\ Off(at, p) = run - 1 /\ w[p] = NULL
           /\ t[After(p)] = NULL \/ t[After(p)][3] = 0
        \/ /\ Off(at, p) >= run /\ w[p] = t[p] /\ p # at
    BY MovedCells
  <2>2. CASE w[p] = Nearer(t[After(p)]) /\ p \in Taken(w)
    <3>1. PICK c \in Nat : c = t[After(p)][3]
      BY <1>2, <1>5
    <3>2. w[p][3] = c - 1
      BY <2>2, <3>1 DEF Nearer
    <3>3. QED
      BY <1>5, <2>2, <3>1, <3>2 DEF Taken
  <2>3. CASE t[After(p)] = NULL \/ t[After(p)][3] = 0
    <3>1. t[After(p)] # NULL /\ t[After(p)][3] # 0
      BY <1>2, <1>5
    <3>2. QED
      BY <2>3, <3>1
  <2>4. CASE w[p] = t[p]
    BY <1>5, <2>4
  <2>5. QED
    BY <2>1, <2>2, <2>3, <2>4
<1>6. ASSUME NEW x \in Taken(w)
      PROVE  x = RobinHood!Cell(w[x][1], w[x][3]) /\ Way(w, w[x][1], w[x][3])
  <2>1. PICK z \in Taken(t) \ {at} :
               /\ w[x][1] = t[z][1]
               /\ z = IF Off(at, x) < run - 1 THEN After(x) ELSE x
               /\ w[x][3] = IF Off(at, x) < run - 1 THEN t[z][3] - 1 ELSE t[z][3]
    BY <1>3
  <2>2. PICK k \in Key, c \in RobinHood!Cells : k = t[z][1] /\ c = t[z][3] /\ c \in Nat
    BY <1>2
  <2>3. z = RobinHood!Cell(k, c) /\ Way(t, k, c)
    BY <1>1, <2>2
  <2>4. PICK d : d = w[x][3]
    OBVIOUS
  <2>5. x \in RobinHood!Cells
    BY DEF Taken
  <2>6. /\ w[x][1] = k /\ d \in RobinHood!Cells /\ d \in Nat /\ d <= c
        /\ x = RobinHood!Cell(k, d)
    <3>1. CASE Off(at, x) < run - 1
      <4>1. z = After(x) /\ d = c - 1
        BY <2>1, <2>2, <2>4, <3>1
      <4>2. w[x] \in Key \X Value \X RobinHood!Cells
        BY <1>3, <2>5 DEF RobinTables, Taken
      <4>3. d \in RobinHood!Cells /\ d \in Nat
        BY <1>1, <2>4, <4>2 DEF RobinHood!Cells
      <4>4. d + 1 = c
        BY <2>2, <4>1, <4>3
      <4>5. RobinHood!Cell(k, d + 1) = After(RobinHood!Cell(k, d))
        BY <4>3, NextCell
      <4>6. RobinHood!Cell(k, d) \in RobinHood!Cells
        BY <4>3, CellsOnce
      <4>7. \A a, b \in RobinHood!Cells : After(a) = After(b) => a = b
        BY <1>1, OffFacts
      <4>8. x = RobinHood!Cell(k, d)
        BY <2>3, <2>5, <4>1, <4>4, <4>5, <4>6, <4>7
      <4>9. QED
        BY <2>1, <2>2, <4>3, <4>4, <4>8
    <3>2. CASE ~ (Off(at, x) < run - 1)
      BY <2>1, <2>2, <2>3, <2>4, <3>2
    <3>3. QED
      BY <3>1, <3>2
  <2>7. ASSUME NEW j \in 0 .. d - 1
        PROVE  w[RobinHood!Cell(k, j)] # NULL /\ w[RobinHood!Cell(k, j)][3] >= j
    <3>1. /\ j \in Nat /\ j \in RobinHood!Cells /\ j + 1 <= c /\ j \in 0 .. c - 1
          /\ j + 1 = c \/ j + 1 \in 0 .. c - 1
      BY <1>1, <2>6, <2>2 DEF RobinHood!Cells
    <3>2. PICK p \in RobinHood!Cells : p = RobinHood!Cell(k, j)
      BY <3>1, CellsOnce
    <3>3. PICK q : q = RobinHood!Cell(k, j + 1) /\ q = After(p)
      BY <3>1, <3>2, NextCell
    <3>4. t[p] # NULL /\ t[p][3] >= j
      BY <2>3, <3>1, <3>2 DEF Way
    <3>5. q \in Taken(t) /\ t[q][3] >= j + 1
      <4>1. CASE j + 1 = c
        <5>1. q = z
          BY Zenon, <2>3, <3>3, <4>1
        <5>2. t[z][3] >= j + 1
          BY <2>2, <4>1
        <5>3. QED
          BY <5>1, <5>2
      <4>2. CASE j + 1 \in 0 .. c - 1
        <5>1. t[q] # NULL /\ t[q][3] >= j + 1
          BY <2>3, <3>3, <4>2 DEF Way
        <5>2. q \in RobinHood!Cells
          BY <1>1, <3>2, <3>3, OffFacts
        <5>3. QED
          BY <5>1, <5>2 DEF Taken
      <4>3. QED
        BY <3>1, <4>1, <4>2
    <3>6. w[p] # NULL /\ w[p][3] >= j
      BY <1>5, <3>1, <3>3, <3>4, <3>5
    <3>7. QED
      BY <3>2, <3>6
  <2>8. Way(w, k, d)
    BY <2>7 DEF Way
  <2>9. QED
    BY <2>4, <2>6, <2>8
<1>7. RobinWhole(w)
  BY <1>3, <1>4, <1>6 DEF RobinWhole
<1>8. Pairs(w) = {<<t[z][1], t[z][2]>> : z \in Taken(t) \ {at}}
  <2>1. \A x \in Taken(w) : \E z \in Taken(t) \ {at} :
           <<w[x][1], w[x][2]>> = <<t[z][1], t[z][2]>>
    BY <1>3
  <2>2. \A z \in Taken(t) \ {at} : \E x \in Taken(w) :
           <<w[x][1], w[x][2]>> = <<t[z][1], t[z][2]>>
    BY <1>3
  <2>3. QED
    BY <2>1, <2>2 DEF Pairs
<1>9. {<<t[z][1], t[z][2]>> : z \in Taken(t) \ {at}} = Without(Pairs(t), t[at][1])
  <2>1. PICK k : k = t[at][1]
    OBVIOUS
  <2>2. QED
    BY <1>1, <2>1, PairsBut
<1>10. QED
  BY <1>7, <1>8, <1>9

\* A call that changes no slot.
LEMMA RobinSame ==
  ASSUME RobinInv, UNCHANGED <<rh_slots, rh_size, h1, h2>>, RobinHood!HashTypeOK'
  PROVE  RobinInv' /\ RobinContent' = RobinContent
<1>1. PICK t : t = rh_slots'
  OBVIOUS
<1>2. /\ RobinWhole(t) /\ rh_size' = Cardinality(Taken(t))
      /\ rh_size' <= (RH_CAPACITY * 3) \div 4 /\ Pairs(t) = RobinContent
  BY <1>1 DEF RobinInv, RobinContent
<1>3. QED
  BY <1>1, <1>2, RobinInvOf

\* A removal shifts back what is behind.
LEMMA RobinRemove ==
  ASSUME RobinInv, NEW k \in Key, RobinHood!RemoveKey(k)
  PROVE  /\ RobinInv' /\ ret' = <<k, "removed">>
         /\ ValueIn(RobinContent, k) # Missing
         /\ RobinContent' = Without(RobinContent, k)
<1>1. /\ RobinHood!HashTypeOK /\ RobinWhole(rh_slots) /\ rh_slots \in RobinTables
      /\ rh_size = Cardinality(Taken(rh_slots)) /\ rh_size <= (RH_CAPACITY * 3) \div 4
  BY DEF RobinInv, RobinWhole
<1>2. /\ RobinHood!Found(k)
      /\ rh_slots' = RobinHood!Shifted(RobinHood!Cell(k, RobinHood!Stop(k)))
      /\ rh_size' = rh_size - 1 /\ ret' = <<k, "removed">> /\ UNCHANGED <<h1, h2>>
  BY DEF RobinHood!RemoveKey, RobinHood!Return
<1>3. PICK at \in Taken(rh_slots) :
         at = RobinHood!Cell(k, RobinHood!Stop(k)) /\ rh_slots[at][1] = k
  BY <1>1, <1>2, FoundIsTaken
<1>4. /\ RH_CAPACITY \in Nat \ {0} /\ rh_size \in 0 .. RH_CAPACITY
      /\ IsFiniteSet(Taken(rh_slots))
      /\ Cardinality(RobinHood!Cells) = RH_CAPACITY
      /\ (RH_CAPACITY * 3) \div 4 \in Int /\ (RH_CAPACITY * 3) \div 4 < RH_CAPACITY
  <2>1. RH_CAPACITY \in Nat \ {0}
    BY TablesAssumption
  <2>2. (RH_CAPACITY * 3) \div 4 \in Int /\ (RH_CAPACITY * 3) \div 4 < RH_CAPACITY
    BY <2>1
  <2>3. QED
    BY <1>1, <2>1, <2>2, TakenFacts
<1>5. PICK z \in RobinHood!Cells : rh_slots[z] = NULL
  <2>1. SUFFICES ASSUME \A z \in RobinHood!Cells : rh_slots[z] # NULL PROVE FALSE
    OBVIOUS
  <2>2. Taken(rh_slots) = RobinHood!Cells
    BY <2>1 DEF Taken
  <2>3. rh_size = RH_CAPACITY
    BY <1>1, <1>4, <2>2
  <2>4. QED
    BY <1>1, <1>4, <2>3
<1>6. PICK w : w = RobinHood!Shifted(at)
  OBVIOUS
<1>7. PICK run : EndsRun(rh_slots, at, run) /\ MovedBack(rh_slots, at, run, w)
  BY <1>5, <1>6, ShiftedIs
<1>8. RobinWhole(w) /\ Pairs(w) = Without(RobinContent, k)
  BY <1>1, <1>3, <1>7, MovedWhole DEF RobinContent
<1>9. /\ IsMap(RobinContent) /\ IsFiniteSet(RobinContent)
      /\ Cardinality(RobinContent) = rh_size
  BY <1>1, PairsAreMap, PairsCount DEF RobinContent
<1>10. rh_slots[at][2] \in Value /\ <<k, rh_slots[at][2]>> \in RobinContent
  BY <1>1, <1>3, TakenFacts DEF RobinContent, Pairs
<1>11. Cardinality(Without(RobinContent, k)) = rh_size - 1
  BY <1>9, <1>10, ContentSize
<1>12. rh_size' = Cardinality(Taken(w)) /\ rh_size' <= (RH_CAPACITY * 3) \div 4
  <2>1. Cardinality(Taken(w)) = rh_size - 1
    BY <1>8, <1>11, PairsCount
  <2>2. QED
    BY <1>1, <1>2, <1>4, <2>1
<1>13. RobinHood!HashTypeOK'
  BY <1>1, <1>2 DEF RobinHood!HashTypeOK
<1>14. RobinInv' /\ RobinContent' = Pairs(w)
  <2>1. w = rh_slots'
    BY <1>2, <1>3, <1>6
  <2>2. QED
    BY <1>2, <1>8, <1>12, <1>13, <2>1, RobinInvOf
<1>15. ValueIn(RobinContent, k) # Missing
  BY <1>10, ValueInIsValue, HashAssumption
<1>16. QED
  BY <1>2, <1>8, <1>14, <1>15

\* Every call keeps the invariant and does what a map does.
LEMMA RobinStep ==
  ASSUME RobinInv, RobinHood!Next
  PROVE  RobinInv' /\ ContentStep(RobinContent, RobinContent')
<1>1. PICK k \in Key : \/ RobinHood!PutRefused(k) \/ RobinHood!RemoveKey(k)
                       \/ RobinHood!RemoveAbsent(k) \/ \E v \in Value : RobinHood!Put(k, v)
  BY DEF RobinHood!Next
<1>2. RobinHood!HashTypeOK
  BY DEF RobinInv
<1>3. CASE RobinHood!PutRefused(k)
  <2>1. UNCHANGED <<rh_slots, rh_size, h1, h2>> /\ ret' = <<k, "refused">>
    BY <1>3 DEF RobinHood!PutRefused, RobinHood!Return
  <2>2. RobinHood!HashTypeOK'
    BY <1>2, <2>1 DEF RobinHood!HashTypeOK
  <2>3. QED
    BY <2>1, <2>2, RobinSame DEF ContentStep
<1>4. CASE RobinHood!RemoveAbsent(k)
  <2>1. /\ UNCHANGED <<rh_slots, rh_size, h1, h2>> /\ ret' = <<k, "absent">>
        /\ ~ RobinHood!Found(k)
    BY <1>4 DEF RobinHood!RemoveAbsent, RobinHood!Return
  <2>2. RobinHood!HashTypeOK'
    BY <1>2, <2>1 DEF RobinHood!HashTypeOK
  <2>3. ValueIn(RobinContent, k) = Missing
    BY <2>1, RobinFindsContent DEF RobinAnswers, RobinHood!rh_get
  <2>4. QED
    BY <2>1, <2>2, <2>3, RobinSame DEF ContentStep
<1>5. CASE RobinHood!RemoveKey(k)
  BY <1>5, RobinRemove DEF ContentStep
<1>6. CASE \E v \in Value : RobinHood!Put(k, v)
  BY <1>6, RobinPut DEF ContentStep
<1>7. QED
  BY <1>1, <1>3, <1>4, <1>5, <1>6

-----------------------------------------------------------------------------
(* The four tables together: a call changes the table under test only.     *)

\* No key of an open addressing table is updated behind a tombstone.
UpdatesInPlace == ~ (UpdateBehindTombstone /\ "open" \in Units)

\* All the tables hold what their invariants say.
TablesInv ==
    /\ unit \in Units
    /\ OpenInv /\ CuckooInv /\ HmInv /\ RobinInv
    /\ UpdatesInPlace => OpenKeysOnce

\* A call of another table.
LEMMA CuckooSame ==
  ASSUME CuckooInv, UNCHANGED <<table1, table2, ck_size, h1, h2>>, Cuckoo!HashTypeOK'
  PROVE  CuckooInv' /\ CuckooContent' = CuckooContent
<1>1. PICK t, u, C : t = table1' /\ u = table2' /\ C = CuckooContent
  OBVIOUS
<1>2. CuckooWhole(t, u, NULL, C, ck_size')
  BY <1>1 DEF CuckooInv
<1>3. QED
  BY <1>1, <1>2, CuckooInvOf

\* Nor does the chaining table change in a call of another.
LEMMA HmSame ==
  ASSUME HmInv, UNCHANGED <<buckets, bucket_count, hm_size, h1, h2>>, Chaining!HashTypeOK'
  PROVE  HmInv' /\ HmContent' = HmContent
<1>1. PICK t, n : t = buckets' /\ n = bucket_count'
  OBVIOUS
<1>2. /\ n \in Nat \ {0} /\ Rows(t, n) /\ HmContent = RowsContent(t, n)
      /\ hm_size' = Cardinality(RowsContent(t, n))
  BY <1>1 DEF HmInv, HmContent, RowsContent
<1>3. QED
  BY <1>1, <1>2, HmInvOf

\* What the table under test holds.
Content ==
    CASE unit = "chaining"   -> HmContent
      [] unit = "open"       -> OpenContent
      [] unit = "robin hood" -> RobinContent
      [] unit = "cuckoo"     -> CuckooContent
      [] OTHER               -> {}

\* A lookup finds it.
Finds == IsMap(Content) /\ [k \in Key |-> Get(k)] = MapOf(Content)

\* The table under test answers for its content.
Answering == UpdatesInPlace \/ unit = "cuckoo"

\* A lookup in the table under test finds the content.
LEMMA InvFinds ==
  TablesInv /\ Answering => Finds
<1> SUFFICES ASSUME TablesInv, Answering PROVE Finds
  OBVIOUS
<1>1. /\ CuckooAnswers /\ HmAnswers /\ RobinAnswers
      /\ unit = "open" => OpenAnswers
  BY OpenFindsContent, CuckooFindsContent, HmFindsContent, RobinFindsContent
     DEF TablesInv, Answering
<1>2. IsMap(Content) /\ \A k \in Key : Get(k) = ValueIn(Content, k)
  <2>1. CASE unit = "chaining"
    BY <1>1, <2>1 DEF Content, Get, HmAnswers
  <2>2. CASE unit = "open"
    BY <1>1, <2>2 DEF Content, Get, OpenAnswers
  <2>3. CASE unit = "robin hood"
    BY <1>1, <2>3 DEF Content, Get, RobinAnswers
  <2>4. CASE unit = "cuckoo"
    BY <1>1, <2>4 DEF Content, Get, CuckooAnswers
  <2>5. CASE unit \notin {"chaining", "open", "robin hood", "cuckoo"}
    <3>1. Content = {} /\ \A k \in Key : Get(k) = Missing
      BY <2>5 DEF Content, Get
    <3>2. QED
      BY <3>1 DEF IsMap, ValueIn
  <2>6. QED
    BY <2>1, <2>2, <2>3, <2>4, <2>5
<1>3. QED
  BY <1>2 DEF Finds, MapOf

\* The first tables are empty.
LEMMA TablesInit ==
  ASSUME MCInit
  PROVE  TablesInv /\ Content = {} /\ ret = Missing
<1>1. unit \in Units /\ Chaining!Init /\ Open!Init /\ RobinHood!Init /\ Cuckoo!Init /\ ret = Missing
  BY DEF MCInit, HashInit
<1>2. /\ HmInv /\ HmContent = {}
      /\ OpenInv /\ OpenKeysOnce /\ OpenContent = {}
      /\ RobinInv /\ RobinContent = {}
      /\ CuckooInv /\ CuckooContent = {}
  BY <1>1, HmInit, OpenInit, RobinInit, CuckooInit
<1>3. Content = {}
  BY <1>2 DEF Content
<1>4. QED
  BY <1>1, <1>2, <1>3 DEF TablesInv

\* What a call does to the content of the table under test.
UnitStep ==
    \/ unit # "cuckoo" /\ ContentStep(Content, Content')
    \/ unit = "cuckoo" /\ LossyStep(Content, Content')

\* Every call keeps the invariant and does to the content what it should.
LEMMA TablesStep ==
  ASSUME TablesInv, MCNext
  PROVE  TablesInv' /\ unit' = unit /\ (Answering => UnitStep)
<1>1. /\ OpenInv /\ CuckooInv /\ HmInv /\ RobinInv
      /\ UpdatesInPlace => OpenKeysOnce
      /\ unit' = unit /\ unit \in Units
  BY DEF TablesInv, MCNext
<1>2. CASE unit = "chaining" /\ Chaining!Next
           /\ UNCHANGED <<openVars, robinVars, cuckooVars>>
  <2>1. UNCHANGED <<h1, h2>>
    BY <1>2 DEF Chaining!Next, Chaining!Put, Chaining!RemoveKey, Chaining!RemoveAbsent, Chaining!Return
  <2>2. HmInv' /\ ContentStep(HmContent, HmContent')
    BY <1>1, <1>2, HmStep
  <2>3. Open!HashTypeOK' /\ RobinHood!HashTypeOK' /\ Cuckoo!HashTypeOK'
    BY <2>2 DEF HmInv, Open!HashTypeOK, RobinHood!HashTypeOK, Cuckoo!HashTypeOK, Chaining!HashTypeOK
  <2>4. OpenInv' /\ (OpenKeysOnce => OpenKeysOnce') /\ RobinInv' /\ CuckooInv'
    BY <1>1, <1>2, <2>1, <2>3, OpenSame, RobinSame, CuckooSame DEF openVars, robinVars, cuckooVars
  <2>5. TablesInv'
    BY <1>1, <2>2, <2>4 DEF TablesInv, UpdatesInPlace
  <2>6. Content = HmContent /\ Content' = HmContent'
    BY <1>1, <1>2 DEF Content
  <2>7. UnitStep
    BY <1>2, <2>2, <2>6 DEF UnitStep
  <2>8. QED
    BY <1>1, <2>5, <2>7
<1>3. CASE unit = "open" /\ Open!Next
           /\ UNCHANGED <<chainingVars, robinVars, cuckooVars>>
  <2>1. UNCHANGED <<h1, h2>>
    BY <1>3 DEF Open!Next, Open!PutRefused, Open!PutNew, Open!PutUpdate, Open!RemoveKey,
                Open!RemoveAbsent, Open!Return
  <2>2. /\ OpenInv'
        /\ OpenKeysOnce /\ ~ UpdateBehindTombstone
              => OpenKeysOnce' /\ ContentStep(OpenContent, OpenContent')
    BY <1>1, <1>3, OpenStep
  <2>3. Answering => UpdatesInPlace /\ OpenKeysOnce /\ ~ UpdateBehindTombstone
    BY <1>1, <1>3 DEF UpdatesInPlace, Answering
  <2>4. Chaining!HashTypeOK' /\ RobinHood!HashTypeOK' /\ Cuckoo!HashTypeOK'
    BY <2>2 DEF OpenInv, Open!TypeOK, Open!HashTypeOK, RobinHood!HashTypeOK, Cuckoo!HashTypeOK,
                Chaining!HashTypeOK
  <2>5. HmInv' /\ RobinInv' /\ CuckooInv'
    BY <1>1, <1>3, <2>1, <2>4, HmSame, RobinSame, CuckooSame DEF chainingVars, robinVars, cuckooVars
  <2>6. TablesInv'
    <3>1. UpdatesInPlace => OpenKeysOnce'
      BY <1>1, <1>3, <2>2 DEF UpdatesInPlace
    <3>2. QED
      BY <1>1, <2>2, <2>5, <3>1 DEF TablesInv, UpdatesInPlace
  <2>7. Content = OpenContent /\ Content' = OpenContent'
    BY <1>1, <1>3 DEF Content
  <2>8. Answering => UnitStep
    BY <1>3, <2>2, <2>3, <2>7 DEF UnitStep
  <2>9. QED
    BY <1>1, <2>6, <2>8
<1>4. CASE unit = "robin hood" /\ RobinHood!Next
           /\ UNCHANGED <<chainingVars, openVars, cuckooVars>>
  <2>1. UNCHANGED <<h1, h2>>
    BY <1>4 DEF RobinHood!Next, RobinHood!PutRefused, RobinHood!Put, RobinHood!RemoveKey,
                RobinHood!RemoveAbsent, RobinHood!Return
  <2>2. RobinInv' /\ ContentStep(RobinContent, RobinContent')
    BY <1>1, <1>4, RobinStep
  <2>3. Open!HashTypeOK' /\ Chaining!HashTypeOK' /\ Cuckoo!HashTypeOK'
    BY <2>2 DEF RobinInv, Open!HashTypeOK, RobinHood!HashTypeOK, Cuckoo!HashTypeOK, Chaining!HashTypeOK
  <2>4. OpenInv' /\ (OpenKeysOnce => OpenKeysOnce') /\ HmInv' /\ CuckooInv'
    BY <1>1, <1>4, <2>1, <2>3, OpenSame, HmSame, CuckooSame DEF openVars, chainingVars, cuckooVars
  <2>5. TablesInv'
    BY <1>1, <2>2, <2>4 DEF TablesInv, UpdatesInPlace
  <2>6. Content = RobinContent /\ Content' = RobinContent'
    BY <1>1, <1>4 DEF Content
  <2>7. UnitStep
    BY <1>4, <2>2, <2>6 DEF UnitStep
  <2>8. QED
    BY <1>1, <2>5, <2>7
<1>5. CASE unit = "cuckoo" /\ Cuckoo!Next
           /\ UNCHANGED <<chainingVars, openVars, robinVars>>
  <2>1. UNCHANGED <<h1, h2>>
    BY <1>5 DEF Cuckoo!Next, Cuckoo!Update, Cuckoo!Insert, Cuckoo!RemoveKey,
                Cuckoo!RemoveAbsent, Cuckoo!Return
  <2>2. CuckooInv' /\ LossyStep(CuckooContent, CuckooContent')
    BY <1>1, <1>5, CuckooStep
  <2>3. Open!HashTypeOK' /\ Chaining!HashTypeOK' /\ RobinHood!HashTypeOK'
    BY <2>2 DEF CuckooInv, Open!HashTypeOK, RobinHood!HashTypeOK, Cuckoo!HashTypeOK, Chaining!HashTypeOK
  <2>4. OpenInv' /\ (OpenKeysOnce => OpenKeysOnce') /\ HmInv' /\ RobinInv'
    BY <1>1, <1>5, <2>1, <2>3, OpenSame, HmSame, RobinSame DEF openVars, chainingVars, robinVars
  <2>5. TablesInv'
    BY <1>1, <2>2, <2>4 DEF TablesInv, UpdatesInPlace
  <2>6. Content = CuckooContent /\ Content' = CuckooContent'
    BY <1>1, <1>5 DEF Content
  <2>7. UnitStep
    BY <1>5, <2>2, <2>6 DEF UnitStep
  <2>8. QED
    BY <1>1, <2>5, <2>7
<1>6. QED
  BY <1>2, <1>3, <1>4, <1>5 DEF MCNext

\* Nor does a step in which nothing happens change anything.
LEMMA TablesStutter ==
  ASSUME TablesInv, UNCHANGED allVars
  PROVE  TablesInv' /\ unit' = unit /\ ret' = ret /\ Content' = Content
<1>1. /\ UNCHANGED <<buckets, bucket_count, hm_size, oa_slots, oa_size, method>>
      /\ UNCHANGED <<rh_slots, rh_size, table1, table2, ck_size, h1, h2, ret, unit>>
  BY DEF allVars, chainingVars, openVars, robinVars, cuckooVars
<1>2. /\ OpenInv /\ CuckooInv /\ HmInv /\ RobinInv /\ unit \in Units
      /\ UpdatesInPlace => OpenKeysOnce
  BY DEF TablesInv
<1>3. Open!HashTypeOK
  BY <1>2 DEF OpenInv, Open!TypeOK
<1>4. /\ Open!HashTypeOK' /\ Cuckoo!HashTypeOK' /\ Chaining!HashTypeOK' /\ RobinHood!HashTypeOK'
  BY <1>1, <1>3 DEF Open!HashTypeOK, Cuckoo!HashTypeOK, Chaining!HashTypeOK, RobinHood!HashTypeOK
<1>5. /\ OpenInv' /\ OpenContent' = OpenContent /\ (OpenKeysOnce => OpenKeysOnce')
      /\ CuckooInv' /\ CuckooContent' = CuckooContent
      /\ HmInv' /\ HmContent' = HmContent
      /\ RobinInv' /\ RobinContent' = RobinContent
  BY <1>1, <1>2, <1>4, OpenSame, CuckooSame, HmSame, RobinSame
<1>6. TablesInv'
  BY <1>1, <1>2, <1>5 DEF TablesInv, UpdatesInPlace
<1>7. Content' = Content
  BY <1>1, <1>5 DEF Content
<1>8. QED
  BY <1>1, <1>6, <1>7

\* In every reachable state the tables hold what their invariants say.
THEOREM TablesInvariance == MCSpec => []TablesInv
<1>1. MCInit => TablesInv
  BY TablesInit
<1>2. TablesInv /\ [MCNext]_allVars => TablesInv'
  BY TablesStep, TablesStutter
<1>3. QED
  BY <1>1, <1>2, PTL DEF MCSpec

\* The variables of the four tables keep their types, through every collision,
\* rehashing, shift and eviction (hash_chaining.c, hash_open_addressing.c,
\* robin_hood_hash.c, cuckoo_hash.c).
THEOREM TablesTyped == MCSpec => []TypeOK
<1>1. TablesInv => TypeOK
  BY HmShows, RobinShows, CuckooShows DEF TablesInv, TypeOK, OpenInv
<1>2. QED
  BY <1>1, TablesInvariance, PTL

\* In every table size counts the entries, and every entry is where a lookup of
\* its key comes: in its bucket, behind no empty slot, not poorer than the
\* entries before it, in one of its two cells.
THEOREM TablesExact == MCSpec => []TablesAreExact
<1>1. TablesInv => TablesAreExact
  BY HmShows, RobinShows, CuckooShows DEF TablesInv, TablesAreExact, OpenInv
<1>2. QED
  BY <1>1, TablesInvariance, PTL

-----------------------------------------------------------------------------
(* The tables implement a map.                                             *)

\* A step of the content is a call of the map it is.
LEMMA StepIsCall ==
  ASSUME NEW C, IsMap(C), NEW D, ContentStep(C, D)
  PROVE  \E k \in Key :
           \/ ret' = <<k, "refused">> /\ MapOf(D) = MapOf(C)
           \/ /\ ret' = <<k, "removed">> /\ MapOf(C)[k] # Missing
              /\ MapOf(D) = [MapOf(C) EXCEPT ![k] = Missing]
           \/ ret' = <<k, "absent">> /\ MapOf(C)[k] = Missing /\ MapOf(D) = MapOf(C)
           \/ \E v \in Value : ret' = <<k, "stored">> /\ MapOf(D) = [MapOf(C) EXCEPT ![k] = v]
<1>1. PICK k \in Key :
        \/ ret' = <<k, "refused">> /\ D = C
        \/ ret' = <<k, "removed">> /\ ValueIn(C, k) # Missing /\ D = Without(C, k)
        \/ ret' = <<k, "absent">> /\ ValueIn(C, k) = Missing /\ D = C
        \/ \E v \in Value : ret' = <<k, "stored">> /\ D = With(C, k, v)
  BY DEF ContentStep
<1>2. MapOf(C)[k] = ValueIn(C, k)
  BY DEF MapOf
<1>3. CASE ret' = <<k, "refused">> /\ D = C
  BY <1>3
<1>4. CASE ret' = <<k, "removed">> /\ ValueIn(C, k) # Missing /\ D = Without(C, k)
  BY <1>2, <1>4, WithoutIsRemove
<1>5. CASE ret' = <<k, "absent">> /\ ValueIn(C, k) = Missing /\ D = C
  BY <1>2, <1>5
<1>6. CASE \E v \in Value : ret' = <<k, "stored">> /\ D = With(C, k, v)
  BY <1>6, WithIsPut
<1>7. QED
  BY <1>1, <1>3, <1>4, <1>5, <1>6

\* A put that fails and loses a key is the weaker promise's call.
LEMMA LossIsCall ==
  ASSUME NEW C, IsMap(C), NEW k \in Key, NEW lost \in Key, NEW v \in Value
  PROVE  MapOf(Without(With(C, k, v), lost))
           = [[MapOf(C) EXCEPT ![k] = v] EXCEPT ![lost] = Missing]
<1>1. PICK D : D = With(C, k, v)
  OBVIOUS
<1>2. IsMap(D) /\ MapOf(D) = [MapOf(C) EXCEPT ![k] = v]
  BY <1>1, WithIsPut
<1>3. MapOf(Without(D, lost)) = [MapOf(D) EXCEPT ![lost] = Missing]
  BY <1>2, WithoutIsRemove
<1>4. QED
  BY <1>1, <1>2, <1>3

\* The map of every table but the cuckoo table, and the map of the cuckoo table.
ExactMap == [k \in Key |-> IfCuckoo(Missing, Get(k))]
LossyMap == [k \in Key |-> IfCuckoo(Get(k), Missing)]

\* What they are in the reachable states.
MapsHold ==
    /\ UpdatesInPlace /\ unit # "cuckoo" => ExactMap = MapOf(Content) /\ IsMap(Content)
    /\ unit = "cuckoo" => LossyMap = MapOf(Content) /\ IsMap(Content)
    /\ unit = "cuckoo" => ExactMap = [k \in Key |-> Missing]
    /\ unit # "cuckoo" => LossyMap = [k \in Key |-> Missing]

\* The refinement mapping is the content of the table under test.
LEMMA MapsAreContent ==
  TablesInv => MapsHold
<1>1. ASSUME TablesInv, Answering
      PROVE IsMap(Content) /\ [k \in Key |-> Get(k)] = MapOf(Content)
  BY <1>1, InvFinds DEF Finds
<1>2. unit = "cuckoo" =>
        LossyMap = [k \in Key |-> Get(k)] /\ ExactMap = [k \in Key |-> Missing]
  BY DEF LossyMap, ExactMap, IfCuckoo
<1>3. unit # "cuckoo" =>
        ExactMap = [k \in Key |-> Get(k)] /\ LossyMap = [k \in Key |-> Missing]
  BY DEF LossyMap, ExactMap, IfCuckoo
<1>4. QED
  BY <1>1, <1>2, <1>3 DEF Answering, MapsHold

\* In an empty table no key is found.
LEMMA EmptyMap == MapOf({}) = [k \in Key |-> Missing]
BY DEF MapOf, ValueIn

\* The same in the next state.
LEMMA MapsAreContentNext ==
  TablesInv' => MapsHold'
BY MapsAreContent, PTL

\* Through any puts, updates, removals, collisions and rehashings a lookup in the
\* chaining, the open addressing and the Robin Hood table finds what was stored
\* last, and the answers of the calls are true; in the open addressing table if
\* no key is updated behind a tombstone (hash_open_addressing.c:84).
THEOREM TablesImplementDictionary ==
  ASSUME UpdatesInPlace
  PROVE  MCSpec => ImplementsDictionary
<1>1. MCInit => Exact!Init
  <2> SUFFICES ASSUME MCInit PROVE Exact!Init
    OBVIOUS
  <2>1. TablesInv /\ Content = {} /\ ret = Missing
    BY TablesInit
  <2>2. ExactMap = [k \in Key |-> Missing]
    BY <2>1, MapsAreContent, EmptyMap DEF MapsHold
  <2>3. QED
    BY <2>1, <2>2 DEF Exact!Init, ExactMap, IfCuckoo
<1>2. TablesInv /\ TablesInv' /\ [MCNext]_allVars
        => [Exact!Next]_<<[k \in Key |-> IfCuckoo(Missing, Get(k))], IfCuckoo(Missing, ret)>>
  <2> SUFFICES ASSUME TablesInv, TablesInv', [MCNext]_allVars,
                      ~ UNCHANGED <<ExactMap, IfCuckoo(Missing, ret)>>
               PROVE  Exact!Next
    BY DEF ExactMap
  <2>1. unit' = unit
    BY TablesStep, TablesStutter
  <2>2. CASE unit = "cuckoo"
    <3>1. ExactMap = [k \in Key |-> Missing]
      BY <2>2, MapsAreContent DEF MapsHold
    <3>2. ExactMap' = [k \in Key |-> Missing]
      BY <2>1, <2>2, MapsAreContentNext DEF MapsHold
    <3>3. IfCuckoo(Missing, ret) = Missing /\ IfCuckoo(Missing, ret)' = Missing
      BY <2>1, <2>2 DEF IfCuckoo
    <3>4. QED
      BY <3>1, <3>2, <3>3
  <2>3. CASE unit # "cuckoo"
    <3>1. ExactMap = MapOf(Content) /\ IsMap(Content)
      BY <2>3, MapsAreContent DEF MapsHold
    <3>2. ExactMap' = MapOf(Content')
      BY <2>1, <2>3, MapsAreContentNext DEF MapsHold
    <3>3. IfCuckoo(Missing, ret) = ret /\ IfCuckoo(Missing, ret)' = ret'
      BY <2>1, <2>3 DEF IfCuckoo
    <3>4. CASE MCNext
      <4>1. ContentStep(Content, Content')
        BY <2>3, <3>4, TablesStep DEF Answering, UnitStep
      <4>2. PICK m, n : m = ExactMap /\ n = ExactMap'
        OBVIOUS
      <4>3. \E k \in Key :
              \/ ret' = <<k, "refused">> /\ n = m
              \/ ret' = <<k, "removed">> /\ m[k] # Missing /\ n = [m EXCEPT ![k] = Missing]
              \/ ret' = <<k, "absent">> /\ m[k] = Missing /\ n = m
              \/ \E v \in Value : ret' = <<k, "stored">> /\ n = [m EXCEPT ![k] = v]
        BY <3>1, <3>2, <4>1, <4>2, StepIsCall
      <4>4. QED
        BY <3>3, <4>2, <4>3
           DEF Exact!Next, Exact!Refuse, Exact!Remove, Exact!RemoveAbsent, Exact!Put, ExactMap
    <3>5. CASE UNCHANGED allVars
      <4>1. Content' = Content /\ ret' = ret
        BY <3>5, TablesStutter
      <4>2. QED
        BY <3>1, <3>2, <3>3, <4>1
    <3>6. QED
      BY <3>4, <3>5
  <2>4. QED
    BY <2>2, <2>3
<1>3. QED
  BY <1>1, <1>2, TablesInvariance, PTL DEF MCSpec, ImplementsDictionary, Exact!Spec

\* The cuckoo table is a map but for a put that fails: it may have stored its
\* key, has lost at most one, and changed no other (cuckoo_hash.c:104-107).
THEOREM CuckooLosesAtMostOne == MCSpec => LosesAtMostOne
<1>1. MCInit => Lossy!Init
  <2> SUFFICES ASSUME MCInit PROVE Lossy!Init
    OBVIOUS
  <2>1. TablesInv /\ Content = {} /\ ret = Missing
    BY TablesInit
  <2>2. LossyMap = [k \in Key |-> Missing]
    BY <2>1, MapsAreContent, EmptyMap DEF MapsHold
  <2>3. QED
    BY <2>1, <2>2 DEF Lossy!Init, LossyMap, IfCuckoo
<1>2. TablesInv /\ TablesInv' /\ [MCNext]_allVars
        => [Lossy!Next \/ \E k \in Key, v \in Value : Lossy!RefuseAndLose(k, v)]_<<
              [k \in Key |-> IfCuckoo(Get(k), Missing)], IfCuckoo(ret, Missing)>>
  <2> SUFFICES ASSUME TablesInv, TablesInv', [MCNext]_allVars,
                      ~ UNCHANGED <<LossyMap, IfCuckoo(ret, Missing)>>
               PROVE  Lossy!Next \/ \E k \in Key, v \in Value : Lossy!RefuseAndLose(k, v)
    BY DEF LossyMap
  <2>1. unit' = unit
    BY TablesStep, TablesStutter
  <2>2. CASE unit # "cuckoo"
    <3>1. LossyMap = [k \in Key |-> Missing]
      BY <2>2, MapsAreContent DEF MapsHold
    <3>2. LossyMap' = [k \in Key |-> Missing]
      BY <2>1, <2>2, MapsAreContentNext DEF MapsHold
    <3>3. IfCuckoo(ret, Missing) = Missing /\ IfCuckoo(ret, Missing)' = Missing
      BY <2>1, <2>2 DEF IfCuckoo
    <3>4. QED
      BY <3>1, <3>2, <3>3
  <2>3. CASE unit = "cuckoo"
    <3>1. LossyMap = MapOf(Content) /\ IsMap(Content)
      BY <2>3, MapsAreContent DEF MapsHold
    <3>2. LossyMap' = MapOf(Content')
      BY <2>1, <2>3, MapsAreContentNext DEF MapsHold
    <3>3. IfCuckoo(ret, Missing) = ret /\ IfCuckoo(ret, Missing)' = ret'
      BY <2>1, <2>3 DEF IfCuckoo
    <3>4. PICK m, n : m = LossyMap /\ n = LossyMap'
      OBVIOUS
    <3>5. CASE ContentStep(Content, Content')
      <4>1. \E k \in Key :
              \/ ret' = <<k, "refused">> /\ n = m
              \/ ret' = <<k, "removed">> /\ m[k] # Missing /\ n = [m EXCEPT ![k] = Missing]
              \/ ret' = <<k, "absent">> /\ m[k] = Missing /\ n = m
              \/ \E v \in Value : ret' = <<k, "stored">> /\ n = [m EXCEPT ![k] = v]
        BY <3>1, <3>2, <3>4, <3>5, StepIsCall
      <4>2. Lossy!Next
        BY <3>3, <3>4, <4>1
           DEF Lossy!Next, Lossy!Refuse, Lossy!Remove, Lossy!RemoveAbsent, Lossy!Put, LossyMap
      <4>3. QED
        BY <4>2
    <3>6. CASE \E k, lost \in Key, v \in Value :
                 ret' = <<k, "refused">> /\ Content' = Without(With(Content, k, v), lost)
      <4>1. PICK k \in Key, lost \in Key, v \in Value :
              ret' = <<k, "refused">> /\ Content' = Without(With(Content, k, v), lost)
        BY <3>6
      <4>2. n = [[m EXCEPT ![k] = v] EXCEPT ![lost] = Missing]
        BY <3>1, <3>2, <3>4, <4>1, LossIsCall
      <4>3. Lossy!RefuseAndLose(k, v)
        BY <3>3, <3>4, <4>1, <4>2 DEF Lossy!RefuseAndLose, LossyMap
      <4>4. QED
        BY <4>3
    <3>7. CASE MCNext
      <4>1. LossyStep(Content, Content')
        BY <2>3, <3>7, TablesStep DEF Answering, UnitStep
      <4>2. QED
        BY <3>5, <3>6, <4>1 DEF LossyStep
    <3>8. CASE UNCHANGED allVars
      <4>1. Content' = Content /\ ret' = ret
        BY <3>8, TablesStutter
      <4>2. QED
        BY <3>1, <3>2, <3>3, <4>1
    <3>9. QED
      BY <3>7, <3>8
  <2>4. QED
    BY <2>2, <2>3
<1>3. QED
  BY <1>1, <1>2, TablesInvariance, PTL DEF MCSpec, LosesAtMostOne, Lossy!LossySpec
=============================================================================
