--------------------------- MODULE AllocatorProofs ---------------------------
(***************************************************************************)
(* The slab cache, the two pools and the arena, for all sizes, requests,   *)
(* slabs and clients: the lists of free memory are exact, blocks are       *)
(* aligned and inside, and no allocator hands out memory that is held.     *)
(***************************************************************************)
EXTENDS MCAllocators, ChainTheorems

-----------------------------------------------------------------------------
(* The inductive invariant                                                 *)

\* A free list through the slots S and the pointers that hold the others: the
\* list ends and has the slots that no pointer holds, and no two pointers hold
\* the same one.
FreeListInv(S, first, link, hold) ==
    /\ link \in Links(S, NULL)
    /\ hold \in [Handle -> S \union {NULL}]
    /\ Whole(first, S, link, NULL)
    /\ ChainSet(first, link, NULL) = S \ {hold[h] : h \in Handle}
    /\ \A g, h \in Handle : hold[g] = hold[h] /\ hold[g] # NULL => g = h

\* The pointers that hold something.
Holders(hold) == {h \in Handle : hold[h] # NULL}

\* The links of the pool: what memset has left in a slot links to nothing.
PoolLinks == [k \in Mem!Slot |-> IF word[k] = Pattern THEN NULL ELSE word[k]]

\* The pool: no free slot has the pattern in its first word.
PoolInv ==
    /\ Mem!PoolTypeOK
    /\ FreeListInv(Mem!Slot, free_list, PoolLinks, held)
    /\ \A k \in ChainSet(free_list, PoolLinks, NULL) : word[k] # Pattern
    /\ allocated = Cardinality(Holders(held))

\* The static pool: nothing is held before the first call.
StaticInv ==
    /\ Mem!StaticTypeOK
    /\ IF g_initialized THEN FreeListInv(Mem!StaticSlot, g_free_list, g_word, g_held)
       ELSE \A h \in Handle : g_held[h] = NULL

\* The arena: a block is for a request, ends where the arena is used, and of two
\* blocks one ends before the other begins.
ArenaInv ==
    /\ Mem!ArenaTypeOK
    /\ \A h \in Handle :
          blocks[h] # NULL =>
             /\ <<blocks[h][2], blocks[h][3]>> \in ArenaRequests
             /\ blocks[h][1] % blocks[h][3] = 0
             /\ blocks[h][1] >= memory
             /\ blocks[h][1] + blocks[h][2] <= memory + used
    /\ \A g, h \in Handle :
          blocks[g] # NULL /\ blocks[h] # NULL /\ g # h =>
             \/ blocks[g][1] + blocks[g][2] <= blocks[h][1]
             \/ blocks[h][1] + blocks[h][2] <= blocks[g][1]

-----------------------------------------------------------------------------
(* The slab cache                                                          *)

\* The pointers that hold an object of slab b, and its slots in use.
HoldersIn(b) == {h \in Handle : objects[h] # NULL /\ objects[h][1] = b}
SlotOf(h) == objects[h][2] \div obj_size
SlotsOf(b) == {SlotOf(h) : h \in HoldersIn(b)}

SizesInv ==
    /\ SlabTypeOK
    /\ obj_size \in {ObjSize(r[1], r[2]) : r \in Requests}
    /\ objs_per_slab <= BITMAP_BITS
    /\ created # {}

\* What the client holds are slots of slabs that exist, of which no two are the same.
ObjectsInv ==
    /\ \A h \in Handle :
          objects[h] # NULL =>
             /\ objects[h][1] \in created
             /\ SlotOf(h) \in 0 .. objs_per_slab - 1
             /\ objects[h][2] = SlotOf(h) * obj_size
    /\ \A g, h \in Handle :
          objects[g] # NULL /\ objects[g] = objects[h] => g = h

\* The two lists end and divide the slabs by whether they have a free slot.
SlabListsInv ==
    /\ Whole(partial, Slab, next, NULL)
    /\ Whole(full, Slab, next, NULL)
    /\ ChainSet(partial, next, NULL) = {b \in created : free_count[b] > 0}
    /\ ChainSet(full, next, NULL) = {b \in created : free_count[b] = 0}

\* A bitmap has the slots in use, and free_count counts the others.
BitmapsInv ==
    \A b \in created :
        /\ bitmap[b] = SlotsOf(b)
        /\ free_count[b] = objs_per_slab - Cardinality(bitmap[b])

\* The statistics count the objects in use, modulo WORD.
StatisticsInv ==
    LET n == Cardinality(Holders(objects))
    IN  \/ total_allocated - total_freed = n
        \/ total_allocated - total_freed = n - WORD

SlabInv == SizesInv /\ ObjectsInv /\ SlabListsInv /\ BitmapsInv /\ StatisticsInv

IInv == unit \in Units /\ SlabInv /\ PoolInv /\ StaticInv /\ ArenaInv

-----------------------------------------------------------------------------
(* Free lists                                                              *)

\* An allocation takes the first slot of the list off.
LEMMA TakeSlot ==
  ASSUME NEW S, IsFiniteSet(S), NULL \notin S, NEW first, NEW link, NEW hold,
         FreeListInv(S, first, link, hold), NEW h \in Handle, hold[h] = NULL, first # NULL,
         NEW new \in Links(S, NULL), \A a \in S \ {first} : new[a] = link[a]
  PROVE  /\ first \in S /\ first \in ChainSet(first, link, NULL)
         /\ FreeListInv(S, link[first], new, [hold EXCEPT ![h] = first])
         /\ ChainSet(link[first], new, NULL) = ChainSet(first, link, NULL) \ {first}
<1> DEFINE C == ChainSet(first, link, NULL)
           rest == link[first]
           H == [hold EXCEPT ![h] = first]
<1>1. /\ link \in Links(S, NULL) /\ hold \in [Handle -> S \union {NULL}]
      /\ Whole(first, S, link, NULL) /\ C = S \ {hold[g] : g \in Handle}
      /\ \A f, g \in Handle : hold[f] = hold[g] /\ hold[f] # NULL => f = g
  BY DEF FreeListInv
<1>2. first \in S
  <2>1. IsChain(Chain(first, link, NULL), first, S, link, NULL)
    BY <1>1 DEF Whole
  <2>2. Chain(first, link, NULL) # <<>>
    BY <2>1 DEF IsChain
  <2>3. QED
    BY <1>1, <2>1, <2>2, TailOfChain
<1>3. /\ Whole(rest, S, link, NULL)
      /\ first \notin ChainSet(rest, link, NULL)
      /\ C = {first} \union ChainSet(rest, link, NULL)
  <2>1. link \in Links(S, NULL) /\ Whole(first, S, link, NULL)
    BY <1>1
  <2>2. /\ Whole(link[first], S, link, NULL)
        /\ Chain(first, link, NULL) = <<first>> \o Chain(link[first], link, NULL)
        /\ Tail(Chain(first, link, NULL)) = Chain(link[first], link, NULL)
        /\ first \notin ChainSet(link[first], link, NULL)
        /\ ChainSet(first, link, NULL) = {first} \union ChainSet(link[first], link, NULL)
    BY <2>1, <1>2, FirstOfChain
  <2>3. QED
    BY <2>2
<1>4. ChainSet(rest, link, NULL) \subseteq S
  BY <1>3, ChainSetType
<1>5. /\ Whole(rest, S, new, NULL)
      /\ ChainSet(rest, new, NULL) = ChainSet(rest, link, NULL)
  BY <1>1, <1>3, <1>4, ChainKept
<1> HIDE DEF C, rest
<1>6. ChainSet(rest, new, NULL) = C \ {first}
  BY <1>3, <1>5
<1>7. H \in [Handle -> S \union {NULL}] /\ H[h] = first /\ \A g \in Handle \ {h} : H[g] = hold[g]
  BY <1>1, <1>2
<1>8. \A g \in Handle : hold[g] # first
  BY <1>1, <1>3
<1> HIDE DEF H
<1>9. C \ {first} = S \ {H[g] : g \in Handle}
  <2>1. ASSUME NEW a \in C \ {first} PROVE a \in S \ {H[g] : g \in Handle}
    <3>1. a \in S /\ \A g \in Handle : hold[g] # a
      BY <1>1
    <3>2. \A g \in Handle : H[g] # a
      BY <1>7, <3>1
    <3>3. QED
      BY <3>1, <3>2
  <2>2. ASSUME NEW a \in S \ {H[g] : g \in Handle} PROVE a \in C \ {first}
    <3>1. a \in S /\ \A g \in Handle : H[g] # a
      OBVIOUS
    <3>2. a # first /\ a # NULL
      BY <1>7, <3>1
    <3>3. \A g \in Handle : hold[g] # a
      BY <1>7, <3>1, <3>2
    <3>4. QED
      BY <1>1, <3>1, <3>2, <3>3
  <2>3. QED
    BY <2>1, <2>2
<1>10. \A f, g \in Handle : H[f] = H[g] /\ H[f] # NULL => f = g
  BY <1>1, <1>7, <1>8
<1>11. FreeListInv(S, rest, new, H)
  BY <1>5, <1>6, <1>7, <1>9, <1>10 DEF FreeListInv
<1>12. QED
  BY <1>2, <1>3, <1>6, <1>11 DEF C, rest, H

\* A free puts the slot back at the front.
LEMMA GiveSlot ==
  ASSUME NEW S, IsFiniteSet(S), NULL \notin S, NEW first, NEW link, NEW hold,
         FreeListInv(S, first, link, hold), NEW h \in Handle, hold[h] # NULL,
         NEW new \in Links(S, NULL), new[hold[h]] = first,
         \A a \in S \ {hold[h]} : new[a] = link[a]
  PROVE  /\ FreeListInv(S, hold[h], new, [hold EXCEPT ![h] = NULL])
         /\ ChainSet(hold[h], new, NULL) = {hold[h]} \union ChainSet(first, link, NULL)
<1> DEFINE C == ChainSet(first, link, NULL)
           slot == hold[h]
           H == [hold EXCEPT ![h] = NULL]
<1>1. /\ link \in Links(S, NULL) /\ hold \in [Handle -> S \union {NULL}]
      /\ Whole(first, S, link, NULL) /\ C = S \ {hold[g] : g \in Handle}
      /\ \A f, g \in Handle : hold[f] = hold[g] /\ hold[f] # NULL => f = g
  BY DEF FreeListInv
<1>2. slot \in S /\ slot \notin C
  BY <1>1
<1>3. \A a \in C : new[a] = link[a]
  BY <1>1, <1>2
<1>4. /\ Whole(first, S, new, NULL)
      /\ ChainSet(first, new, NULL) = C
  BY <1>1, <1>3, ChainKept
<1>5. new[slot] = first
  OBVIOUS
<1>6. H \in [Handle -> S \union {NULL}] /\ H[h] = NULL /\ \A g \in Handle \ {h} : H[g] = hold[g]
  BY <1>1
<1>7. \A g \in Handle \ {h} : hold[g] # slot
  BY <1>1
<1> HIDE DEF C, slot, H
<1>8. Whole(new[slot], S, new, NULL) /\ slot \notin ChainSet(new[slot], new, NULL)
  BY <1>2, <1>4, <1>5
<1>9. /\ Whole(slot, S, new, NULL)
      /\ ChainSet(slot, new, NULL) = {slot} \union C
  <2>1. /\ Whole(slot, S, new, NULL)
        /\ Chain(slot, new, NULL) = <<slot>> \o Chain(new[slot], new, NULL)
        /\ ChainSet(slot, new, NULL) = {slot} \union ChainSet(new[slot], new, NULL)
    BY <1>2, <1>8, PushOnChain
  <2>2. QED
    BY <1>4, <1>5, <2>1
<1>10. {slot} \union C = S \ {H[g] : g \in Handle}
  <2>1. ASSUME NEW a \in {slot} \union C PROVE a \in S \ {H[g] : g \in Handle}
    <3>1. a \in S /\ \A g \in Handle \ {h} : hold[g] # a
      BY <1>1, <1>2, <1>7
    <3>2. \A g \in Handle : H[g] # a
      BY <1>6, <3>1
    <3>3. QED
      BY <3>1, <3>2
  <2>2. ASSUME NEW a \in S \ {H[g] : g \in Handle}, a # slot PROVE a \in C
    <3>1. a \in S /\ \A g \in Handle : H[g] # a
      BY <2>2
    <3>2. \A g \in Handle : hold[g] # a
      BY <1>6, <2>2, <3>1 DEF slot
    <3>3. QED
      BY <1>1, <3>1, <3>2
  <2>3. QED
    BY <2>1, <2>2
<1>11. \A f, g \in Handle : H[f] = H[g] /\ H[f] # NULL => f = g
  BY <1>1, <1>6
<1>12. FreeListInv(S, slot, new, H)
  BY <1>6, <1>9, <1>10, <1>11 DEF FreeListInv
<1>13. QED
  BY <1>9, <1>12 DEF C, slot, H

\* What the client writes to a slot it holds is no link of the list.
LEMMA WriteSlot ==
  ASSUME NEW S, IsFiniteSet(S), NULL \notin S, NEW first, NEW link, NEW hold,
         FreeListInv(S, first, link, hold), NEW h \in Handle,
         NEW new \in Links(S, NULL), \A a \in S \ {hold[h]} : new[a] = link[a]
  PROVE  /\ FreeListInv(S, first, new, hold)
         /\ ChainSet(first, new, NULL) = ChainSet(first, link, NULL)
<1> DEFINE C == ChainSet(first, link, NULL)
<1>1. /\ link \in Links(S, NULL)
      /\ Whole(first, S, link, NULL) /\ C = S \ {hold[g] : g \in Handle}
  BY DEF FreeListInv
<1>2. \A a \in C : new[a] = link[a]
  BY <1>1
<1>3. Whole(first, S, new, NULL) /\ ChainSet(first, new, NULL) = C
  BY <1>1, <1>2, ChainKept
<1>4. QED
  BY <1>3 DEF FreeListInv

\* The list that pool_init and pool_static_init write.
FreshLinks(n) == [k \in 0 .. n - 1 |-> IF k < n - 1 THEN k + 1 ELSE NULL]

\* It has all the slots.
LEMMA FreshList ==
  ASSUME NEW n \in Nat \ {0}, NULL \notin 0 .. n - 1, NEW hold,
         hold = [h \in Handle |-> NULL]
  PROVE  FreeListInv(0 .. n - 1, 0, FreshLinks(n), hold)
<1> DEFINE S == 0 .. n - 1
           link == FreshLinks(n)
           s == [k \in 1 .. n |-> k - 1]
<1>1. link \in Links(S, NULL) /\ IsFiniteSet(S)
  <2>1. IsFiniteSet(S)
    BY FS_Interval
  <2>2. QED
    BY <2>1 DEF Links, FreshLinks
<1>2. /\ s \in Seq(S) /\ Len(s) = n /\ s # <<>>
      /\ \A k \in 1 .. n : s[k] = k - 1
  <2>1. s \in [1 .. n -> S]
    OBVIOUS
  <2>2. s \in Seq(S) /\ Len(s) = n
    BY <2>1
  <2>3. QED
    BY <2>2, EmptySeq
<1>3. \A k \in 0 .. n - 1 : link[k] = IF k < n - 1 THEN k + 1 ELSE NULL
  BY DEF FreshLinks
<1> HIDE DEF s, link
<1>4. ASSUME NEW k \in 1 .. n PROVE link[s[k]] = IF k = n THEN NULL ELSE s[k + 1]
  <2>1. s[k] = k - 1 /\ k - 1 \in 0 .. n - 1 /\ (k # n => k + 1 \in 1 .. n)
    BY <1>2
  <2>2. link[k - 1] = IF k - 1 < n - 1 THEN (k - 1) + 1 ELSE NULL
    BY <1>3, <2>1
  <2>3. CASE k = n
    BY <2>1, <2>2, <2>3
  <2>4. CASE k # n
    BY <1>2, <2>1, <2>2, <2>4
  <2>5. QED
    BY <2>3, <2>4
<1>5. s[1] = 0
  BY <1>2
<1>6. \A k, l \in 1 .. n : s[k] = s[l] => k = l
  BY <1>2
<1>7. IsChain(s, 0, S, link, NULL)
  BY <1>2, <1>4, <1>5, <1>6 DEF IsChain
<1>8. Chain(0, link, NULL) = s
  BY <1>1, <1>7, ChainUnique
<1>9. ChainSet(0, link, NULL) = {s[k] : k \in 1 .. n}
  <2>1. ChainSet(0, link, NULL) = {s[k] : k \in 1 .. Len(s)}
    BY <1>7, <1>8, ChainSetElements
  <2>2. QED
    BY <1>2, <2>1
<1>10. {s[k] : k \in 1 .. n} = S
  <2>1. ASSUME NEW a \in S PROVE a \in {s[k] : k \in 1 .. n}
    <3>1. a + 1 \in 1 .. n /\ s[a + 1] = a
      BY <1>2
    <3>2. QED
      BY <3>1
  <2>2. ASSUME NEW k \in 1 .. n PROVE s[k] \in S
    BY <1>2
  <2>3. QED
    BY <2>1, <2>2
<1>11. S \ {hold[h] : h \in Handle} = S
  OBVIOUS
<1>12. hold \in [Handle -> S \union {NULL}] /\ \A h \in Handle : hold[h] = NULL
  OBVIOUS
<1> HIDE DEF S
<1>13. Whole(0, S, link, NULL)
  BY <1>7, <1>8 DEF Whole
<1>14. FreeListInv(S, 0, link, hold)
  BY <1>1, <1>9, <1>10, <1>11, <1>12, <1>13 DEF FreeListInv
<1>15. QED
  BY <1>14 DEF S, link

\* As long as the list are the slots that no pointer holds.
LEMMA LengthOfFreeList ==
  ASSUME NEW S, IsFiniteSet(S), NULL \notin S, IsFiniteSet(Handle), NEW first, NEW link, NEW hold,
         FreeListInv(S, first, link, hold)
  PROVE  Len(Chain(first, link, NULL)) = Cardinality(S) - Cardinality(Holders(hold))
<1> DEFINE C == ChainSet(first, link, NULL)
           P == Holders(hold)
           T == {hold[h] : h \in P}
           f == [h \in P |-> hold[h]]
<1>1. /\ hold \in [Handle -> S \union {NULL}]
      /\ Whole(first, S, link, NULL) /\ C = S \ {hold[g] : g \in Handle}
      /\ \A g, h \in Handle : hold[g] = hold[h] /\ hold[g] # NULL => g = h
  BY DEF FreeListInv
<1>2. Len(Chain(first, link, NULL)) = Cardinality(C)
  <2>1. Whole(first, S, link, NULL)
    BY <1>1
  <2>2. QED
    BY <2>1, LengthOfChain, Zenon
<1>3. P \subseteq Handle /\ IsFiniteSet(P) /\ \A h \in Handle : h \in P <=> hold[h] # NULL
  <2>1. P \subseteq Handle /\ \A h \in Handle : h \in P <=> hold[h] # NULL
    BY DEF Holders
  <2>2. QED
    BY <2>1, FS_Subset
<1> HIDE DEF P, C
<1>4. T \subseteq S /\ C = S \ T
  <2>1. \A h \in P : hold[h] \in S
    BY <1>1, <1>3
  <2>2. T \subseteq S
    BY <2>1
  <2>3. \A a \in S : a \in T <=> a \in {hold[g] : g \in Handle}
    BY <1>3
  <2>4. QED
    BY <1>1, <2>2, <2>3
<1>5. f \in Bijection(P, T)
  <2>1. f \in [P -> T] /\ \A h \in P : f[h] = hold[h]
    OBVIOUS
  <2>2. \A g, h \in P : f[g] = f[h] => g = h
    BY <1>1, <1>3, <2>1
  <2>3. \A t \in T : \E h \in P : f[h] = t
    BY <2>1
  <2> HIDE DEF f, T
  <2>4. QED
    BY <2>1, <2>2, <2>3 DEF Bijection, Injection, Surjection, IsInjective
<1>6. Cardinality(T) = Cardinality(P)
  <2>1. ExistsBijection(P, T)
    BY <1>5 DEF ExistsBijection
  <2>2. QED
    BY <1>3, <2>1, FS_Bijection
<1> HIDE DEF T
<1>7. Cardinality(C) = Cardinality(S) - Cardinality(T)
  <2>1. S \cap T = T
    BY <1>4
  <2>2. QED
    BY <1>4, <2>1, FS_Difference
<1>8. QED
  BY <1>2, <1>6, <1>7 DEF P

\* So no more pointers hold a slot than there are slots.
LEMMA HoldersFit ==
  ASSUME NEW S, IsFiniteSet(S), NULL \notin S, IsFiniteSet(Handle), NEW first, NEW link, NEW hold,
         FreeListInv(S, first, link, hold)
  PROVE  Cardinality(Holders(hold)) \in 0 .. Cardinality(S)
<1>1. Len(Chain(first, link, NULL)) \in Nat
  <2>1. Whole(first, S, link, NULL)
    BY DEF FreeListInv
  <2>2. QED
    BY <2>1, LengthOfChain, Zenon
<1>2. Len(Chain(first, link, NULL)) = Cardinality(S) - Cardinality(Holders(hold))
  BY LengthOfFreeList
<1>3. Cardinality(S) \in Nat
  BY FS_CardinalityType
<1>4. IsFiniteSet(Holders(hold))
  BY FS_Subset DEF Holders
<1>5. Cardinality(Holders(hold)) \in Nat
  BY <1>4, FS_CardinalityType
<1>6. QED
  BY <1>1, <1>2, <1>3, <1>5

\* One pointer more holds something, and one less.
LEMMA HoldersTake ==
  ASSUME IsFiniteSet(Handle), NEW hold, DOMAIN hold = Handle, NEW h \in Handle, hold[h] = NULL,
         NEW v, v # NULL
  PROVE  /\ Cardinality(Holders([hold EXCEPT ![h] = v])) = Cardinality(Holders(hold)) + 1
         /\ Cardinality(Holders(hold)) \in Nat
<1> DEFINE H == [hold EXCEPT ![h] = v]
<1>1. H[h] = v /\ \A g \in Handle \ {h} : H[g] = hold[g]
  OBVIOUS
<1> HIDE DEF H
<1>2. Holders(H) = Holders(hold) \union {h} /\ h \notin Holders(hold)
  BY <1>1 DEF Holders
<1>3. IsFiniteSet(Holders(hold))
  BY FS_Subset DEF Holders
<1>4. Cardinality(Holders(H)) = Cardinality(Holders(hold)) + 1
  BY <1>2, <1>3, FS_AddElement
<1>5. QED
  BY <1>3, <1>4, FS_CardinalityType DEF H

LEMMA HoldersGive ==
  ASSUME IsFiniteSet(Handle), NEW hold, DOMAIN hold = Handle, NEW h \in Handle, hold[h] # NULL
  PROVE  /\ Cardinality(Holders([hold EXCEPT ![h] = NULL])) = Cardinality(Holders(hold)) - 1
         /\ Cardinality(Holders(hold)) \in Nat \ {0}
<1> DEFINE H == [hold EXCEPT ![h] = NULL]
<1>1. H[h] = NULL /\ \A g \in Handle \ {h} : H[g] = hold[g]
  OBVIOUS
<1> HIDE DEF H
<1>2. Holders(H) = Holders(hold) \ {h} /\ h \in Holders(hold)
  BY <1>1 DEF Holders
<1>3. IsFiniteSet(Holders(hold))
  BY FS_Subset DEF Holders
<1>4. Cardinality(Holders(H)) = Cardinality(Holders(hold)) - 1
  BY <1>2, <1>3, FS_RemoveElement
<1>5. Cardinality(Holders(hold)) \in Nat /\ Cardinality(Holders(hold)) # 0
  BY <1>2, <1>3, FS_CardinalityType, FS_EmptySet
<1>6. QED
  BY <1>4, <1>5 DEF H

-----------------------------------------------------------------------------
(* The pools                                                               *)

\* What the proofs know of the constants.
LEMMA SlotFacts ==
  /\ CAPACITY \in Nat \ {0}
  /\ Mem!Slot = 0 .. CAPACITY - 1 /\ Mem!StaticSlot = 0 .. CAPACITY - 1
  /\ IsFiniteSet(Mem!Slot) /\ Cardinality(Mem!Slot) = CAPACITY
  /\ NULL \notin Mem!Slot /\ Pattern \notin Mem!Slot /\ NULL # Pattern
  /\ IsFiniteSet(Handle)
<1>1. /\ CAPACITY \in Nat \ {0} /\ IsFiniteSet(Handle)
      /\ Mem!Slot = 0 .. CAPACITY - 1 /\ Mem!StaticSlot = 0 .. CAPACITY - 1
      /\ NULL \notin Mem!Slot /\ Pattern \notin Mem!Slot /\ NULL # Pattern
  <2>1. CAPACITY \in Nat \ {0} /\ NULL # Pattern
    BY MCAllocatorsAssumption DEF Mem!PoolsAndArenaAssumption
  <2>2. {NULL, Pattern} \intersect (Mem!Slot \union Mem!StaticSlot) = {}
    BY MCAllocatorsAssumption DEF Mem!PoolsAndArenaAssumption
  <2>3. Mem!Slot = 0 .. CAPACITY - 1 /\ Mem!StaticSlot = 0 .. CAPACITY - 1
    BY DEF Mem!Slot, Mem!StaticSlot
  <2>4. QED
    BY <2>1, <2>2, <2>3, SlabAssumption
<1>2. IsFiniteSet(0 .. CAPACITY - 1) /\ Cardinality(0 .. CAPACITY - 1) = CAPACITY
  BY <1>1, FS_Interval
<1>3. QED
  BY <1>1, <1>2

\* The links of the words.
LEMMA PoolLinksType ==
  ASSUME Mem!PoolTypeOK
  PROVE  /\ PoolLinks \in Links(Mem!Slot, NULL)
         /\ \A k \in Mem!Slot : PoolLinks[k] = IF word[k] = Pattern THEN NULL ELSE word[k]
BY DEF Mem!PoolTypeOK, Mem!Word, PoolLinks, Links

LEMMA PoolInitInv ==
  ASSUME Mem!PoolInit
  PROVE  PoolInv
<1>1. word = FreshLinks(CAPACITY)
  BY SlotFacts DEF Mem!PoolInit, FreshLinks
<1>2. \A k \in Mem!Slot : word[k] \in Mem!Slot \union {NULL} /\ word[k] # Pattern
  BY <1>1, SlotFacts DEF FreshLinks
<1>3. PoolLinks = FreshLinks(CAPACITY)
  <2>1. PoolLinks = [k \in Mem!Slot |-> word[k]]
    BY <1>2 DEF PoolLinks
  <2>2. QED
    BY <1>1, <2>1, SlotFacts DEF FreshLinks
<1>4. Mem!PoolTypeOK
  BY <1>1, <1>2, SlotFacts DEF Mem!PoolInit, Mem!PoolTypeOK, Mem!Word, FreshLinks
<1>5. FreeListInv(Mem!Slot, free_list, PoolLinks, held)
  BY <1>3, SlotFacts, FreshList DEF Mem!PoolInit
<1>6. ChainSet(free_list, PoolLinks, NULL) \subseteq Mem!Slot
  BY <1>5 DEF FreeListInv
<1>7. Cardinality(Holders(held)) = 0
  <2>1. Holders(held) = {}
    BY DEF Mem!PoolInit, Holders
  <2>2. QED
    BY <2>1, FS_EmptySet
<1>8. QED
  BY <1>2, <1>4, <1>5, <1>6, <1>7 DEF PoolInv, Mem!PoolInit

\* The pool, step by step.
LEMMA PoolAllocInv ==
  ASSUME PoolInv, NEW h \in Handle, Mem!PoolAlloc(h)
  PROVE  PoolInv' /\ free_list \in Mem!Slot /\ \A g \in Handle : held[g] # free_list
<1> DEFINE S == Mem!Slot
           link == PoolLinks
           new == PoolLinks'
<1>1. /\ Mem!PoolTypeOK /\ FreeListInv(S, free_list, link, held)
      /\ \A k \in ChainSet(free_list, link, NULL) : word[k] # Pattern
      /\ allocated = Cardinality(Holders(held))
  BY DEF PoolInv
<1>2. /\ held[h] = NULL /\ free_list # NULL /\ free_list' = word[free_list]
      /\ allocated' = allocated + 1
      /\ word' = [word EXCEPT ![free_list] = Pattern]
      /\ held' = [held EXCEPT ![h] = free_list]
  BY DEF Mem!PoolAlloc
<1>3. /\ free_list \in S /\ word \in [S -> Mem!Word] /\ held \in [Handle -> S \union {NULL}]
  BY <1>1, <1>2 DEF Mem!PoolTypeOK
<1>4. /\ word' \in [S -> Mem!Word] /\ word'[free_list] = Pattern
      /\ \A k \in S \ {free_list} : word'[k] = word[k]
  BY <1>2, <1>3 DEF Mem!Word
<1>5. /\ new \in Links(S, NULL)
      /\ \A k \in S \ {free_list} : new[k] = link[k]
  BY <1>4, <1>3 DEF PoolLinks, Links, Mem!Word
<1> HIDE DEF S, link, new
<1>6. /\ free_list \in ChainSet(free_list, link, NULL)
      /\ FreeListInv(S, link[free_list], new, held')
      /\ ChainSet(link[free_list], new, NULL) = ChainSet(free_list, link, NULL) \ {free_list}
  <2>1. IsFiniteSet(S) /\ NULL \notin S
    BY SlotFacts DEF S
  <2>2. FreeListInv(S, free_list, link, held)
    BY <1>1
  <2>3. /\ free_list \in S /\ free_list \in ChainSet(free_list, link, NULL)
        /\ FreeListInv(S, link[free_list], new, [held EXCEPT ![h] = free_list])
        /\ ChainSet(link[free_list], new, NULL) = ChainSet(free_list, link, NULL) \ {free_list}
    <3>1. held[h] = NULL /\ free_list # NULL
      BY <1>2
    <3>2. QED
      BY <1>5, <2>1, <2>2, <3>1, TakeSlot
  <2>4. QED
    BY <1>2, <2>3
<1>7. link[free_list] = free_list'
  BY <1>1, <1>2, <1>3, <1>6 DEF link, S, PoolLinks
<1>8. FreeListInv(S, free_list', new, held')
  BY <1>6, <1>7
<1>9. \A k \in ChainSet(free_list', new, NULL) : word'[k] # Pattern
  <2>1. ChainSet(free_list, link, NULL) \subseteq S
    BY <1>1 DEF FreeListInv
  <2>2. QED
    BY <1>1, <1>4, <1>6, <1>7, <2>1
<1>10. allocated' = Cardinality(Holders(held'))
  BY <1>1, <1>2, <1>3, SlotFacts, HoldersTake
<1>11. allocated' \in 0 .. CAPACITY
  BY <1>8, <1>10, SlotFacts, HoldersFit DEF S
<1>12. Mem!PoolTypeOK'
  <2>1. held' \in [Handle -> S \union {NULL}]
    BY <1>2, <1>3
  <2>2. free_list' \in S \union {NULL}
    BY <1>1, <1>3, <1>6, <1>7, PoolLinksType DEF Links, S, link
  <2>3. QED
    BY <1>4, <1>11, <2>1, <2>2 DEF Mem!PoolTypeOK, S
<1>13. PoolInv'
  BY <1>8, <1>9, <1>10, <1>12 DEF PoolInv, S, new
<1>14. \A g \in Handle : held[g] # free_list
  BY <1>1, <1>6 DEF FreeListInv
<1>15. QED
  BY <1>3, <1>13, <1>14 DEF S

LEMMA PoolFreeInv ==
  ASSUME PoolInv, NEW h \in Handle, Mem!PoolFree(h)
  PROVE  PoolInv'
<1> DEFINE S == Mem!Slot
           slot == held[h]
           link == PoolLinks
           new == PoolLinks'
<1>1. /\ Mem!PoolTypeOK /\ FreeListInv(S, free_list, link, held)
      /\ \A k \in ChainSet(free_list, link, NULL) : word[k] # Pattern
      /\ allocated = Cardinality(Holders(held))
  BY DEF PoolInv
<1>2. /\ slot # NULL /\ free_list' = slot /\ allocated' = allocated - 1
      /\ word' = [word EXCEPT ![slot] = free_list]
      /\ held' = [held EXCEPT ![h] = NULL]
  BY DEF Mem!PoolFree
<1>3. /\ free_list \in S \union {NULL} /\ slot \in S
      /\ word \in [S -> Mem!Word] /\ held \in [Handle -> S \union {NULL}]
  BY <1>1, <1>2 DEF Mem!PoolTypeOK
<1>4. /\ word' \in [S -> Mem!Word] /\ word'[slot] = free_list
      /\ \A k \in S \ {slot} : word'[k] = word[k]
  BY <1>2, <1>3 DEF Mem!Word
<1>5. free_list # Pattern
  BY <1>3, SlotFacts
<1>6. /\ new \in Links(S, NULL) /\ new[slot] = free_list
      /\ \A k \in S \ {slot} : new[k] = link[k]
  BY <1>3, <1>4, <1>5 DEF PoolLinks, Links, Mem!Word
<1> HIDE DEF S, link, new
<1>7. /\ FreeListInv(S, slot, new, held')
      /\ ChainSet(slot, new, NULL) = {slot} \union ChainSet(free_list, link, NULL)
  <2>1. IsFiniteSet(S) /\ NULL \notin S
    BY SlotFacts DEF S
  <2>2. FreeListInv(S, free_list, link, held)
    BY <1>1
  <2>3. /\ FreeListInv(S, held[h], new, [held EXCEPT ![h] = NULL])
        /\ ChainSet(held[h], new, NULL) = {held[h]} \union ChainSet(free_list, link, NULL)
    <3>1. held[h] # NULL /\ new[held[h]] = free_list
      BY <1>2, <1>6
    <3>2. \A k \in S \ {held[h]} : new[k] = link[k]
      BY <1>6
    <3>3. new \in Links(S, NULL)
      BY <1>6
    <3>4. QED
      BY <2>1, <2>2, <3>1, <3>2, <3>3, GiveSlot
  <2>4. QED
    BY <1>2, <2>3
<1>8. FreeListInv(S, free_list', new, held')
  BY <1>2, <1>7
<1>9. \A k \in ChainSet(free_list', new, NULL) : word'[k] # Pattern
  <2>1. ChainSet(free_list, link, NULL) \subseteq S
    BY <1>1 DEF FreeListInv
  <2> HIDE DEF slot
  <2>2. QED
    BY <1>1, <1>2, <1>4, <1>5, <1>7, <2>1
<1>10. allocated' = Cardinality(Holders(held'))
  BY <1>1, <1>2, <1>3, SlotFacts, HoldersGive
<1>11. allocated' \in 0 .. CAPACITY
  BY <1>8, <1>10, SlotFacts, HoldersFit DEF S
<1>12. Mem!PoolTypeOK'
  BY <1>2, <1>3, <1>4, <1>11 DEF Mem!PoolTypeOK, S
<1>13. QED
  BY <1>8, <1>9, <1>10, <1>12 DEF PoolInv, S, new

LEMMA PoolUseInv ==
  ASSUME PoolInv, NEW h \in Handle, Mem!PoolUse(h)
  PROVE  PoolInv'
<1> DEFINE S == Mem!Slot
           slot == held[h]
           link == PoolLinks
           new == PoolLinks'
<1>1. /\ Mem!PoolTypeOK /\ FreeListInv(S, free_list, link, held)
      /\ \A k \in ChainSet(free_list, link, NULL) : word[k] # Pattern
      /\ allocated = Cardinality(Holders(held))
  BY DEF PoolInv
<1>2. PICK w \in Mem!Word : word' = [word EXCEPT ![slot] = w]
  BY DEF Mem!PoolUse
<1>3. slot # NULL /\ UNCHANGED <<free_list, allocated, held>>
  BY DEF Mem!PoolUse
<1>4. slot \in S /\ word \in [S -> Mem!Word]
  BY <1>1, <1>3 DEF Mem!PoolTypeOK
<1>5. word' \in [S -> Mem!Word] /\ \A k \in S \ {slot} : word'[k] = word[k]
  BY <1>2, <1>4
<1>6. new \in Links(S, NULL) /\ \A k \in S \ {slot} : new[k] = link[k]
  BY <1>4, <1>5 DEF PoolLinks, Links, Mem!Word
<1> HIDE DEF S, link, new
<1>7. /\ FreeListInv(S, free_list, new, held)
      /\ ChainSet(free_list, new, NULL) = ChainSet(free_list, link, NULL)
  BY <1>1, <1>6, SlotFacts, WriteSlot DEF S
<1>8. FreeListInv(S, free_list', new, held')
  BY <1>3, <1>7
<1>9. \A k \in ChainSet(free_list', new, NULL) : word'[k] # Pattern
  <2>1. ChainSet(free_list, link, NULL) = S \ {held[g] : g \in Handle}
    BY <1>1 DEF FreeListInv
  <2>2. QED
    BY <1>1, <1>3, <1>5, <1>7, <2>1
<1>10. Mem!PoolTypeOK'
  BY <1>1, <1>3, <1>5 DEF Mem!PoolTypeOK, S
<1>11. QED
  BY <1>1, <1>3, <1>8, <1>9, <1>10 DEF PoolInv, S, new

\* The modules that are instantiated define the chain again.
LEMMA SameOperators ==
  /\ \A first, link, null : Mem!Chain(first, link, null) = Chain(first, link, null)
  /\ \A S : Mem!Cardinality(S) = Cardinality(S)
<1>1. \A S : Mem!Cardinality(S) = Cardinality(S)
  BY Zenon DEF Mem!Cardinality, Cardinality, Mem!IsFiniteSet, IsFiniteSet
<1>2. \A first, link, null : Mem!Chain(first, link, null) = Chain(first, link, null)
  BY Zenon DEF Mem!Chain, Chain, Mem!Cardinality, Cardinality
<1>3. QED
  BY <1>1, <1>2

\* pool_alloc fails only when the client holds every slot.
LEMMA PoolExactIfInv ==
  ASSUME PoolInv
  PROVE  Mem!PoolListExact
<1> DEFINE S == Mem!Slot
           list == Chain(free_list, PoolLinks, NULL)
<1>1. /\ FreeListInv(S, free_list, PoolLinks, held)
      /\ allocated = Cardinality(Holders(held))
  BY DEF PoolInv
<1>2. {list[k] : k \in DOMAIN list} = S \ {held[h] : h \in Handle}
  BY <1>1 DEF FreeListInv, ChainSet
<1>3. Len(list) = CAPACITY - allocated
  <2>1. Len(list) = Cardinality(S) - Cardinality(Holders(held))
    BY <1>1, SlotFacts, LengthOfFreeList
  <2>2. QED
    BY <1>1, <2>1, SlotFacts
<1>4. Mem!Chain(free_list, PoolLinks, NULL) = list
  BY SameOperators, Zenon
<1> HIDE DEF list
<1>5. QED
  BY <1>2, <1>3, <1>4 DEF Mem!PoolListExact, PoolLinks

-----------------------------------------------------------------------------
\* The static pool, step by step.
LEMMA StaticInitInv ==
  ASSUME Mem!StaticInit
  PROVE  StaticInv
BY DEF Mem!StaticInit, StaticInv, Mem!StaticTypeOK

LEMMA StaticTypes ==
  /\ Mem!FreshWord = FreshLinks(CAPACITY)
  /\ Links(Mem!StaticSlot, NULL) = [Mem!StaticSlot -> Mem!StaticSlot \union {NULL}]
  /\ IsFiniteSet(Mem!StaticSlot) /\ NULL \notin Mem!StaticSlot
BY SlotFacts DEF Mem!FreshWord, FreshLinks, Links

LEMMA StaticAllocInv ==
  ASSUME StaticInv, NEW h \in Handle, Mem!StaticAlloc(h)
  PROVE  /\ StaticInv'
         /\ \E obj \in Mem!StaticSlot :
               /\ g_held' = [g_held EXCEPT ![h] = obj]
               /\ \A g \in Handle : g_held[g] # obj
<1> DEFINE S == Mem!StaticSlot
           link == IF g_initialized THEN g_word ELSE Mem!FreshWord
           obj == IF g_initialized THEN g_free_list ELSE 0
<1>1. /\ g_held[h] = NULL /\ obj # NULL /\ g_initialized' = TRUE
      /\ g_free_list' = link[obj] /\ g_word' = link
      /\ g_held' = [g_held EXCEPT ![h] = obj]
  BY Zenon DEF Mem!StaticAlloc
<1>2. FreeListInv(S, obj, link, g_held)
  <2>1. CASE g_initialized = TRUE
    BY <2>1 DEF StaticInv
  <2>2. CASE g_initialized = FALSE
    <3>1. g_held = [g \in Handle |-> NULL]
      BY <2>2 DEF StaticInv, Mem!StaticTypeOK
    <3>2. FreeListInv(0 .. CAPACITY - 1, 0, FreshLinks(CAPACITY), g_held)
      BY <3>1, SlotFacts, FreshList
    <3>3. link = FreshLinks(CAPACITY) /\ obj = 0 /\ S = 0 .. CAPACITY - 1
      BY <2>2, StaticTypes, SlotFacts
    <3>4. QED
      BY <3>2, <3>3
  <2>3. QED
    BY <2>1, <2>2 DEF StaticInv, Mem!StaticTypeOK
<1> HIDE DEF S, link, obj
<1>3. link \in Links(S, NULL) /\ g_held \in [Handle -> S \union {NULL}]
  BY <1>2 DEF FreeListInv
<1>4. /\ obj \in S /\ obj \in ChainSet(obj, link, NULL)
      /\ FreeListInv(S, link[obj], link, [g_held EXCEPT ![h] = obj])
  <2>1. IsFiniteSet(S) /\ NULL \notin S
    BY StaticTypes DEF S
  <2>2. g_held[h] = NULL /\ obj # NULL
    BY <1>1
  <2>3. \A a \in S \ {obj} : link[a] = link[a]
    OBVIOUS
  <2>4. QED
    BY <1>2, <1>3, <2>1, <2>2, <2>3, TakeSlot
<1>5. FreeListInv(S, g_free_list', g_word', g_held')
  BY <1>1, <1>4
<1>6. Mem!StaticTypeOK'
  <2>1. g_free_list' \in S \union {NULL}
    BY <1>1, <1>3, <1>4 DEF Links
  <2>2. g_held' \in [Handle -> S \union {NULL}] /\ g_word' \in [S -> S \union {NULL}]
    BY <1>5, StaticTypes DEF FreeListInv, S
  <2>3. QED
    BY <1>1, <2>1, <2>2 DEF Mem!StaticTypeOK, S
<1>7. StaticInv'
  BY <1>1, <1>5, <1>6 DEF StaticInv, S
<1>8. \A g \in Handle : g_held[g] # obj
  BY <1>2, <1>4 DEF FreeListInv
<1>9. QED
  BY <1>1, <1>4, <1>7, <1>8 DEF S

LEMMA StaticFreeInv ==
  ASSUME StaticInv, NEW h \in Handle, Mem!StaticFree(h)
  PROVE  StaticInv'
<1> DEFINE S == Mem!StaticSlot
<1>1. /\ g_held[h] # NULL /\ g_free_list' = g_held[h]
      /\ g_word' = [g_word EXCEPT ![g_held[h]] = g_free_list]
      /\ g_held' = [g_held EXCEPT ![h] = NULL]
      /\ g_initialized' = g_initialized
  BY DEF Mem!StaticFree
<1>2. /\ g_initialized = TRUE /\ FreeListInv(S, g_free_list, g_word, g_held)
      /\ Mem!StaticTypeOK
  BY <1>1 DEF StaticInv, Mem!StaticTypeOK
<1>3. /\ g_free_list \in S \union {NULL} /\ g_word \in [S -> S \union {NULL}]
      /\ g_held \in [Handle -> S \union {NULL}] /\ g_held[h] \in S
  BY <1>1, <1>2 DEF Mem!StaticTypeOK
<1>4. /\ g_word' \in [S -> S \union {NULL}] /\ g_word'[g_held[h]] = g_free_list
      /\ \A k \in S \ {g_held[h]} : g_word'[k] = g_word[k]
  BY <1>1, <1>3
<1>5. FreeListInv(S, g_held[h], g_word', [g_held EXCEPT ![h] = NULL])
  <2>1. IsFiniteSet(S) /\ NULL \notin S /\ g_word' \in Links(S, NULL)
    BY <1>4, StaticTypes
  <2>2. FreeListInv(S, g_free_list, g_word, g_held) /\ g_held[h] # NULL
    BY <1>1, <1>2
  <2> HIDE DEF S
  <2>3. QED
    BY <1>4, <2>1, <2>2, GiveSlot
<1>6. FreeListInv(S, g_free_list', g_word', g_held')
  BY <1>1, <1>5
<1>7. Mem!StaticTypeOK'
  BY <1>1, <1>2, <1>3, <1>4 DEF Mem!StaticTypeOK
<1>8. QED
  BY <1>1, <1>2, <1>6, <1>7 DEF StaticInv

LEMMA StaticUseInv ==
  ASSUME StaticInv, NEW h \in Handle, Mem!StaticUse(h)
  PROVE  StaticInv'
<1> DEFINE S == Mem!StaticSlot
<1>1. PICK w \in S \union {NULL} : g_word' = [g_word EXCEPT ![g_held[h]] = w]
  BY DEF Mem!StaticUse
<1>2. g_held[h] # NULL /\ UNCHANGED <<g_free_list, g_initialized, g_held>>
  BY DEF Mem!StaticUse
<1>3. /\ g_initialized = TRUE /\ FreeListInv(S, g_free_list, g_word, g_held)
      /\ Mem!StaticTypeOK
  BY <1>2 DEF StaticInv, Mem!StaticTypeOK
<1>4. g_held[h] \in S /\ g_word \in [S -> S \union {NULL}]
  BY <1>2, <1>3 DEF Mem!StaticTypeOK
<1>5. /\ g_word' \in [S -> S \union {NULL}]
      /\ \A k \in S \ {g_held[h]} : g_word'[k] = g_word[k]
  BY <1>1, <1>4
<1>6. FreeListInv(S, g_free_list, g_word', g_held)
  <2>1. IsFiniteSet(S) /\ NULL \notin S /\ g_word' \in Links(S, NULL)
    BY <1>5, StaticTypes
  <2>2. FreeListInv(S, g_free_list, g_word, g_held)
    BY <1>3
  <2> HIDE DEF S
  <2>3. QED
    BY <1>5, <2>1, <2>2, WriteSlot
<1>7. Mem!StaticTypeOK'
  BY <1>2, <1>3, <1>5 DEF Mem!StaticTypeOK
<1>8. QED
  BY <1>2, <1>3, <1>6, <1>7 DEF StaticInv

\* An empty list of the static pool means that the client holds every slot.
LEMMA StaticExactIfInv ==
  ASSUME StaticInv
  PROVE  Mem!StaticListExact
<1> DEFINE S == Mem!StaticSlot
           list == Chain(g_free_list, g_word, NULL)
<1>1. CASE g_initialized = FALSE
  BY <1>1 DEF Mem!StaticListExact
<1>2. CASE g_initialized = TRUE
  <2>1. FreeListInv(S, g_free_list, g_word, g_held)
    BY <1>2 DEF StaticInv
  <2>2. {list[k] : k \in DOMAIN list} = S \ {g_held[h] : h \in Handle}
    BY <2>1 DEF FreeListInv, ChainSet
  <2>3. Len(list) = Cardinality(S) - Cardinality(Holders(g_held))
    BY <2>1, SlotFacts, StaticTypes, LengthOfFreeList
  <2>4. Len(list) = CAPACITY - Mem!Cardinality({h \in Handle : g_held[h] # NULL})
    <3>1. Mem!Cardinality({h \in Handle : g_held[h] # NULL}) = Cardinality(Holders(g_held))
      BY SameOperators, Zenon DEF Holders
    <3>2. Cardinality(S) = CAPACITY
      BY SlotFacts
    <3>3. QED
      BY <2>3, <3>1, <3>2
  <2>5. Mem!Chain(g_free_list, g_word, NULL) = list
    BY SameOperators, Zenon
  <2> HIDE DEF list
  <2>6. QED
    BY <2>2, <2>4, <2>5 DEF Mem!StaticListExact
<1>3. QED
  BY <1>1, <1>2 DEF StaticInv, Mem!StaticTypeOK

-----------------------------------------------------------------------------
(* The arena                                                               *)

\* What the proofs know of the constants of the arena.
LEMMA ArenaFacts ==
  /\ ARENA_CAPACITY \in Nat \ {0} /\ ARENA_WORD \in Nat \ {0}
  /\ ArenaBases \subseteq Nat
  /\ \A r \in ArenaRequests :
        /\ r = <<r[1], r[2]>> /\ r[1] \in Nat /\ r[2] \in Nat \ {0}
        /\ ARENA_CAPACITY + r[1] + r[2] <= ARENA_WORD
        /\ \A m \in ArenaBases : m % r[2] = 0
  /\ NULL \notin Nat \X Nat \X Nat
BY MCAllocatorsAssumption DEF Mem!PoolsAndArenaAssumption

\* align_up gives the next multiple, as long as the sum does not wrap.
LEMMA AlignUpFacts ==
  ASSUME NEW a \in Nat, NEW z \in Nat \ {0}, a + z <= ARENA_WORD
  PROVE  Mem!AlignUp(a, z) \in a .. a + z - 1 /\ Mem!AlignUp(a, z) % z = 0
<1> DEFINE b == a + z - 1   q == b \div z   r == b % z
<1>1. ARENA_WORD \in Nat \ {0} /\ b \in 0 .. ARENA_WORD - 1
  BY ArenaFacts
<1>2. b % ARENA_WORD = b
  BY <1>1, SmallRemainder
<1>3. Mem!AlignUp(a, z) = q * z
  BY <1>2 DEF Mem!AlignUp
<1>4. b \in Int /\ b = (a + z) - 1
  BY <1>1
<1> HIDE DEF b
<1>5. q \in Int /\ r \in 0 .. z - 1 /\ b = z * q + r
  BY <1>4, DivMod
<1>6. (q * z) % z = 0
  BY <1>5, ExactQuotient
<1> HIDE DEF q, r
<1>7. q * z = b - r
  BY <1>4, <1>5, SMT
<1>8. b - r \in a .. a + z - 1
  BY <1>4, <1>5
<1>9. QED
  BY <1>3, <1>6, <1>7, <1>8

\* The arena, step by step.
LEMMA ArenaInitInv ==
  ASSUME Mem!ArenaInit
  PROVE  ArenaInv
BY ArenaFacts DEF Mem!ArenaInit, ArenaInv, Mem!ArenaTypeOK

LEMMA ArenaAllocInv ==
  ASSUME ArenaInv, NEW h \in Handle, NEW r \in ArenaRequests, Mem!ArenaAlloc(h, r[1], r[2])
  PROVE  /\ ArenaInv'
         /\ \E o \in 0 .. ARENA_CAPACITY :
               /\ blocks' = [blocks EXCEPT ![h] = <<memory + o, r[1], r[2]>>]
               /\ o >= used
<1> DEFINE o == Mem!AlignUp(used, r[2])
           new == <<memory + o, r[1], r[2]>>
<1>1. /\ memory \in Nat /\ memory \in ArenaBases /\ used \in 0 .. ARENA_CAPACITY
      /\ blocks \in [Handle -> (Nat \X Nat \X Nat) \union {NULL}]
  BY ArenaFacts DEF ArenaInv, Mem!ArenaTypeOK
<1>2. /\ r = <<r[1], r[2]>> /\ r[1] \in Nat /\ r[2] \in Nat \ {0}
      /\ ARENA_CAPACITY + r[1] + r[2] <= ARENA_WORD
      /\ memory % r[2] = 0
      /\ ARENA_CAPACITY \in Nat /\ ARENA_WORD \in Nat \ {0}
  BY <1>1, ArenaFacts
<1>3. o \in used .. used + r[2] - 1 /\ o % r[2] = 0
  <2>1. used \in Nat /\ used + r[2] <= ARENA_WORD
    BY <1>1, <1>2
  <2>2. QED
    BY <1>2, <2>1, AlignUpFacts
<1>4. /\ blocks[h] = NULL
      /\ (o + r[1]) % ARENA_WORD <= ARENA_CAPACITY
      /\ blocks' = [blocks EXCEPT ![h] = new]
      /\ used' = (o + r[1]) % ARENA_WORD
      /\ memory' = memory
  BY DEF Mem!ArenaAlloc, Mem!Fits
<1> HIDE DEF o
<1>5. (o + r[1]) % ARENA_WORD = o + r[1]
  <2>1. o + r[1] \in 0 .. ARENA_WORD - 1
    BY <1>1, <1>2, <1>3
  <2>2. QED
    BY <1>2, <2>1, SmallRemainder
<1>6. used' = o + r[1] /\ used' \in 0 .. ARENA_CAPACITY /\ used <= o /\ o \in 0 .. ARENA_CAPACITY
  BY <1>1, <1>2, <1>3, <1>4, <1>5
<1>7. (memory + o) % r[2] = 0
  BY <1>1, <1>2, <1>3, SumOfMultiples
<1>8. /\ new \in Nat \X Nat \X Nat /\ new # NULL
      /\ new[1] = memory + o /\ new[2] = r[1] /\ new[3] = r[2]
  BY <1>1, <1>2, <1>6, ArenaFacts
<1> HIDE DEF new
<1>9. /\ blocks' \in [Handle -> (Nat \X Nat \X Nat) \union {NULL}]
      /\ blocks'[h] = new /\ \A g \in Handle \ {h} : blocks'[g] = blocks[g]
  BY <1>1, <1>4, <1>8
<1>10. Mem!ArenaTypeOK'
  BY <1>1, <1>4, <1>6, <1>9 DEF Mem!ArenaTypeOK
<1>11. ASSUME NEW g \in Handle, blocks'[g] # NULL
       PROVE  /\ <<blocks'[g][2], blocks'[g][3]>> \in ArenaRequests
              /\ blocks'[g][1] % blocks'[g][3] = 0
              /\ blocks'[g][1] >= memory'
              /\ blocks'[g][1] + blocks'[g][2] <= memory' + used'
  <2>1. CASE g = h
    BY <2>1, <1>1, <1>2, <1>4, <1>6, <1>7, <1>8, <1>9
  <2>2. CASE g # h
    <3>1. /\ blocks[g] # NULL /\ blocks'[g] = blocks[g] /\ blocks[g] \in Nat \X Nat \X Nat
      BY <1>1, <1>9, <1>11, <2>2
    <3>2. /\ <<blocks[g][2], blocks[g][3]>> \in ArenaRequests
          /\ blocks[g][1] % blocks[g][3] = 0
          /\ blocks[g][1] >= memory
          /\ blocks[g][1] + blocks[g][2] <= memory + used
      BY <3>1 DEF ArenaInv
    <3>3. memory + used <= memory' + used'
      BY <1>1, <1>2, <1>4, <1>6
    <3>4. blocks[g][1] \in Nat /\ blocks[g][2] \in Nat
      BY <3>1
    <3>5. QED
      BY <1>1, <1>4, <1>6, <3>1, <3>2, <3>3, <3>4
  <2>3. QED
    BY <2>1, <2>2
<1>12. ASSUME NEW g \in Handle \ {h}, blocks[g] # NULL
       PROVE  blocks[g][1] + blocks[g][2] <= new[1]
  <2>1. blocks[g][1] + blocks[g][2] <= memory + used
    BY <1>12 DEF ArenaInv
  <2>2. blocks[g][1] \in Nat /\ blocks[g][2] \in Nat
    BY <1>1, <1>12
  <2>3. QED
    BY <1>1, <1>6, <1>8, <2>1, <2>2
<1>13. ASSUME NEW f \in Handle, NEW g \in Handle, blocks'[f] # NULL, blocks'[g] # NULL, f # g
       PROVE  \/ blocks'[f][1] + blocks'[f][2] <= blocks'[g][1]
              \/ blocks'[g][1] + blocks'[g][2] <= blocks'[f][1]
  <2>1. CASE f = h
    BY <1>9, <1>12, <1>13, <2>1
  <2>2. CASE g = h
    BY <1>9, <1>12, <1>13, <2>2
  <2>3. CASE f # h /\ g # h
    BY <1>9, <1>13, <2>3 DEF ArenaInv
  <2>4. QED
    BY <2>1, <2>2, <2>3
<1>14. ArenaInv'
  BY <1>10, <1>11, <1>13 DEF ArenaInv
<1>15. QED
  BY <1>4, <1>6, <1>14 DEF new

LEMMA ArenaResetInv ==
  ASSUME ArenaInv, Mem!ArenaReset
  PROVE  ArenaInv'
BY ArenaFacts DEF Mem!ArenaReset, ArenaInv, Mem!ArenaTypeOK

\* The addresses are aligned, and no block ends behind the arena.
LEMMA AlignedIfInv ==
  ASSUME ArenaInv
  PROVE  Mem!BlocksAreAligned
<1>1. memory \in Nat /\ used \in 0 .. ARENA_CAPACITY /\ ARENA_CAPACITY \in Nat
  BY ArenaFacts DEF ArenaInv, Mem!ArenaTypeOK
<1>2. ASSUME NEW h \in Handle, blocks[h] # NULL
      PROVE  /\ blocks[h][1] % blocks[h][3] = 0
             /\ blocks[h][1] >= memory
             /\ blocks[h][1] + blocks[h][2] <= memory + ARENA_CAPACITY
  <2>1. /\ blocks[h][1] % blocks[h][3] = 0
        /\ blocks[h][1] >= memory
        /\ blocks[h][1] + blocks[h][2] <= memory + used
    BY <1>2 DEF ArenaInv
  <2>2. blocks[h][1] \in Nat /\ blocks[h][2] \in Nat
    BY <1>2 DEF ArenaInv, Mem!ArenaTypeOK
  <2>3. QED
    BY <1>1, <2>1, <2>2
<1>3. QED
  BY <1>2 DEF Mem!BlocksAreAligned

-----------------------------------------------------------------------------
(* The slab cache                                                          *)

\* What the proofs know of the constants.
LEMMA SlabFacts ==
  /\ NULL \notin Slab /\ NULL \notin Slab \X Nat
  /\ IsFiniteSet(Slab) /\ IsFiniteSet(Handle)
  /\ SLAB_PAGE_SIZE \in Nat \ {0} /\ BITMAP_BITS \in Nat \ {0} /\ POINTER_SIZE \in Nat \ {0}
  /\ Cardinality(Handle) \in Nat /\ WORD \in Nat \ {0} /\ WORD > Cardinality(Handle)
  /\ \A r \in Requests : r[1] \in Nat /\ r[2] \in Nat
<1>1. Cardinality(Handle) \in Nat
  BY SlabAssumption, FS_CardinalityType
<1>2. QED
  BY <1>1, SlabAssumption DEF SlabAssumption

\* slab_cache_init's sizes: at least a pointer, and as many objects as bits at most.
LEMMA SizeFacts ==
  ASSUME NEW r \in Requests
  PROVE  /\ ObjSize(r[1], r[2]) \in Nat \ {0}
         /\ ObjsPerSlab(ObjSize(r[1], r[2])) \in 1 .. BITMAP_BITS
<1> DEFINE z == IF r[2] = 0 THEN POINTER_SIZE ELSE r[2]
           rounded == RoundUp(r[1], z)
           size == ObjSize(r[1], r[2])
<1>1. z \in Nat \ {0} /\ r[1] \in Nat /\ r[1] + z - 1 \in Int
  BY SlabFacts
<1>2. rounded \in Int
  <2>1. (r[1] + z - 1) \div z \in Int
    BY <1>1, DivMod
  <2> HIDE DEF z
  <2>2. QED
    BY <1>1, <2>1 DEF RoundUp
<1>3. size = IF rounded < POINTER_SIZE THEN POINTER_SIZE ELSE rounded
  BY DEF ObjSize
<1> HIDE DEF z, rounded, size
<1>4. size \in Nat \ {0}
  BY <1>2, <1>3, SlabFacts
<1>5. SLAB_PAGE_SIZE \div size \in Int
  BY <1>4, SlabFacts, DivMod
<1>6. ObjsPerSlab(size) \in 1 .. BITMAP_BITS
  BY <1>5, SlabFacts DEF ObjsPerSlab
<1>7. QED
  BY <1>4, <1>6 DEF size

\* find_free_slot finds a slot when not all of them are in use.
LEMMA FreeSlotFound ==
  ASSUME NEW count \in Nat, NEW inUse \in SUBSET (0 .. count - 1), Cardinality(inUse) < count
  PROVE  FindFreeSlot(inUse, count) \in (0 .. count - 1) \ inUse
<1> DEFINE T == (0 .. count - 1) \ inUse
<1>1. ~ (0 .. count - 1 \subseteq inUse)
  <2>1. Cardinality(0 .. count - 1) = count
    BY FS_Interval
  <2>2. inUse # 0 .. count - 1
    BY <2>1
  <2>3. QED
    BY <2>2
<1>2. T # {} /\ T \subseteq Nat
  BY <1>1
<1>3. \E k \in T : \A j \in 0 .. k - 1 : j \in inUse
  <2>1. IsWellFoundedOn(OpToRel(<, Nat), Nat)
    BY NatLessThanWellFounded
  <2>2. PICK k \in T : \A j \in T : ~ (<<j, k>> \in OpToRel(<, Nat))
    BY <1>2, <2>1, WFMin
  <2>3. \A j \in T : ~ (j < k)
    BY <1>2, <2>2 DEF OpToRel
  <2>4. ASSUME NEW j \in 0 .. k - 1 PROVE j \in inUse
    BY <2>3, <2>4
  <2>5. QED
    BY <2>4
<1>4. FindFreeSlot(inUse, count) = CHOOSE k \in T : \A j \in 0 .. k - 1 : j \in inUse
  BY <1>1 DEF FindFreeSlot
<1>5. (CHOOSE k \in T : \A j \in 0 .. k - 1 : j \in inUse) \in T
  BY <1>3
<1>6. QED
  BY <1>4, <1>5

\* Listed is ChainSet, for the slabs.
LEMMA ListedIsChainSet ==
  /\ Listed(partial) = ChainSet(partial, next, NULL)
  /\ Listed(full) = ChainSet(full, next, NULL)
BY DEF Listed, ChainSet

\* The bitmaps are finite, so their bits can be counted.
LEMMA BitmapFacts ==
  ASSUME SlabInv, NEW b \in created
  PROVE  /\ bitmap[b] \subseteq 0 .. objs_per_slab - 1
         /\ IsFiniteSet(bitmap[b]) /\ Cardinality(bitmap[b]) \in Nat
<1>1. objs_per_slab \in Nat
  BY DEF SlabInv, SizesInv, SlabTypeOK
<1>2. SlotsOf(b) \subseteq 0 .. objs_per_slab - 1
  BY DEF SlabInv, ObjectsInv, SlotsOf, HoldersIn
<1>3. bitmap[b] \subseteq 0 .. objs_per_slab - 1
  BY <1>2 DEF SlabInv, BitmapsInv
<1>4. IsFiniteSet(bitmap[b])
  <2>1. IsFiniteSet(0 .. objs_per_slab - 1)
    BY <1>1, FS_Interval
  <2>2. QED
    BY <1>3, <2>1, FS_Subset
<1>5. QED
  BY <1>3, <1>4, FS_CardinalityType

LEMMA SlabInitInv ==
  ASSUME Init
  PROVE  SlabInv
<1>1. PICK r \in Requests :
         /\ obj_size = ObjSize(r[1], r[2])
         /\ objs_per_slab = ObjsPerSlab(ObjSize(r[1], r[2]))
  BY DEF Init
<1>2. obj_size \in Nat \ {0} /\ objs_per_slab \in 1 .. BITMAP_BITS
  BY <1>1, SizeFacts
<1>3. /\ partial \in Slab /\ full = NULL /\ created = {partial}
      /\ next = [b \in Slab |-> NULL] /\ bitmap = [b \in Slab |-> {}]
      /\ free_count = [b \in Slab |-> objs_per_slab]
      /\ total_allocated = 0 /\ total_freed = 0
      /\ objects = [h \in Handle |-> NULL]
  BY DEF Init
<1>4. SizesInv
  <2>1. SlabTypeOK
    BY <1>2, <1>3, SlabFacts DEF SlabTypeOK
  <2>2. objs_per_slab <= BITMAP_BITS
    BY <1>2, SlabFacts
  <2>3. QED
    BY <1>1, <1>3, <2>1, <2>2 DEF SizesInv
<1>5. ObjectsInv
  BY <1>3 DEF ObjectsInv
<1>6. SlabListsInv
  <2>1. next \in Links(Slab, NULL) /\ next[partial] = NULL
    BY <1>3 DEF Links
  <2>2. Whole(NULL, Slab, next, NULL) /\ ChainSet(NULL, next, NULL) = {}
    BY <2>1, SlabFacts, EmptyChain
  <2>3. Whole(next[partial], Slab, next, NULL) /\ partial \notin ChainSet(next[partial], next, NULL)
    BY <2>1, <2>2
  <2>4. /\ Whole(partial, Slab, next, NULL)
        /\ Chain(partial, next, NULL) = <<partial>> \o Chain(next[partial], next, NULL)
        /\ ChainSet(partial, next, NULL) = {partial} \union ChainSet(next[partial], next, NULL)
    BY <1>3, <2>1, <2>3, SlabFacts, PushOnChain
  <2>5. ChainSet(partial, next, NULL) = {partial}
    BY <2>1, <2>2, <2>4
  <2>6. free_count[partial] > 0
    BY <1>2, <1>3
  <2>7. /\ {b \in created : free_count[b] > 0} = {partial}
        /\ {b \in created : free_count[b] = 0} = {}
    BY <1>3, <2>6
  <2>8. QED
    BY <1>3, <2>2, <2>4, <2>5, <2>7 DEF SlabListsInv
<1>7. BitmapsInv
  <2>1. ASSUME NEW b \in created PROVE SlotsOf(b) = {} /\ bitmap[b] = {} /\ free_count[b] = objs_per_slab
    BY <1>3 DEF SlotsOf, HoldersIn
  <2>2. objs_per_slab = objs_per_slab - Cardinality({})
    BY <1>2, FS_EmptySet
  <2>3. ASSUME NEW b \in created
        PROVE  /\ bitmap[b] = SlotsOf(b)
               /\ free_count[b] = objs_per_slab - Cardinality(bitmap[b])
    BY <2>1, <2>2
  <2>4. QED
    BY <2>3 DEF BitmapsInv
<1>8. StatisticsInv
  <2>1. Holders(objects) = {}
    BY <1>3 DEF Holders
  <2>2. Cardinality(Holders(objects)) = 0
    BY <2>1, FS_EmptySet
  <2>3. QED
    BY <1>3, <2>2 DEF StatisticsInv
<1>9. QED
  BY <1>4, <1>5, <1>6, <1>7, <1>8 DEF SlabInv

-----------------------------------------------------------------------------
\* A counter that wraps.
LEMMA NextCount ==
  ASSUME NEW c \in 0 .. WORD - 1
  PROVE  (c + 1) % WORD = IF c + 1 = WORD THEN 0 ELSE c + 1
<1>1. CASE c + 1 = WORD
  <2>1. (1 * WORD) % WORD = 0
    BY SlabFacts, ExactQuotient
  <2>2. 1 * WORD = c + 1
    BY <1>1, SlabFacts
  <2>3. QED
    BY <1>1, <2>1, <2>2
<1>2. CASE c + 1 # WORD
  <2>1. c + 1 \in 0 .. WORD - 1
    BY <1>2, SlabFacts
  <2>2. QED
    BY <1>2, <2>1, SlabFacts, SmallRemainder
<1>3. QED
  BY <1>1, <1>2

\* The list of b, before slab_cache_alloc takes a slot of it: what slab_create
\* has made, or the head of the partial list.
ReadyToAlloc(b, inUse, free, after) ==
    LET link == [next EXCEPT ![b] = after]
    IN  /\ b \in Slab /\ link \in Links(Slab, NULL)
        /\ inUse = SlotsOf(b) /\ inUse \subseteq 0 .. objs_per_slab - 1
        /\ free = objs_per_slab - Cardinality(inUse) /\ free > 0
        /\ Whole(b, Slab, link, NULL) /\ Whole(full, Slab, link, NULL)
        /\ ChainSet(b, link, NULL) = {b} \union {c \in created : c # b /\ free_count[c] > 0}
        /\ ChainSet(full, link, NULL) = {c \in created : c # b /\ free_count[c] = 0}

LEMMA PartialIsReady ==
  ASSUME SlabInv, partial # NULL
  PROVE  /\ partial \in created
         /\ ReadyToAlloc(partial, bitmap[partial], free_count[partial], next[partial])
<1>1. /\ partial \in Slab /\ next \in [Slab -> Slab \union {NULL}] /\ created \subseteq Slab
      /\ objs_per_slab \in Nat /\ free_count \in [Slab -> 0 .. objs_per_slab]
  BY DEF SlabInv, SizesInv, SlabTypeOK
<1>2. /\ Whole(partial, Slab, next, NULL) /\ Whole(full, Slab, next, NULL)
      /\ ChainSet(partial, next, NULL) = {b \in created : free_count[b] > 0}
      /\ ChainSet(full, next, NULL) = {b \in created : free_count[b] = 0}
  BY DEF SlabInv, SlabListsInv
<1>3. partial \in ChainSet(partial, next, NULL)
  <2>1. next \in Links(Slab, NULL)
    BY <1>1 DEF Links
  <2>2. /\ Whole(next[partial], Slab, next, NULL)
        /\ Chain(partial, next, NULL) = <<partial>> \o Chain(next[partial], next, NULL)
        /\ Tail(Chain(partial, next, NULL)) = Chain(next[partial], next, NULL)
        /\ partial \notin ChainSet(next[partial], next, NULL)
        /\ ChainSet(partial, next, NULL) = {partial} \union ChainSet(next[partial], next, NULL)
    BY <1>1, <1>2, <2>1, SlabFacts, FirstOfChain
  <2>3. QED
    BY <2>2
<1>4. partial \in created /\ free_count[partial] > 0
  BY <1>2, <1>3
<1>5. [next EXCEPT ![partial] = next[partial]] = next
  BY <1>1
<1>6. /\ bitmap[partial] = SlotsOf(partial) /\ bitmap[partial] \subseteq 0 .. objs_per_slab - 1
      /\ free_count[partial] = objs_per_slab - Cardinality(bitmap[partial])
  BY <1>4, BitmapFacts DEF SlabInv, BitmapsInv
<1>7. /\ ChainSet(partial, next, NULL) = {partial} \union {c \in created : c # partial /\ free_count[c] > 0}
      /\ ChainSet(full, next, NULL) = {c \in created : c # partial /\ free_count[c] = 0}
  BY <1>2, <1>4
<1>8. next \in Links(Slab, NULL)
  BY <1>1 DEF Links
<1>9. QED
  BY <1>1, <1>2, <1>4, <1>5, <1>6, <1>7, <1>8 DEF ReadyToAlloc

LEMMA NewSlabIsReady ==
  ASSUME SlabInv, partial = NULL, NEW b \in Slab \ created
  PROVE  ReadyToAlloc(b, {}, objs_per_slab, NULL)
<1> DEFINE link == [next EXCEPT ![b] = NULL]
<1>1. /\ next \in [Slab -> Slab \union {NULL}] /\ created \subseteq Slab
      /\ objs_per_slab \in Nat \ {0}
  BY DEF SlabInv, SizesInv, SlabTypeOK
<1>2. /\ Whole(full, Slab, next, NULL)
      /\ ChainSet(NULL, next, NULL) = {c \in created : free_count[c] > 0}
      /\ ChainSet(full, next, NULL) = {c \in created : free_count[c] = 0}
  BY DEF SlabInv, SlabListsInv
<1>3. next \in Links(Slab, NULL) /\ link \in Links(Slab, NULL) /\ link[b] = NULL
  BY <1>1 DEF Links
<1>4. \A c \in ChainSet(full, next, NULL) : link[c] = next[c]
  BY <1>1, <1>2
<1>5. {c \in created : free_count[c] > 0} = {}
  BY <1>2, <1>3, SlabFacts, EmptyChain
<1> HIDE DEF link
<1>6. Whole(full, Slab, link, NULL) /\ ChainSet(full, link, NULL) = ChainSet(full, next, NULL)
  BY <1>2, <1>3, <1>4, SlabFacts, ChainKept
<1>7. Whole(NULL, Slab, link, NULL) /\ ChainSet(NULL, link, NULL) = {}
  BY <1>3, SlabFacts, EmptyChain
<1>8. Whole(b, Slab, link, NULL) /\ ChainSet(b, link, NULL) = {b}
  <2>1. Whole(link[b], Slab, link, NULL) /\ b \notin ChainSet(link[b], link, NULL)
    BY <1>3, <1>7
  <2>2. /\ Whole(b, Slab, link, NULL)
        /\ Chain(b, link, NULL) = <<b>> \o Chain(link[b], link, NULL)
        /\ ChainSet(b, link, NULL) = {b} \union ChainSet(link[b], link, NULL)
    BY <1>3, <2>1, SlabFacts, PushOnChain
  <2>3. QED
    BY <1>3, <1>7, <2>2
<1>9. /\ {c \in created : c # b /\ free_count[c] > 0} = {}
      /\ {c \in created : c # b /\ free_count[c] = 0} = {c \in created : free_count[c] = 0}
  BY <1>5
<1>10. SlotsOf(b) = {}
  BY DEF SlabInv, ObjectsInv, SlotsOf, HoldersIn
<1>11. objs_per_slab = objs_per_slab - Cardinality({}) /\ objs_per_slab > 0
  BY <1>1, FS_EmptySet
<1>12. QED
  BY <1>2, <1>3, <1>6, <1>8, <1>9, <1>10, <1>11 DEF ReadyToAlloc, link

\* What an allocation takes: slot k of slab b, which nobody holds.
NewObject(h, b, k) ==
    /\ b \in Slab /\ k \in 0 .. objs_per_slab - 1
    /\ \A g \in HoldersIn(b) : SlotOf(g) # k
    /\ objects' = [objects EXCEPT ![h] = <<b, k * obj_size>>]

\* What AllocIn changes.
LEMMA AllocInEffect ==
  ASSUME SlabInv, NEW h \in Handle, objects[h] = NULL, NEW b, NEW inUse, NEW free, NEW after,
         ReadyToAlloc(b, inUse, free, after), AllocIn(h, b, inUse, free, after)
  PROVE  \E k \in (0 .. objs_per_slab - 1) \ inUse :
            /\ NewObject(h, b, k)
            /\ bitmap' = [bitmap EXCEPT ![b] = inUse \union {k}]
            /\ SlotsOf(b)' = inUse \union {k}
            /\ \A c \in Slab \ {b} : SlotsOf(c)' = SlotsOf(c)
            /\ Cardinality(inUse \union {k}) = Cardinality(inUse) + 1
            /\ Cardinality(inUse) \in Nat
            /\ ObjectsInv'
            /\ objects' \in [Handle -> (Slab \X Nat) \union {NULL}]
<1> DEFINE k == FindFreeSlot(inUse, objs_per_slab)
           new == <<b, k * obj_size>>
<1>1. /\ obj_size \in Nat \ {0} /\ objs_per_slab \in Nat
      /\ objects \in [Handle -> (Slab \X Nat) \union {NULL}]
  BY DEF SlabInv, SizesInv, SlabTypeOK
<1>2. /\ b \in Slab /\ inUse = SlotsOf(b) /\ inUse \subseteq 0 .. objs_per_slab - 1
      /\ free = objs_per_slab - Cardinality(inUse) /\ free > 0
  BY DEF ReadyToAlloc
<1>3. IsFiniteSet(inUse) /\ Cardinality(inUse) \in Nat
  <2>1. IsFiniteSet(0 .. objs_per_slab - 1)
    BY <1>1, FS_Interval
  <2>2. IsFiniteSet(inUse)
    BY <1>2, <2>1, FS_Subset
  <2>3. QED
    BY <2>2, FS_CardinalityType
<1>4. k \in (0 .. objs_per_slab - 1) \ inUse
  <2>1. Cardinality(inUse) < objs_per_slab
    BY <1>1, <1>2, <1>3
  <2>2. QED
    BY <1>1, <1>2, <2>1, FreeSlotFound
<1>5. /\ bitmap' = [bitmap EXCEPT ![b] = inUse \union {k}]
      /\ created' = created \union {b}
      /\ objects' = [objects EXCEPT ![h] = new]
      /\ obj_size' = obj_size /\ objs_per_slab' = objs_per_slab
  BY DEF AllocIn, cacheVars
<1> HIDE DEF k
<1>6. (k * obj_size) \div obj_size = k /\ k * obj_size \in Nat
  <2>1. k \in Nat
    BY <1>4
  <2>2. k * obj_size \in Nat
    BY <1>1, <2>1, SMT
  <2>3. QED
    BY <1>1, <2>1, <2>2, ExactQuotient
<1>7. new \in Slab \X Nat /\ new # NULL /\ new[1] = b /\ new[2] = k * obj_size
  BY <1>2, <1>6, SlabFacts
<1> HIDE DEF new
<1>8. /\ objects' \in [Handle -> (Slab \X Nat) \union {NULL}]
      /\ objects'[h] = new /\ \A g \in Handle \ {h} : objects'[g] = objects[g]
  BY <1>1, <1>5, <1>7
<1>9. SlotOf(h)' = k /\ \A g \in Handle \ {h} : SlotOf(g)' = SlotOf(g)
  BY <1>5, <1>6, <1>7, <1>8 DEF SlotOf
<1>10. h \notin HoldersIn(b) /\ HoldersIn(b)' = HoldersIn(b) \union {h}
  BY <1>7, <1>8 DEF HoldersIn
<1>11. \A c \in Slab \ {b} : h \notin HoldersIn(c) /\ HoldersIn(c)' = HoldersIn(c)
  BY <1>7, <1>8 DEF HoldersIn
<1>12. \A c \in Slab : HoldersIn(c) \subseteq Handle
  BY DEF HoldersIn
<1>13. SlotsOf(b)' = inUse \union {k}
  BY <1>2, <1>9, <1>10, <1>12 DEF SlotsOf
<1>14. \A c \in Slab \ {b} : SlotsOf(c)' = SlotsOf(c)
  BY <1>9, <1>11, <1>12 DEF SlotsOf
<1>15. \A g \in HoldersIn(b) : SlotOf(g) # k
  BY <1>2, <1>4 DEF SlotsOf
<1>16. Cardinality(inUse \union {k}) = Cardinality(inUse) + 1
  BY <1>3, <1>4, FS_AddElement
<1>17. ASSUME NEW g \in Handle, objects'[g] # NULL
       PROVE  /\ objects'[g][1] \in created'
              /\ SlotOf(g)' \in 0 .. objs_per_slab' - 1
              /\ objects'[g][2] = SlotOf(g)' * obj_size'
  <2>1. CASE g = h
    <3>1. objects'[g] = new /\ SlotOf(g)' = k
      BY <1>8, <1>9, <2>1
    <3>2. QED
      BY <1>4, <1>5, <1>7, <3>1
  <2>2. CASE g # h
    <3>1. objects'[g] = objects[g] /\ SlotOf(g)' = SlotOf(g) /\ objects[g] # NULL
      BY <1>8, <1>9, <1>17, <2>2
    <3>2. /\ objects[g][1] \in created
          /\ SlotOf(g) \in 0 .. objs_per_slab - 1
          /\ objects[g][2] = SlotOf(g) * obj_size
      BY <3>1 DEF SlabInv, ObjectsInv
    <3>3. QED
      BY <1>5, <3>1, <3>2
  <2>3. QED
    BY <2>1, <2>2
<1>18. ASSUME NEW g \in Handle \ {h} PROVE objects[g] # new
  <2>1. CASE objects[g] = NULL
    BY <1>7, <2>1
  <2>2. CASE objects[g] # NULL
    <3>1. SUFFICES ASSUME objects[g] = new PROVE FALSE
      OBVIOUS
    <3>2. g \in HoldersIn(b) /\ SlotOf(g) = k
      BY <1>6, <1>7, <2>2, <3>1 DEF HoldersIn, SlotOf
    <3>3. QED
      BY <1>15, <3>2
  <2>3. QED
    BY <2>1, <2>2
<1>19. ASSUME NEW f \in Handle, NEW g \in Handle, objects'[f] # NULL, objects'[f] = objects'[g]
       PROVE  f = g
  <2>1. CASE f = h \/ g = h
    BY <1>8, <1>18, <1>19, <2>1
  <2>2. CASE f # h /\ g # h
    BY <1>8, <1>19, <2>2 DEF SlabInv, ObjectsInv
  <2>3. QED
    BY <2>1, <2>2
<1>20. ObjectsInv'
  BY <1>17, <1>19 DEF ObjectsInv
<1>21. NewObject(h, b, k)
  BY <1>2, <1>4, <1>5, <1>15 DEF NewObject, new
<1>22. QED
  BY <1>3, <1>4, <1>5, <1>8, <1>13, <1>14, <1>16, <1>20, <1>21

\* A slab that has become full moves to the full list, another one stays first.
LEMMA AllocInLists ==
  ASSUME SlabInv, NEW h \in Handle, NEW b, NEW inUse, NEW free \in Nat, NEW after,
         ReadyToAlloc(b, inUse, free, after), AllocIn(h, b, inUse, free, after)
  PROVE  SlabListsInv' /\ next' \in [Slab -> Slab \union {NULL}]
         /\ {partial', full'} \subseteq Slab \union {NULL}
<1> DEFINE link == [next EXCEPT ![b] = after]
           P == {c \in created : c # b /\ free_count[c] > 0}
           F == {c \in created : c # b /\ free_count[c] = 0}
<1>1. /\ b \in Slab /\ link \in Links(Slab, NULL) /\ free > 0
      /\ Whole(b, Slab, link, NULL) /\ Whole(full, Slab, link, NULL)
      /\ ChainSet(b, link, NULL) = {b} \union P
      /\ ChainSet(full, link, NULL) = F
  BY DEF ReadyToAlloc
<1>2. /\ next \in [Slab -> Slab \union {NULL}] /\ full \in Slab \union {NULL}
      /\ created \subseteq Slab /\ free_count \in [Slab -> 0 .. objs_per_slab]
      /\ objs_per_slab \in Nat
  BY DEF SlabInv, SizesInv, SlabTypeOK
<1>3. /\ free_count' = [free_count EXCEPT ![b] = free - 1]
      /\ created' = created \union {b}
  BY DEF AllocIn
<1>4. free_count'[b] = free - 1 /\ \A c \in created \ {b} : free_count'[c] = free_count[c]
  BY <1>1, <1>2, <1>3
<1>5. /\ link[b] = after /\ \A c \in Slab \ {b} : link[c] = next[c]
      /\ after \in Slab \union {NULL}
  BY <1>1, <1>2 DEF Links
<1> HIDE DEF link, P, F
<1>6. b \notin P /\ b \notin F
  BY DEF P, F
<1>7. CASE free = 1
  <2>1. partial' = after /\ full' = b /\ next' = [next EXCEPT ![b] = full]
    BY <1>7 DEF AllocIn
  <2>2. /\ next' \in Links(Slab, NULL) /\ next'[b] = full
        /\ \A c \in Slab \ {b} : next'[c] = link[c]
    BY <1>1, <1>2, <1>5, <2>1 DEF Links
  <2>3. /\ Whole(after, Slab, link, NULL) /\ ChainSet(after, link, NULL) = P
    <3>1. /\ Whole(link[b], Slab, link, NULL)
          /\ Chain(b, link, NULL) = <<b>> \o Chain(link[b], link, NULL)
          /\ Tail(Chain(b, link, NULL)) = Chain(link[b], link, NULL)
          /\ b \notin ChainSet(link[b], link, NULL)
          /\ ChainSet(b, link, NULL) = {b} \union ChainSet(link[b], link, NULL)
      BY <1>1, SlabFacts, FirstOfChain
    <3>2. ChainSet(link[b], link, NULL) = P
      <4> DEFINE Q == ChainSet(link[b], link, NULL)
      <4>1. {b} \union P = {b} \union Q /\ b \notin Q
        BY <1>1, <3>1
      <4> HIDE DEF Q
      <4>2. P = Q
        BY <1>6, <4>1
      <4>3. QED
        BY <4>2 DEF Q
    <3>3. QED
      BY <1>5, <3>1, <3>2
  <2>4. /\ Whole(after, Slab, next', NULL) /\ ChainSet(after, next', NULL) = P
    <3>1. \A c \in ChainSet(after, link, NULL) : next'[c] = link[c]
      BY <1>2, <1>6, <2>2, <2>3 DEF P
    <3>2. QED
      BY <1>1, <2>2, <2>3, <3>1, SlabFacts, ChainKept
  <2>5. /\ Whole(full, Slab, next', NULL) /\ ChainSet(full, next', NULL) = F
    <3>1. \A c \in ChainSet(full, link, NULL) : next'[c] = link[c]
      BY <1>1, <1>2, <1>6, <2>2 DEF F
    <3>2. QED
      BY <1>1, <2>2, <3>1, SlabFacts, ChainKept
  <2>6. /\ Whole(b, Slab, next', NULL) /\ ChainSet(b, next', NULL) = {b} \union F
    <3>1. Whole(next'[b], Slab, next', NULL) /\ b \notin ChainSet(next'[b], next', NULL)
      BY <1>6, <2>2, <2>5
    <3>2. /\ Whole(b, Slab, next', NULL)
          /\ Chain(b, next', NULL) = <<b>> \o Chain(next'[b], next', NULL)
          /\ ChainSet(b, next', NULL) = {b} \union ChainSet(next'[b], next', NULL)
      BY <1>1, <2>2, <3>1, SlabFacts, PushOnChain
    <3>3. QED
      BY <2>2, <2>5, <3>2
  <2>7. free_count'[b] = 0
    BY <1>4, <1>7
  <2>8. /\ {c \in created' : free_count'[c] > 0} = P
        /\ {c \in created' : free_count'[c] = 0} = {b} \union F
    BY <1>3, <1>4, <2>7 DEF P, F
  <2>9. SlabListsInv'
    BY <2>1, <2>4, <2>6, <2>8 DEF SlabListsInv
  <2>10. QED
    BY <1>1, <1>2, <1>5, <2>1, <2>2, <2>9 DEF Links
<1>8. CASE free # 1
  <2>1. partial' = b /\ full' = full /\ next' = link
    BY <1>8 DEF AllocIn, link
  <2>2. free_count'[b] > 0
    BY <1>1, <1>4, <1>8
  <2>3. /\ {c \in created' : free_count'[c] > 0} = {b} \union P
        /\ {c \in created' : free_count'[c] = 0} = F
    BY <1>3, <1>4, <2>2 DEF P, F
  <2>4. SlabListsInv'
    BY <1>1, <2>1, <2>3 DEF SlabListsInv
  <2>5. QED
    BY <1>1, <1>2, <2>1, <2>4 DEF Links
<1>9. QED
  BY <1>7, <1>8

\* An object more is in use.
LEMMA AllocStatistics ==
  ASSUME SlabInv, NEW h \in Handle, objects[h] = NULL, NEW v, v # NULL,
         objects' = [objects EXCEPT ![h] = v],
         total_allocated' = (total_allocated + 1) % WORD, total_freed' = total_freed
  PROVE  StatisticsInv' /\ total_allocated' \in 0 .. WORD - 1
<1> DEFINE n == Cardinality(Holders(objects))
           m == Cardinality(Holders(objects'))
<1>1. /\ total_allocated \in 0 .. WORD - 1 /\ total_freed \in 0 .. WORD - 1
      /\ objects \in [Handle -> (Slab \X Nat) \union {NULL}]
  BY DEF SlabInv, SizesInv, SlabTypeOK
<1>2. total_allocated - total_freed = n \/ total_allocated - total_freed = n - WORD
  BY DEF SlabInv, StatisticsInv
<1>3. m = n + 1 /\ n \in Nat
  <2>1. DOMAIN objects = Handle
    BY <1>1
  <2>2. /\ Cardinality(Holders([objects EXCEPT ![h] = v])) = Cardinality(Holders(objects)) + 1
        /\ Cardinality(Holders(objects)) \in Nat
    BY <2>1, SlabFacts, HoldersTake
  <2>3. QED
    BY <2>2
<1>4. m <= Cardinality(Handle)
  <2>1. Holders(objects') \subseteq Handle
    BY DEF Holders
  <2>2. QED
    BY <2>1, SlabFacts, FS_Subset
<1>5. total_allocated' = IF total_allocated + 1 = WORD THEN 0 ELSE total_allocated + 1
  BY <1>1, NextCount
<1> HIDE DEF n, m
<1>6. total_allocated' - total_freed' = m \/ total_allocated' - total_freed' = m - WORD
  BY <1>1, <1>2, <1>3, <1>4, <1>5, SlabFacts
<1>7. total_allocated' \in 0 .. WORD - 1
  BY <1>1, <1>5, SlabFacts
<1>8. QED
  BY <1>6, <1>7 DEF StatisticsInv, m

LEMMA AllocInInv ==
  ASSUME SlabInv, NEW h \in Handle, objects[h] = NULL, NEW b, NEW inUse, NEW free, NEW after,
         ReadyToAlloc(b, inUse, free, after), AllocIn(h, b, inUse, free, after)
  PROVE  SlabInv' /\ \E k \in Nat : NewObject(h, b, k)
<1>1. PICK k \in (0 .. objs_per_slab - 1) \ inUse :
            /\ NewObject(h, b, k)
            /\ bitmap' = [bitmap EXCEPT ![b] = inUse \union {k}]
            /\ SlotsOf(b)' = inUse \union {k}
            /\ \A c \in Slab \ {b} : SlotsOf(c)' = SlotsOf(c)
            /\ Cardinality(inUse \union {k}) = Cardinality(inUse) + 1
            /\ Cardinality(inUse) \in Nat
            /\ ObjectsInv'
            /\ objects' \in [Handle -> (Slab \X Nat) \union {NULL}]
  BY AllocInEffect
<1>2. /\ obj_size \in Nat \ {0} /\ objs_per_slab \in Nat \ {0}
      /\ obj_size \in {ObjSize(r[1], r[2]) : r \in Requests}
      /\ objs_per_slab <= BITMAP_BITS /\ created \subseteq Slab
      /\ bitmap \in [Slab -> SUBSET (0 .. BITMAP_BITS - 1)]
      /\ free_count \in [Slab -> 0 .. objs_per_slab] /\ total_freed \in 0 .. WORD - 1
  BY DEF SlabInv, SizesInv, SlabTypeOK
<1>3. /\ b \in Slab /\ inUse \subseteq 0 .. objs_per_slab - 1
      /\ free = objs_per_slab - Cardinality(inUse) /\ free > 0
  BY DEF ReadyToAlloc
<1>4. /\ free_count' = [free_count EXCEPT ![b] = free - 1]
      /\ total_allocated' = (total_allocated + 1) % WORD
      /\ created' = created \union {b} /\ total_freed' = total_freed
      /\ obj_size' = obj_size /\ objs_per_slab' = objs_per_slab
  BY DEF AllocIn, cacheVars
<1>5. free \in Nat /\ free - 1 \in 0 .. objs_per_slab
  BY <1>1, <1>2, <1>3
<1>6. SlabListsInv' /\ next' \in [Slab -> Slab \union {NULL}]
      /\ {partial', full'} \subseteq Slab \union {NULL}
  BY <1>5, AllocInLists
<1>7. StatisticsInv' /\ total_allocated' \in 0 .. WORD - 1
  <2> DEFINE v == <<b, k * obj_size>>
  <2>1. k * obj_size \in Nat
    <3>1. k \in Nat
      BY <1>1
    <3>2. QED
      BY <1>2, <3>1, SMT
  <2>2. v # NULL
    BY <1>3, <2>1, SlabFacts
  <2>3. objects' = [objects EXCEPT ![h] = v]
    BY <1>1 DEF NewObject
  <2> HIDE DEF v
  <2>4. QED
    BY <1>4, <2>2, <2>3, AllocStatistics
<1>8. bitmap' \in [Slab -> SUBSET (0 .. BITMAP_BITS - 1)]
  <2>1. inUse \union {k} \in SUBSET (0 .. BITMAP_BITS - 1)
    <3>1. 0 .. objs_per_slab - 1 \subseteq 0 .. BITMAP_BITS - 1
      BY <1>2, SlabFacts
    <3>2. k \in 0 .. objs_per_slab - 1
      BY <1>1
    <3>3. QED
      BY <1>3, <3>1, <3>2
  <2>2. QED
    BY <1>1, <1>2, <2>1
<1>9. free_count' \in [Slab -> 0 .. objs_per_slab']
  BY <1>2, <1>4, <1>5
<1>10. SizesInv'
  <2>1. SlabTypeOK'
    BY <1>1, <1>2, <1>3, <1>4, <1>6, <1>7, <1>8, <1>9 DEF SlabTypeOK
  <2>2. QED
    BY <1>2, <1>4, <2>1 DEF SizesInv
<1>11. ASSUME NEW c \in created'
       PROVE  /\ bitmap'[c] = SlotsOf(c)'
              /\ free_count'[c] = objs_per_slab' - Cardinality(bitmap'[c])
  <2>1. CASE c = b
    <3>1. bitmap'[c] = inUse \union {k} /\ free_count'[c] = free - 1
      BY <1>1, <1>2, <1>3, <1>4, <2>1
    <3>2. QED
      BY <1>1, <1>2, <1>3, <1>4, <2>1, <3>1
  <2>2. CASE c # b
    <3>1. c \in created /\ c \in Slab
      BY <1>2, <1>4, <2>2
    <3>2. bitmap'[c] = bitmap[c] /\ free_count'[c] = free_count[c] /\ SlotsOf(c)' = SlotsOf(c)
      BY <1>1, <1>2, <1>4, <2>2, <3>1
    <3>3. bitmap[c] = SlotsOf(c) /\ free_count[c] = objs_per_slab - Cardinality(bitmap[c])
      BY <3>1 DEF SlabInv, BitmapsInv
    <3>4. QED
      BY <1>4, <3>2, <3>3
  <2>3. QED
    BY <2>1, <2>2
<1>12. BitmapsInv'
  BY <1>11 DEF BitmapsInv
<1>13. k \in Nat
  BY <1>1
<1>14. QED
  BY <1>1, <1>6, <1>7, <1>10, <1>12, <1>13 DEF SlabInv

-----------------------------------------------------------------------------
\* What both branches of slab_cache_free do to the slab and the statistics.
LEMMA ClearSlotEffect ==
  ASSUME SlabInv, NEW h \in Handle, objects[h] # NULL, ClearSlot(h),
         UNCHANGED <<cacheVars, total_allocated, created>>
  PROVE  /\ objects[h][1] \in created
         /\ ObjectsInv' /\ BitmapsInv' /\ StatisticsInv'
         /\ objects' \in [Handle -> (Slab \X Nat) \union {NULL}]
         /\ bitmap' \in [Slab -> SUBSET (0 .. BITMAP_BITS - 1)]
         /\ free_count' \in [Slab -> 0 .. objs_per_slab]
         /\ total_freed' \in 0 .. WORD - 1
         /\ free_count'[objects[h][1]] > 0
         /\ \A c \in Slab \ {objects[h][1]} : free_count'[c] = free_count[c]
<1>0. PICK b, k : b = objects[h][1] /\ k = SlotOf(h)
  OBVIOUS
<1> DEFINE n == Cardinality(Holders(objects))
           m == Cardinality(Holders(objects'))
<1>1. /\ obj_size \in Nat \ {0} /\ objs_per_slab \in Nat \ {0}
      /\ objs_per_slab <= BITMAP_BITS /\ created \subseteq Slab
      /\ bitmap \in [Slab -> SUBSET (0 .. BITMAP_BITS - 1)]
      /\ free_count \in [Slab -> 0 .. objs_per_slab]
      /\ total_allocated \in 0 .. WORD - 1 /\ total_freed \in 0 .. WORD - 1
      /\ objects \in [Handle -> (Slab \X Nat) \union {NULL}]
  BY DEF SlabInv, SizesInv, SlabTypeOK
<1>2. /\ bitmap' = [bitmap EXCEPT ![b] = @ \ {k}]
      /\ free_count' = [free_count EXCEPT ![b] = @ + 1]
      /\ total_freed' = (total_freed + 1) % WORD
      /\ objects' = [objects EXCEPT ![h] = NULL]
      /\ obj_size' = obj_size /\ objs_per_slab' = objs_per_slab
      /\ total_allocated' = total_allocated /\ created' = created
  BY <1>0 DEF ClearSlot, SlotOf, cacheVars
<1>3. /\ \A g \in Handle :
            objects[g] # NULL =>
               /\ objects[g][1] \in created
               /\ SlotOf(g) \in 0 .. objs_per_slab - 1
               /\ objects[g][2] = SlotOf(g) * obj_size
      /\ \A f, g \in Handle : objects[f] # NULL /\ objects[f] = objects[g] => f = g
  BY DEF SlabInv, ObjectsInv
<1>4. \A c \in created : bitmap[c] = SlotsOf(c) /\ free_count[c] = objs_per_slab - Cardinality(bitmap[c])
  BY DEF SlabInv, BitmapsInv
<1>5. b \in created /\ b \in Slab /\ k \in 0 .. objs_per_slab - 1
  BY <1>0, <1>1, <1>3
<1>6. /\ objects' \in [Handle -> (Slab \X Nat) \union {NULL}]
      /\ objects'[h] = NULL /\ \A g \in Handle \ {h} : objects'[g] = objects[g]
  BY <1>1, <1>2
<1>7. \A g \in Handle \ {h} : SlotOf(g)' = SlotOf(g)
  BY <1>2, <1>6 DEF SlotOf
<1>8. ASSUME NEW g \in HoldersIn(b), g # h PROVE SlotOf(g) # k
  <2>1. SUFFICES ASSUME SlotOf(g) = k PROVE FALSE
    OBVIOUS
  <2>2. g \in Handle /\ objects[g] # NULL /\ objects[g][1] = b
    BY DEF HoldersIn
  <2>3. objects[g] \in Slab \X Nat /\ objects[h] \in Slab \X Nat
    BY <1>1, <2>2
  <2>4. objects[g][2] = k * obj_size /\ objects[h][2] = k * obj_size
    BY <1>0, <1>3, <2>1, <2>2
  <2>5. objects[g] = <<objects[g][1], objects[g][2]>> /\ objects[h] = <<objects[h][1], objects[h][2]>>
    BY <2>3
  <2>6. objects[g] = objects[h]
    BY <1>0, <2>2, <2>4, <2>5
  <2>7. QED
    BY <1>3, <1>8, <2>2, <2>6
<1>9. h \in HoldersIn(b) /\ HoldersIn(b)' = HoldersIn(b) \ {h}
  BY <1>0, <1>6 DEF HoldersIn
<1>10. \A c \in Slab \ {b} : HoldersIn(c)' = HoldersIn(c) /\ h \notin HoldersIn(c)
  BY <1>0, <1>6 DEF HoldersIn
<1>11. \A c \in Slab : HoldersIn(c) \subseteq Handle
  BY DEF HoldersIn
<1>12. SlotsOf(b)' = SlotsOf(b) \ {k}
  <2>1. SlotsOf(b)' = {SlotOf(g)' : g \in HoldersIn(b)'}
    BY DEF SlotsOf
  <2>2. {SlotOf(g)' : g \in HoldersIn(b)'} = {SlotOf(g) : g \in HoldersIn(b) \ {h}}
    BY <1>5, <1>7, <1>9, <1>11
  <2>3. {SlotOf(g) : g \in HoldersIn(b) \ {h}} = {SlotOf(g) : g \in HoldersIn(b)} \ {k}
    <3>1. SlotOf(h) = k
      BY <1>0
    <3>2. \A g \in HoldersIn(b) \ {h} : SlotOf(g) # k
      BY <1>8
    <3>3. QED
      BY <3>1, <3>2
  <2>4. QED
    BY <2>1, <2>2, <2>3 DEF SlotsOf
<1>13. \A c \in Slab \ {b} : SlotsOf(c)' = SlotsOf(c)
  BY <1>7, <1>10, <1>11 DEF SlotsOf
<1>14. k \in bitmap[b] /\ IsFiniteSet(bitmap[b]) /\ Cardinality(bitmap[b]) \in Nat
  <2>1. k \in SlotsOf(b)
    BY <1>0, <1>9 DEF SlotsOf
  <2>2. QED
    BY <1>4, <1>5, <2>1, BitmapFacts
<1>15. Cardinality(bitmap[b] \ {k}) = Cardinality(bitmap[b]) - 1
  BY <1>14, FS_RemoveElement
<1>16. /\ bitmap'[b] = bitmap[b] \ {k} /\ free_count'[b] = free_count[b] + 1
       /\ \A c \in Slab \ {b} : bitmap'[c] = bitmap[c] /\ free_count'[c] = free_count[c]
  BY <1>1, <1>2, <1>5
<1>17. free_count[b] + 1 \in 1 .. objs_per_slab
  <2>1. free_count[b] = objs_per_slab - Cardinality(bitmap[b]) /\ free_count[b] \in 0 .. objs_per_slab
    BY <1>1, <1>4, <1>5
  <2>2. Cardinality(bitmap[b]) # 0
    BY <1>14, FS_EmptySet
  <2>3. QED
    BY <1>1, <1>14, <2>1, <2>2
<1>18. /\ bitmap' \in [Slab -> SUBSET (0 .. BITMAP_BITS - 1)]
       /\ free_count' \in [Slab -> 0 .. objs_per_slab]
  <2>1. bitmap[b] \ {k} \in SUBSET (0 .. BITMAP_BITS - 1)
    BY <1>1, <1>5
  <2>2. free_count[b] + 1 \in 0 .. objs_per_slab
    BY <1>17
  <2>3. QED
    BY <1>1, <1>2, <1>5, <2>1, <2>2
<1>19. ASSUME NEW c \in created'
       PROVE  /\ bitmap'[c] = SlotsOf(c)'
              /\ free_count'[c] = objs_per_slab' - Cardinality(bitmap'[c])
  <2>1. CASE c = b
    <3>1. bitmap[b] = SlotsOf(b) /\ free_count[b] = objs_per_slab - Cardinality(bitmap[b])
      BY <1>4, <1>5
    <3>2. QED
      BY <1>1, <1>2, <1>12, <1>14, <1>15, <1>16, <2>1, <3>1
  <2>2. CASE c # b
    <3>1. c \in created /\ c \in Slab
      BY <1>1, <1>2
    <3>2. bitmap[c] = SlotsOf(c) /\ free_count[c] = objs_per_slab - Cardinality(bitmap[c])
      BY <1>4, <3>1
    <3>3. QED
      BY <1>2, <1>13, <1>16, <2>2, <3>1, <3>2
  <2>3. QED
    BY <2>1, <2>2
<1>20. BitmapsInv'
  BY <1>19 DEF BitmapsInv
<1>21. ObjectsInv'
  <2>1. ASSUME NEW g \in Handle, objects'[g] # NULL
        PROVE  /\ objects'[g][1] \in created'
               /\ SlotOf(g)' \in 0 .. objs_per_slab' - 1
               /\ objects'[g][2] = SlotOf(g)' * obj_size'
    <3>1. g # h /\ objects'[g] = objects[g] /\ SlotOf(g)' = SlotOf(g)
      BY <1>6, <1>7, <2>1
    <3>2. QED
      BY <1>2, <1>3, <2>1, <3>1
  <2>2. ASSUME NEW f \in Handle, NEW g \in Handle, objects'[f] # NULL, objects'[f] = objects'[g]
        PROVE  f = g
    BY <1>3, <1>6, <2>2
  <2>3. QED
    BY <2>1, <2>2 DEF ObjectsInv
<1>22. m = n - 1 /\ n \in Nat \ {0} /\ n <= Cardinality(Handle)
  <2>1. DOMAIN objects = Handle
    BY <1>1
  <2>2. /\ Cardinality(Holders([objects EXCEPT ![h] = NULL])) = Cardinality(Holders(objects)) - 1
        /\ Cardinality(Holders(objects)) \in Nat \ {0}
    BY <2>1, SlabFacts, HoldersGive
  <2>3. Holders(objects) \subseteq Handle
    BY DEF Holders
  <2>4. n <= Cardinality(Handle)
    BY <2>3, SlabFacts, FS_Subset
  <2>5. QED
    BY <1>2, <2>2, <2>4
<1>23. total_freed' = IF total_freed + 1 = WORD THEN 0 ELSE total_freed + 1
  BY <1>1, <1>2, NextCount
<1>24. total_allocated - total_freed = n \/ total_allocated - total_freed = n - WORD
  BY DEF SlabInv, StatisticsInv
<1> HIDE DEF n, m
<1>25. total_allocated' - total_freed' = m \/ total_allocated' - total_freed' = m - WORD
  BY <1>1, <1>2, <1>22, <1>23, <1>24, SlabFacts
<1>26. StatisticsInv' /\ total_freed' \in 0 .. WORD - 1
  BY <1>1, <1>23, <1>25, SlabFacts DEF StatisticsInv, m
<1>27. free_count'[b] > 0
  BY <1>16, <1>17
<1>28. QED
  BY <1>0, <1>5, <1>6, <1>16, <1>18, <1>20, <1>21, <1>26, <1>27

\* Found in the partial list: the lists stay.
LEMMA FreePartialInv ==
  ASSUME SlabInv, NEW h \in Handle, FreePartial(h)
  PROVE  SlabInv'
<1> DEFINE b == objects[h][1]
<1>1. /\ objects[h] # NULL /\ ClearSlot(h)
      /\ UNCHANGED <<cacheVars, partial, full, next, total_allocated, created>>
      /\ b \notin Listed(full) /\ b \in Listed(partial)
  BY DEF FreePartial
<1>2. UNCHANGED <<cacheVars, total_allocated, created>>
  BY <1>1
<1>3. /\ b \in created
      /\ ObjectsInv' /\ BitmapsInv' /\ StatisticsInv'
      /\ objects' \in [Handle -> (Slab \X Nat) \union {NULL}]
      /\ bitmap' \in [Slab -> SUBSET (0 .. BITMAP_BITS - 1)]
      /\ free_count' \in [Slab -> 0 .. objs_per_slab]
      /\ total_freed' \in 0 .. WORD - 1
      /\ free_count'[b] > 0
      /\ \A c \in Slab \ {b} : free_count'[c] = free_count[c]
  BY <1>1, <1>2, ClearSlotEffect
<1>4. created \subseteq Slab /\ free_count \in [Slab -> 0 .. objs_per_slab]
  BY DEF SlabInv, SizesInv, SlabTypeOK
<1>5. SizesInv'
  BY <1>1, <1>3 DEF SlabInv, SizesInv, SlabTypeOK, cacheVars
<1>6. /\ Whole(partial, Slab, next, NULL) /\ Whole(full, Slab, next, NULL)
      /\ ChainSet(partial, next, NULL) = {c \in created : free_count[c] > 0}
      /\ ChainSet(full, next, NULL) = {c \in created : free_count[c] = 0}
  BY DEF SlabInv, SlabListsInv
<1>7. free_count[b] > 0
  BY <1>1, <1>6, ListedIsChainSet
<1> HIDE DEF b
<1>8. /\ {c \in created : free_count'[c] > 0} = {c \in created : free_count[c] > 0}
      /\ {c \in created : free_count'[c] = 0} = {c \in created : free_count[c] = 0}
  <2>1. ASSUME NEW c \in created
        PROVE  /\ free_count'[c] > 0 <=> free_count[c] > 0
               /\ free_count'[c] = 0 <=> free_count[c] = 0
    <3>1. CASE c = b
      BY <1>3, <1>4, <1>7, <3>1
    <3>2. CASE c # b
      BY <1>3, <1>4, <3>2
    <3>3. QED
      BY <3>1, <3>2
  <2>2. QED
    BY <2>1
<1>9. SlabListsInv'
  BY <1>1, <1>6, <1>8 DEF SlabListsInv
<1>10. QED
  BY <1>3, <1>5, <1>9 DEF SlabInv

\* Found in the full list, wherever it stands there: the slab is unlinked and put
\* at the front of the partial list.
LEMMA FreeFullInv ==
  ASSUME SlabInv, NEW h \in Handle, FreeFull(h)
  PROVE  SlabInv'
<1> DEFINE b == objects[h][1]
           P == {c \in created : free_count[c] > 0}
           F == {c \in created : free_count[c] = 0}
<1>1. /\ objects[h] # NULL /\ ClearSlot(h) /\ b \in Listed(full)
      /\ full' = IF full = b THEN next[b] ELSE full
      /\ next' = [c \in Slab |->
            IF c = b THEN partial
            ELSE IF c \in Listed(full) /\ next[c] = b THEN next[b] ELSE next[c]]
      /\ partial' = b
      /\ UNCHANGED <<cacheVars, total_allocated, created>>
  BY DEF FreeFull
<1>2. /\ b \in created
      /\ ObjectsInv' /\ BitmapsInv' /\ StatisticsInv'
      /\ objects' \in [Handle -> (Slab \X Nat) \union {NULL}]
      /\ bitmap' \in [Slab -> SUBSET (0 .. BITMAP_BITS - 1)]
      /\ free_count' \in [Slab -> 0 .. objs_per_slab]
      /\ total_freed' \in 0 .. WORD - 1
      /\ free_count'[b] > 0
      /\ \A c \in Slab \ {b} : free_count'[c] = free_count[c]
  BY <1>1, ClearSlotEffect
<1>3. /\ created \subseteq Slab /\ free_count \in [Slab -> 0 .. objs_per_slab]
      /\ objs_per_slab \in Nat
      /\ next \in [Slab -> Slab \union {NULL}] /\ next \in Links(Slab, NULL)
      /\ partial \in Slab \union {NULL} /\ full \in Slab \union {NULL}
  BY DEF SlabInv, SizesInv, SlabTypeOK, Links
<1>4. /\ Whole(partial, Slab, next, NULL) /\ Whole(full, Slab, next, NULL)
      /\ ChainSet(partial, next, NULL) = P
      /\ ChainSet(full, next, NULL) = F
  BY DEF SlabInv, SlabListsInv
<1>5. Listed(full) = F /\ b \in F /\ b \in Slab
  BY <1>1, <1>2, <1>3, <1>4, ListedIsChainSet
<1>6. P \subseteq Slab /\ F \subseteq Slab /\ \A c \in P : c \notin F
  BY <1>3
<1> HIDE DEF b, P, F
<1>7. /\ next' \in Links(Slab, NULL) /\ next'[b] = partial
      /\ \A c \in F \ {b} : next'[c] = IF next[c] = b THEN next[b] ELSE next[c]
      /\ \A c \in P : next'[c] = next[c]
  <2>1. \A c \in Slab : next'[c] =
            IF c = b THEN partial
            ELSE IF c \in F /\ next[c] = b THEN next[b] ELSE next[c]
    BY <1>1, <1>5
  <2>2. next' \in [Slab -> Slab \union {NULL}]
    BY <1>1, <1>3, <1>5
  <2>3. QED
    BY <1>5, <1>6, <2>1, <2>2 DEF Links
<1>8. Whole(full', Slab, next', NULL) /\ ChainSet(full', next', NULL) = F \ {b}
  <2>1. b \in ChainSet(full, next, NULL)
    BY <1>4, <1>5
  <2>2. \A c \in ChainSet(full, next, NULL) \ {b} :
           next'[c] = IF next[c] = b THEN next[b] ELSE next[c]
    BY <1>4, <1>7
  <2>3. LET rest == IF full = b THEN next[b] ELSE full
        IN  /\ Whole(rest, Slab, next', NULL)
            /\ ChainSet(rest, next', NULL) = ChainSet(full, next, NULL) \ {b}
    BY <1>3, <1>4, <1>7, <2>1, <2>2, SlabFacts, UnlinkFromChain
  <2>4. QED
    BY <1>1, <1>4, <2>3
<1>9. Whole(partial, Slab, next', NULL) /\ ChainSet(partial, next', NULL) = P
  <2>1. \A c \in ChainSet(partial, next, NULL) : next'[c] = next[c]
    BY <1>4, <1>7
  <2>2. QED
    BY <1>3, <1>4, <1>7, <2>1, SlabFacts, ChainKept
<1>10. Whole(b, Slab, next', NULL) /\ ChainSet(b, next', NULL) = {b} \union P
  <2>1. Whole(next'[b], Slab, next', NULL) /\ b \notin ChainSet(next'[b], next', NULL)
    BY <1>5, <1>6, <1>7, <1>9
  <2>2. /\ Whole(b, Slab, next', NULL)
        /\ Chain(b, next', NULL) = <<b>> \o Chain(next'[b], next', NULL)
        /\ ChainSet(b, next', NULL) = {b} \union ChainSet(next'[b], next', NULL)
    BY <1>5, <1>7, <2>1, SlabFacts, PushOnChain
  <2>3. QED
    BY <1>7, <1>9, <2>2
<1>11. /\ {c \in created' : free_count'[c] > 0} = {b} \union P
       /\ {c \in created' : free_count'[c] = 0} = F \ {b}
  <2>1. created' = created /\ b \in created
    BY <1>1, <1>2
  <2>2. ASSUME NEW c \in created
        PROVE  /\ free_count'[c] > 0 <=> c \in {b} \union P
               /\ free_count'[c] = 0 <=> c \in F \ {b}
    <3>1. CASE c = b
      BY <1>2, <3>1
    <3>2. CASE c # b
      BY <1>2, <1>3, <3>2 DEF P, F
    <3>3. QED
      BY <3>1, <3>2
  <2>3. P \subseteq created /\ F \subseteq created
    BY DEF P, F
  <2>4. QED
    BY <2>1, <2>2, <2>3
<1>12. SlabListsInv'
  BY <1>1, <1>8, <1>10, <1>11 DEF SlabListsInv
<1>13. full' \in Slab \union {NULL} /\ next' \in [Slab -> Slab \union {NULL}]
  BY <1>1, <1>3, <1>5, <1>7 DEF Links
<1>14. SizesInv'
  BY <1>1, <1>2, <1>5, <1>13 DEF SlabInv, SizesInv, SlabTypeOK, cacheVars
<1>15. QED
  BY <1>2, <1>12, <1>14 DEF SlabInv

-----------------------------------------------------------------------------
(* The steps                                                               *)

allVars == <<vars, poolVars, staticVars, arenaVars, unit>>

\* The invariant of each allocator is about its own variables.
LEMMA SlabKept ==
  ASSUME SlabInv, UNCHANGED vars
  PROVE  SlabInv'
<1>1. /\ obj_size' = obj_size /\ objs_per_slab' = objs_per_slab /\ partial' = partial
      /\ full' = full /\ next' = next /\ bitmap' = bitmap /\ free_count' = free_count
      /\ total_allocated' = total_allocated /\ total_freed' = total_freed
      /\ created' = created /\ objects' = objects
  BY DEF vars, cacheVars
<1>2. SizesInv' /\ SlabListsInv' /\ StatisticsInv'
  BY <1>1 DEF SlabInv, SizesInv, SlabTypeOK, SlabListsInv, StatisticsInv
<1>3. ObjectsInv'
  BY <1>1 DEF SlabInv, ObjectsInv, SlotOf
<1>4. BitmapsInv'
  BY <1>1 DEF SlabInv, BitmapsInv, SlotsOf, SlotOf, HoldersIn
<1>5. QED
  BY <1>2, <1>3, <1>4 DEF SlabInv

LEMMA PoolKept ==
  ASSUME PoolInv, UNCHANGED poolVars
  PROVE  PoolInv'
<1>1. free_list' = free_list /\ word' = word /\ allocated' = allocated /\ held' = held
  BY DEF poolVars
<1>2. PoolLinks' = PoolLinks /\ Mem!PoolTypeOK'
  BY <1>1 DEF PoolLinks, PoolInv, Mem!PoolTypeOK
<1>3. QED
  BY <1>1, <1>2 DEF PoolInv

LEMMA StaticKept ==
  ASSUME StaticInv, UNCHANGED staticVars
  PROVE  StaticInv'
<1>1. /\ g_free_list' = g_free_list /\ g_initialized' = g_initialized
      /\ g_word' = g_word /\ g_held' = g_held
  BY DEF staticVars
<1>2. Mem!StaticTypeOK'
  BY <1>1 DEF StaticInv, Mem!StaticTypeOK
<1>3. QED
  BY <1>1, <1>2 DEF StaticInv

LEMMA ArenaKept ==
  ASSUME ArenaInv, UNCHANGED arenaVars
  PROVE  ArenaInv'
BY DEF ArenaInv, arenaVars, Mem!ArenaTypeOK

LEMMA SlabStep ==
  ASSUME SlabInv, Next
  PROVE  SlabInv'
<1>1. CASE AllocFails
  BY <1>1, SlabKept DEF AllocFails
<1>2. ASSUME NEW h \in Handle, AllocPartial(h) PROVE SlabInv'
  <2>1. /\ objects[h] = NULL /\ partial # NULL
        /\ AllocIn(h, partial, bitmap[partial], free_count[partial], next[partial])
    BY <1>2 DEF AllocPartial
  <2>2. free_count[partial] \in Nat
    BY <2>1, PartialIsReady DEF SlabInv, SizesInv, SlabTypeOK
  <2>3. ReadyToAlloc(partial, bitmap[partial], free_count[partial], next[partial])
    BY <2>1, PartialIsReady
  <2>4. QED
    BY <2>1, <2>3, AllocInInv
<1>3. ASSUME NEW h \in Handle, AllocCreate(h) PROVE SlabInv'
  <2>1. objects[h] = NULL /\ partial = NULL
    BY <1>3 DEF AllocCreate
  <2>2. PICK b \in Slab \ created : AllocIn(h, b, {}, objs_per_slab, NULL)
    BY <1>3 DEF AllocCreate
  <2>3. ReadyToAlloc(b, {}, objs_per_slab, NULL)
    BY <2>1, NewSlabIsReady
  <2>4. QED
    BY <2>1, <2>2, <2>3, AllocInInv
<1>4. ASSUME NEW h \in Handle, FreeFull(h) \/ FreePartial(h) PROVE SlabInv'
  BY <1>4, FreeFullInv, FreePartialInv
<1>5. QED
  BY <1>1, <1>2, <1>3, <1>4 DEF Next

LEMMA PoolStep ==
  ASSUME PoolInv, Mem!PoolNext
  PROVE  PoolInv'
<1>1. CASE Mem!PoolAllocFails
  BY <1>1, PoolKept DEF Mem!PoolAllocFails, Mem!poolVars, poolVars
<1>2. ASSUME NEW h \in Handle, Mem!PoolAlloc(h) \/ Mem!PoolFree(h) \/ Mem!PoolUse(h)
      PROVE  PoolInv'
  BY <1>2, PoolAllocInv, PoolFreeInv, PoolUseInv
<1>3. QED
  BY <1>1, <1>2 DEF Mem!PoolNext

LEMMA StaticStep ==
  ASSUME StaticInv, Mem!StaticNext
  PROVE  StaticInv'
<1>1. CASE Mem!StaticAllocFails
  BY <1>1, StaticKept DEF Mem!StaticAllocFails, Mem!staticVars, staticVars
<1>2. ASSUME NEW h \in Handle, Mem!StaticAlloc(h) \/ Mem!StaticFree(h) \/ Mem!StaticUse(h)
      PROVE  StaticInv'
  BY <1>2, StaticAllocInv, StaticFreeInv, StaticUseInv
<1>3. QED
  BY <1>1, <1>2 DEF Mem!StaticNext

LEMMA ArenaStep ==
  ASSUME ArenaInv, Mem!ArenaNext
  PROVE  ArenaInv'
<1>1. ASSUME NEW r \in ArenaRequests, Mem!ArenaAllocFails(r[1], r[2]) PROVE ArenaInv'
  BY <1>1, ArenaKept DEF Mem!ArenaAllocFails, Mem!arenaVars, arenaVars
<1>2. ASSUME NEW r \in ArenaRequests, NEW h \in Handle, Mem!ArenaAlloc(h, r[1], r[2])
      PROVE  ArenaInv'
  BY <1>2, ArenaAllocInv
<1>3. CASE Mem!ArenaReset
  BY <1>3, ArenaResetInv
<1>4. QED
  BY <1>1, <1>2, <1>3 DEF Mem!ArenaNext

LEMMA InitIsExact ==
  ASSUME MCInit
  PROVE  IInv
BY SlabInitInv, PoolInitInv, StaticInitInv, ArenaInitInv DEF MCInit, IInv

LEMMA StepKeepsIInv ==
  ASSUME IInv, [MCNext]_allVars
  PROVE  IInv'
<1>1. unit \in Units /\ SlabInv /\ PoolInv /\ StaticInv /\ ArenaInv
  BY DEF IInv
<1>2. CASE UNCHANGED allVars
  BY <1>1, <1>2, SlabKept, PoolKept, StaticKept, ArenaKept DEF allVars, IInv
<1>3. CASE MCNext
  <2>1. unit' \in Units
    BY <1>1, <1>3 DEF MCNext
  <2>2. CASE Next /\ UNCHANGED <<poolVars, staticVars, arenaVars>>
    BY <1>1, <2>1, <2>2, SlabStep, PoolKept, StaticKept, ArenaKept DEF IInv
  <2>3. CASE Mem!PoolNext /\ UNCHANGED <<vars, staticVars, arenaVars>>
    BY <1>1, <2>1, <2>3, SlabKept, PoolStep, StaticKept, ArenaKept DEF IInv
  <2>4. CASE Mem!StaticNext /\ UNCHANGED <<vars, poolVars, arenaVars>>
    BY <1>1, <2>1, <2>4, SlabKept, PoolKept, StaticStep, ArenaKept DEF IInv
  <2>5. CASE Mem!ArenaNext /\ UNCHANGED <<vars, poolVars, staticVars>>
    BY <1>1, <2>1, <2>5, SlabKept, PoolKept, StaticKept, ArenaStep DEF IInv
  <2>6. QED
    BY <1>3, <2>2, <2>3, <2>4, <2>5 DEF MCNext
<1>4. QED
  BY <1>2, <1>3

\* Whatever the allocators are asked for in what order, the lists of free memory
\* are the free memory, and no two pointers of a client hold the same of it.
THEOREM Invariance == MCSpec => []IInv
<1>1. MCInit => IInv
  BY InitIsExact
<1>2. IInv /\ [MCNext]_allVars => IInv'
  BY StepKeepsIInv
<1>3. QED
  BY <1>1, <1>2, PTL DEF MCSpec, allVars

-----------------------------------------------------------------------------
(* What follows from it                                                    *)

\* slab_cache_alloc's assertion: the head of the partial list has a free slot.
LEMMA SlotFoundIfInv ==
  ASSUME SlabInv
  PROVE  SlotFound
<1>1. SUFFICES ASSUME partial # NULL
               PROVE  FindFreeSlot(bitmap[partial], objs_per_slab) >= 0
  BY DEF SlotFound
<1>2. /\ partial \in created
      /\ ReadyToAlloc(partial, bitmap[partial], free_count[partial], next[partial])
  BY <1>1, PartialIsReady
<1>3. /\ bitmap[partial] \subseteq 0 .. objs_per_slab - 1
      /\ Cardinality(bitmap[partial]) \in Nat
  BY <1>2, BitmapFacts
<1>4. objs_per_slab \in Nat
  BY DEF SlabInv, SizesInv, SlabTypeOK
<1>5. Cardinality(bitmap[partial]) < objs_per_slab
  BY <1>2, <1>3, <1>4 DEF ReadyToAlloc
<1>6. FindFreeSlot(bitmap[partial], objs_per_slab) \in 0 .. objs_per_slab - 1
  BY <1>3, <1>4, <1>5, FreeSlotFound
<1>7. QED
  BY <1>4, <1>6

\* What slab_cache_stats prints: the difference of the counters does not go wrong
\* when the counters wrap.
LEMMA StatisticsIfInv ==
  ASSUME SlabInv
  PROVE  (total_allocated - total_freed) % WORD = Cardinality(Holders(objects))
<1> DEFINE n == Cardinality(Holders(objects))
           d == total_allocated - total_freed
<1>1. d = n \/ d = n - WORD
  BY DEF SlabInv, StatisticsInv
<1>2. n \in Nat /\ n < WORD
  <2>1. Holders(objects) \subseteq Handle
    BY DEF Holders
  <2>2. n \in Nat /\ n <= Cardinality(Handle)
    BY <2>1, SlabFacts, FS_Subset, FS_CardinalityType
  <2>3. QED
    BY <2>2, SlabFacts
<1>3. WORD \in Nat \ {0}
  BY SlabFacts
<1> HIDE DEF n, d
<1>4. CASE d = n
  <2>1. n % WORD = n
    BY <1>2, <1>3, SmallRemainder
  <2>2. QED
    BY <1>4, <2>1 DEF n, d
<1>5. CASE d = n - WORD
  <2>1. d \in Int
    BY <1>2, <1>3, <1>5
  <2>2. d % WORD = n
    BY <1>2, <1>3, <1>5, <2>1
  <2>3. QED
    BY <2>2 DEF n, d
<1>6. QED
  BY <1>1, <1>4, <1>5

LEMMA ListsExactIfInv ==
  ASSUME SlabInv
  PROVE  ListsAreExact
<1> DEFINE InUse == {h \in Handle : objects[h] # NULL}
           Slots(b) == {objects[h][2] \div obj_size : h \in {g \in InUse : objects[g][1] = b}}
<1>1. InUse = Holders(objects)
  BY DEF Holders
<1>2. \A b \in created : Slots(b) = SlotsOf(b)
  <2>1. \A b : {g \in InUse : objects[g][1] = b} = HoldersIn(b)
    BY DEF HoldersIn
  <2>2. QED
    BY <2>1 DEF SlotsOf, SlotOf
<1>3. /\ Whole(partial, Slab, next, NULL) /\ Whole(full, Slab, next, NULL)
      /\ ChainSet(partial, next, NULL) = {b \in created : free_count[b] > 0}
      /\ ChainSet(full, next, NULL) = {b \in created : free_count[b] = 0}
  BY DEF SlabInv, SlabListsInv
<1>4. next \in Links(Slab, NULL)
  BY DEF SlabInv, SizesInv, SlabTypeOK, Links
<1>5. /\ Len(Chain(partial, next, NULL)) = Cardinality(Listed(partial))
      /\ Len(Chain(full, next, NULL)) = Cardinality(Listed(full))
  <2>1. Len(Chain(partial, next, NULL)) = Cardinality(ChainSet(partial, next, NULL))
    BY <1>3, <1>4, SlabFacts, LengthOfChain
  <2>2. Len(Chain(full, next, NULL)) = Cardinality(ChainSet(full, next, NULL))
    BY <1>3, <1>4, SlabFacts, LengthOfChain
  <2>3. QED
    BY <2>1, <2>2, ListedIsChainSet
<1>6. /\ Listed(partial) = {b \in created : free_count[b] > 0}
      /\ Listed(full) = {b \in created : free_count[b] = 0}
  BY <1>3, ListedIsChainSet
<1>7. \A b \in created :
         /\ bitmap[b] = Slots(b)
         /\ free_count[b] = objs_per_slab - Cardinality(Slots(b))
  BY <1>2 DEF SlabInv, BitmapsInv
<1>8. (total_allocated - total_freed) % WORD = Cardinality(InUse)
  BY <1>1, StatisticsIfInv
<1>9. QED
  BY <1>5, <1>6, <1>7, <1>8, Zenon DEF ListsAreExact

\* Every variable has its type, whatever is allocated and freed.
THEOREM TypesAreRight == MCSpec => []TypeOK
<1>1. IInv => TypeOK
  BY DEF IInv, SlabInv, SizesInv, PoolInv, StaticInv, ArenaInv, TypeOK
<1>2. QED
  BY <1>1, Invariance, PTL

\* The slab lists, bitmaps and statistics and the free lists of both pools are
\* exact, and slab_cache_alloc finds the slot it asserts.
THEOREM AllListsExact == MCSpec => []AllListsAreExact
<1>1. IInv => AllListsAreExact
  <2>1. IInv => SlotFound /\ ListsAreExact
    BY SlotFoundIfInv, ListsExactIfInv DEF IInv
  <2>2. IInv => Mem!PoolListExact /\ Mem!StaticListExact
    BY PoolExactIfInv, StaticExactIfInv DEF IInv
  <2>3. QED
    BY <2>1, <2>2 DEF AllListsAreExact
<1>2. QED
  BY <1>1, Invariance, PTL

\* The blocks of the arena are aligned and inside.
THEOREM BlocksAligned == MCSpec => []BlocksAreAligned
<1>1. IInv => BlocksAreAligned
  BY AlignedIfInv DEF IInv, BlocksAreAligned
<1>2. QED
  BY <1>1, Invariance, PTL

-----------------------------------------------------------------------------
(* Every allocator keeps the promise                                       *)

\* The block of a pointer, allocator by allocator.
LEMMA HeldBlockIs ==
  ASSUME NEW h \in Handle
  PROVE  /\ unit = "slab" =>
              HeldBlock(h) = IF objects[h] = NULL THEN {}
                             ELSE Cells(objects[h][1], objects[h][2], obj_size)
         /\ unit = "pool" =>
              HeldBlock(h) = IF held[h] = NULL THEN {} ELSE Cells(unit, held[h], 1)
         /\ unit = "static" =>
              HeldBlock(h) = IF g_held[h] = NULL THEN {} ELSE Cells(unit, g_held[h], 1)
         /\ unit = "arena" =>
              HeldBlock(h) = IF blocks[h] = NULL THEN {}
                             ELSE Cells(unit, blocks[h][1], blocks[h][2])
BY DEF HeldBlock

LEMMA CellsApart ==
  ASSUME NEW p, NEW q, NEW a \in Int, NEW x \in Int, NEW c \in Int, NEW y \in Int,
         p # q \/ a + x <= c \/ c + y <= a
  PROVE  Cells(p, a, x) \intersect Cells(q, c, y) = {}
<1>1. SUFFICES ASSUME NEW e \in Cells(p, a, x), e \in Cells(q, c, y) PROVE FALSE
  OBVIOUS
<1>2. /\ e[1] = p /\ e[2] \in a .. a + x - 1
      /\ e[1] = q /\ e[2] \in c .. c + y - 1
  BY <1>1 DEF Cells
<1>3. QED
  BY <1>2

\* Two slots of a slab share no byte.
LEMMA SlotsApart ==
  ASSUME NEW k \in Nat, NEW l \in Nat, NEW z \in Nat, k # l
  PROVE  k * z + z <= l * z \/ l * z + z <= k * z
<1>1. ASSUME NEW i \in Nat, NEW j \in Nat, i < j PROVE i * z + z <= j * z
  <2>1. PICK d \in Nat : j = i + 1 + d
    <3>1. j - i - 1 \in Nat /\ j = i + 1 + (j - i - 1)
      BY <1>1
    <3>2. QED
      BY <3>1
  <2>2. j * z = i * z + z + d * z
    BY <2>1, SMT
  <2>3. d * z \in Nat /\ i * z \in Nat
    BY SMT
  <2>4. QED
    BY <2>2, <2>3
<1>2. k < l \/ l < k
  OBVIOUS
<1>3. QED
  BY <1>1, <1>2

PromiseKept == [Promise!Next]_([h \in Handle |-> HeldBlock(h)])

LEMMA TakesBlock ==
  ASSUME NEW h \in Handle, NEW block \in Blocks, HeldBlock(h) = {},
         \A g \in Handle : HeldBlock(g) \intersect block = {},
         HeldBlock(h)' = block, \A g \in Handle \ {h} : HeldBlock(g)' = HeldBlock(g)
  PROVE  PromiseKept
<1>1. Promise!Alloc(h, block)
  BY DEF Promise!Alloc
<1>2. QED
  BY <1>1 DEF Promise!Next, PromiseKept

LEMMA GivesBlock ==
  ASSUME NEW h \in Handle, HeldBlock(h)' = {},
         \A g \in Handle \ {h} : HeldBlock(g)' = HeldBlock(g)
  PROVE  PromiseKept
<1>1. Promise!Free(h)
  BY DEF Promise!Free
<1>2. QED
  BY <1>1 DEF Promise!Next, PromiseKept

LEMMA KeepsBlocks ==
  ASSUME \A g \in Handle : HeldBlock(g)' = HeldBlock(g)
  PROVE  PromiseKept
BY DEF PromiseKept

LEMMA SlabTakes ==
  ASSUME SlabInv, unit = "slab", unit' = unit, NEW h \in Handle, objects[h] = NULL,
         obj_size' = obj_size, NEW b, NEW k \in Nat, NewObject(h, b, k)
  PROVE  PromiseKept
<1> DEFINE z == obj_size
           block == Cells(b, k * z, z)
<1>1. /\ z \in Nat \ {0} /\ objs_per_slab \in Nat /\ objs_per_slab <= BITMAP_BITS
      /\ z \in {ObjSize(r[1], r[2]) : r \in Requests}
      /\ objects \in [Handle -> (Slab \X Nat) \union {NULL}]
  BY DEF SlabInv, SizesInv, SlabTypeOK
<1>2. /\ b \in Slab /\ k \in 0 .. objs_per_slab - 1
      /\ \A g \in HoldersIn(b) : SlotOf(g) # k
      /\ objects' = [objects EXCEPT ![h] = <<b, k * z>>]
  BY DEF NewObject
<1>3. k * z \in Nat
  BY <1>1, SMT
<1>4. block \in Blocks
  <2>1. k \in 0 .. BITMAP_BITS - 1
    BY <1>1, <1>2, SlabFacts
  <2>2. QED
    BY <1>1, <1>2, <2>1 DEF Blocks
<1>5. ASSUME NEW g \in Handle PROVE HeldBlock(g) \intersect block = {}
  <2>1. CASE objects[g] = NULL
    BY <2>1, HeldBlockIs
  <2>2. CASE objects[g] # NULL
    <3> DEFINE c == objects[g][1]
               l == SlotOf(g)
    <3>1. /\ c \in Slab /\ objects[g][2] = l * z
          /\ l \in 0 .. objs_per_slab - 1 /\ l \in Nat
      BY <1>1, <2>2 DEF SlabInv, ObjectsInv
    <3>2. HeldBlock(g) = Cells(c, l * z, z)
      BY <2>2, <3>1, HeldBlockIs
    <3>3. c = b => l # k
      BY <1>2, <2>2 DEF HoldersIn
    <3> HIDE DEF c, l
    <3>4. c # b \/ l * z + z <= k * z \/ k * z + z <= l * z
      BY <1>1, <3>1, <3>3, SlotsApart
    <3>5. l * z \in Nat
      BY <1>1, <3>1, SMT
    <3> HIDE DEF z
    <3>6. QED
      BY <1>1, <1>3, <3>2, <3>4, <3>5, CellsApart
  <2>3. QED
    BY <2>1, <2>2
<1>6. /\ objects'[h] = <<b, k * z>> /\ objects'[h] # NULL
      /\ objects'[h][1] = b /\ objects'[h][2] = k * z
      /\ \A g \in Handle \ {h} : objects'[g] = objects[g]
  BY <1>1, <1>2, <1>3, SlabFacts
<1>7. HeldBlock(h) = {}
  BY HeldBlockIs
<1>8. HeldBlock(h)' = block
  BY <1>6 DEF HeldBlock
<1>9. \A g \in Handle \ {h} : HeldBlock(g)' = HeldBlock(g)
  BY <1>6 DEF HeldBlock
<1> HIDE DEF block
<1>10. QED
  BY <1>4, <1>5, <1>7, <1>8, <1>9, TakesBlock

LEMMA SlabKeepsPromise ==
  ASSUME SlabInv, unit = "slab", unit' = unit, Next
  PROVE  PromiseKept
<1>1. CASE AllocFails
  <2>1. objects' = objects /\ obj_size' = obj_size
    BY <1>1 DEF AllocFails, vars, cacheVars
  <2>2. \A g \in Handle : HeldBlock(g)' = HeldBlock(g)
    BY <2>1 DEF HeldBlock
  <2>3. QED
    BY <2>2, KeepsBlocks
<1>2. ASSUME NEW h \in Handle, AllocPartial(h) PROVE PromiseKept
  <2>1. /\ objects[h] = NULL /\ partial # NULL
        /\ AllocIn(h, partial, bitmap[partial], free_count[partial], next[partial])
    BY <1>2 DEF AllocPartial
  <2>2. ReadyToAlloc(partial, bitmap[partial], free_count[partial], next[partial])
    BY <2>1, PartialIsReady
  <2>3. obj_size' = obj_size
    BY <2>1 DEF AllocIn, cacheVars
  <2>4. \E k \in Nat : NewObject(h, partial, k)
    BY <2>1, <2>2, AllocInInv
  <2>5. QED
    BY <2>1, <2>3, <2>4, SlabTakes
<1>3. ASSUME NEW h \in Handle, AllocCreate(h) PROVE PromiseKept
  <2>1. objects[h] = NULL /\ partial = NULL
    BY <1>3 DEF AllocCreate
  <2>2. PICK b \in Slab \ created : AllocIn(h, b, {}, objs_per_slab, NULL)
    BY <1>3 DEF AllocCreate
  <2>3. ReadyToAlloc(b, {}, objs_per_slab, NULL)
    BY <2>1, NewSlabIsReady
  <2>4. obj_size' = obj_size
    BY <2>2 DEF AllocIn, cacheVars
  <2>5. \E k \in Nat : NewObject(h, b, k)
    BY <2>1, <2>2, <2>3, AllocInInv
  <2>6. QED
    BY <2>1, <2>4, <2>5, SlabTakes
<1>4. ASSUME NEW h \in Handle, FreeFull(h) \/ FreePartial(h) PROVE PromiseKept
  <2>1. objects' = [objects EXCEPT ![h] = NULL] /\ obj_size' = obj_size
    BY <1>4 DEF FreeFull, FreePartial, ClearSlot, cacheVars
  <2>2. objects'[h] = NULL /\ \A g \in Handle \ {h} : objects'[g] = objects[g]
    BY <2>1 DEF SlabInv, SizesInv, SlabTypeOK
  <2>3. HeldBlock(h)' = {}
    BY <2>2 DEF HeldBlock
  <2>4. \A g \in Handle \ {h} : HeldBlock(g)' = HeldBlock(g)
    BY <2>1, <2>2 DEF HeldBlock
  <2>5. QED
    BY <2>3, <2>4, GivesBlock
<1>5. QED
  BY <1>1, <1>2, <1>3, <1>4 DEF Next

\* The slots of both pools are cells of the same kind.
LEMMA PoolKeepsPromise ==
  ASSUME PoolInv, unit = "pool", unit' = unit, Mem!PoolNext
  PROVE  PromiseKept
<1>1. held \in [Handle -> Mem!Slot \union {NULL}]
  BY DEF PoolInv, FreeListInv
<1>2. ASSUME held' = held PROVE PromiseKept
  <2>1. \A g \in Handle : HeldBlock(g)' = HeldBlock(g)
    BY <1>2 DEF HeldBlock
  <2>2. QED
    BY <2>1, KeepsBlocks
<1>3. ASSUME NEW h \in Handle, Mem!PoolAlloc(h) PROVE PromiseKept
  <2>1. /\ free_list \in Mem!Slot /\ \A g \in Handle : held[g] # free_list
        /\ held' = [held EXCEPT ![h] = free_list] /\ held[h] = NULL
    BY <1>3, PoolAllocInv DEF Mem!PoolAlloc
  <2> DEFINE block == Cells("pool", free_list, 1)
  <2>2. block \in Blocks
    BY <2>1, SlotFacts DEF Blocks
  <2>3. ASSUME NEW g \in Handle PROVE HeldBlock(g) \intersect block = {}
    <3>1. CASE held[g] = NULL
      BY <3>1, HeldBlockIs
    <3>2. CASE held[g] # NULL
      <4>1. /\ HeldBlock(g) = Cells("pool", held[g], 1)
            /\ held[g] \in Mem!Slot /\ held[g] # free_list
        BY <1>1, <2>1, <3>2, HeldBlockIs
      <4>2. held[g] \in Int /\ free_list \in Int
        BY <2>1, <4>1, SlotFacts
      <4>3. held[g] + 1 <= free_list \/ free_list + 1 <= held[g]
        BY <4>1, <4>2
      <4>4. QED
        BY <4>1, <4>2, <4>3, CellsApart
    <3>3. QED
      BY <3>1, <3>2
  <2>4. /\ held'[h] = free_list /\ held'[h] # NULL
        /\ \A g \in Handle \ {h} : held'[g] = held[g]
    BY <1>1, <2>1, SlotFacts
  <2>5. HeldBlock(h) = {}
    BY <2>1, HeldBlockIs
  <2>6. HeldBlock(h)' = block /\ \A g \in Handle \ {h} : HeldBlock(g)' = HeldBlock(g)
    BY <2>4 DEF HeldBlock
  <2> HIDE DEF block
  <2>7. QED
    BY <2>2, <2>3, <2>5, <2>6, TakesBlock
<1>4. ASSUME NEW h \in Handle, Mem!PoolFree(h) PROVE PromiseKept
  <2>1. held'[h] = NULL /\ \A g \in Handle \ {h} : held'[g] = held[g]
    BY <1>1, <1>4 DEF Mem!PoolFree
  <2>2. HeldBlock(h)' = {} /\ \A g \in Handle \ {h} : HeldBlock(g)' = HeldBlock(g)
    BY <2>1 DEF HeldBlock
  <2>3. QED
    BY <2>2, GivesBlock
<1>5. QED
  BY <1>2, <1>3, <1>4 DEF Mem!PoolNext, Mem!PoolAllocFails, Mem!PoolUse, Mem!poolVars

LEMMA StaticKeepsPromise ==
  ASSUME StaticInv, unit = "static", unit' = unit, Mem!StaticNext
  PROVE  PromiseKept
<1>1. g_held \in [Handle -> Mem!StaticSlot \union {NULL}]
  BY DEF StaticInv, Mem!StaticTypeOK
<1>2. ASSUME g_held' = g_held PROVE PromiseKept
  <2>1. \A g \in Handle : HeldBlock(g)' = HeldBlock(g)
    BY <1>2 DEF HeldBlock
  <2>2. QED
    BY <2>1, KeepsBlocks
<1>3. ASSUME NEW h \in Handle, Mem!StaticAlloc(h) PROVE PromiseKept
  <2>1. PICK obj \in Mem!StaticSlot :
            /\ g_held' = [g_held EXCEPT ![h] = obj]
            /\ \A g \in Handle : g_held[g] # obj
    BY <1>3, StaticAllocInv
  <2>2. g_held[h] = NULL
    BY <1>3 DEF Mem!StaticAlloc
  <2> DEFINE block == Cells("static", obj, 1)
  <2>3. block \in Blocks
    BY <2>1, SlotFacts DEF Blocks
  <2>4. ASSUME NEW g \in Handle PROVE HeldBlock(g) \intersect block = {}
    <3>1. CASE g_held[g] = NULL
      BY <3>1, HeldBlockIs
    <3>2. CASE g_held[g] # NULL
      <4>1. /\ HeldBlock(g) = Cells("static", g_held[g], 1)
            /\ g_held[g] \in Mem!StaticSlot /\ g_held[g] # obj
        BY <1>1, <2>1, <3>2, HeldBlockIs
      <4>2. g_held[g] \in Int /\ obj \in Int
        BY <2>1, <4>1, SlotFacts
      <4>3. g_held[g] + 1 <= obj \/ obj + 1 <= g_held[g]
        BY <4>1, <4>2
      <4>4. QED
        BY <4>1, <4>2, <4>3, CellsApart
    <3>3. QED
      BY <3>1, <3>2
  <2>5. /\ g_held'[h] = obj /\ g_held'[h] # NULL
        /\ \A g \in Handle \ {h} : g_held'[g] = g_held[g]
    BY <1>1, <2>1, SlotFacts
  <2>6. HeldBlock(h) = {}
    BY <2>2, HeldBlockIs
  <2>7. HeldBlock(h)' = block /\ \A g \in Handle \ {h} : HeldBlock(g)' = HeldBlock(g)
    BY <2>5 DEF HeldBlock
  <2> HIDE DEF block
  <2>8. QED
    BY <2>3, <2>4, <2>6, <2>7, TakesBlock
<1>4. ASSUME NEW h \in Handle, Mem!StaticFree(h) PROVE PromiseKept
  <2>1. g_held'[h] = NULL /\ \A g \in Handle \ {h} : g_held'[g] = g_held[g]
    BY <1>1, <1>4 DEF Mem!StaticFree
  <2>2. HeldBlock(h)' = {} /\ \A g \in Handle \ {h} : HeldBlock(g)' = HeldBlock(g)
    BY <2>1 DEF HeldBlock
  <2>3. QED
    BY <2>2, GivesBlock
<1>5. QED
  BY <1>2, <1>3, <1>4 DEF Mem!StaticNext, Mem!StaticAllocFails, Mem!StaticUse, Mem!staticVars

LEMMA ArenaKeepsPromise ==
  ASSUME ArenaInv, unit = "arena", unit' = unit, Mem!ArenaNext
  PROVE  PromiseKept
<1>1. /\ memory \in ArenaBases /\ memory \in Nat /\ used \in Nat
      /\ blocks \in [Handle -> (Nat \X Nat \X Nat) \union {NULL}]
  BY ArenaFacts DEF ArenaInv, Mem!ArenaTypeOK
<1>2. ASSUME NEW r \in ArenaRequests, Mem!ArenaAllocFails(r[1], r[2]) PROVE PromiseKept
  <2>1. blocks' = blocks
    BY <1>2 DEF Mem!ArenaAllocFails, Mem!arenaVars
  <2>2. \A g \in Handle : HeldBlock(g)' = HeldBlock(g)
    BY <2>1 DEF HeldBlock
  <2>3. QED
    BY <2>2, KeepsBlocks
<1>3. ASSUME NEW r \in ArenaRequests, NEW h \in Handle, Mem!ArenaAlloc(h, r[1], r[2])
      PROVE  PromiseKept
  <2>1. PICK o \in 0 .. ARENA_CAPACITY :
            /\ blocks' = [blocks EXCEPT ![h] = <<memory + o, r[1], r[2]>>]
            /\ o >= used
    BY <1>3, ArenaAllocInv
  <2>2. blocks[h] = NULL
    BY <1>3 DEF Mem!ArenaAlloc
  <2>3. r[1] \in Nat /\ r[2] \in Nat /\ o \in Nat
    BY ArenaFacts
  <2> DEFINE block == Cells("arena", memory + o, r[1])
  <2>4. block \in Blocks
    BY <1>1 DEF Blocks
  <2>5. ASSUME NEW g \in Handle PROVE HeldBlock(g) \intersect block = {}
    <3>1. CASE blocks[g] = NULL
      BY <3>1, HeldBlockIs
    <3>2. CASE blocks[g] # NULL
      <4>1. HeldBlock(g) = Cells("arena", blocks[g][1], blocks[g][2])
        BY <3>2, HeldBlockIs
      <4>2. /\ blocks[g][1] \in Int /\ blocks[g][2] \in Int
            /\ blocks[g][1] + blocks[g][2] <= memory + used
        <5>1. blocks[g] \in Nat \X Nat \X Nat
          BY <1>1, <3>2
        <5>2. blocks[g][1] + blocks[g][2] <= memory + used
          BY <3>2 DEF ArenaInv
        <5>3. QED
          BY <5>1, <5>2
      <4>3. blocks[g][1] + blocks[g][2] <= memory + o /\ memory + o \in Int
        BY <1>1, <2>1, <2>3, <4>2
      <4>4. QED
        BY <2>3, <4>1, <4>2, <4>3, CellsApart
    <3>3. QED
      BY <3>1, <3>2
  <2>6. /\ blocks'[h][1] = memory + o /\ blocks'[h][2] = r[1] /\ blocks'[h] # NULL
        /\ \A g \in Handle \ {h} : blocks'[g] = blocks[g]
    <3>1. <<memory + o, r[1], r[2]>> \in Nat \X Nat \X Nat
      BY <1>1, <2>3
    <3>2. <<memory + o, r[1], r[2]>> # NULL
      BY <3>1, ArenaFacts
    <3>3. QED
      BY <1>1, <2>1, <3>2
  <2>7. HeldBlock(h) = {}
    BY <2>2, HeldBlockIs
  <2>8. HeldBlock(h)' = block /\ \A g \in Handle \ {h} : HeldBlock(g)' = HeldBlock(g)
    BY <2>6 DEF HeldBlock
  <2> HIDE DEF block
  <2>9. QED
    BY <2>4, <2>5, <2>7, <2>8, TakesBlock
<1>4. CASE Mem!ArenaReset
  <2>1. \A g \in Handle : blocks'[g] = NULL
    BY <1>4 DEF Mem!ArenaReset
  <2>2. \A g \in Handle : HeldBlock(g)' = {}
    BY <2>1 DEF HeldBlock
  <2>3. Promise!Reset
    BY <2>2 DEF Promise!Reset
  <2>4. QED
    BY <2>3 DEF Promise!Next, PromiseKept
<1>5. QED
  BY <1>2, <1>3, <1>4 DEF Mem!ArenaNext

LEMMA PromiseStep ==
  ASSUME IInv, [MCNext]_allVars
  PROVE  PromiseKept
<1>1. unit \in Units /\ SlabInv /\ PoolInv /\ StaticInv /\ ArenaInv
  BY DEF IInv
<1>2. CASE UNCHANGED allVars
  <2>1. \A g \in Handle : HeldBlock(g)' = HeldBlock(g)
    BY <1>2 DEF allVars, vars, cacheVars, poolVars, staticVars, arenaVars, HeldBlock
  <2>2. QED
    BY <2>1, KeepsBlocks
<1>3. CASE MCNext
  BY <1>1, <1>3, SlabKeepsPromise, PoolKeepsPromise, StaticKeepsPromise, ArenaKeepsPromise
     DEF MCNext
<1>4. QED
  BY <1>2, <1>3

\* Each allocator hands out only memory that no pointer of its client holds,
\* whatever was given back in what order before.
THEOREM PromiseIsKept == MCSpec => ImplementsAllocator
<1>1. MCInit => Promise!Init
  <2>1. ASSUME MCInit, NEW h \in Handle PROVE HeldBlock(h) = {}
    BY <2>1 DEF MCInit, Init, Mem!PoolInit, Mem!StaticInit, Mem!ArenaInit, HeldBlock, Units
  <2>2. QED
    BY <2>1 DEF Promise!Init
<1>2. IInv /\ [MCNext]_allVars => [Promise!Next]_([h \in Handle |-> HeldBlock(h)])
  BY PromiseStep DEF PromiseKept
<1>3. QED
  BY <1>1, <1>2, Invariance, PTL DEF MCSpec, allVars, ImplementsAllocator, Promise!Spec

=============================================================================
