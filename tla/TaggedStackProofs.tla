-------------------------- MODULE TaggedStackProofs -------------------------
(***************************************************************************)
(* What the tag of src/cas_aba_demo.c is worth, for every number of tags,  *)
(* threads and nodes: a CAS that succeeds has missed a multiple of TagMod  *)
(* changes, and while every CAS that succeeded has missed none, each pop   *)
(* takes the top off.                                                      *)
(***************************************************************************)
EXTENDS TaggedStack, ChainTheorems

-----------------------------------------------------------------------------
(* Tags                                                                    *)

\* The tag of old_tv and the changes since give the tag; a change more, the next one.
LEMMA NextTag ==
    ASSUME NEW m \in Nat \ {0}, NEW t \in Nat, NEW s \in Nat
    PROVE  (t + (s + 1)) % m = (((t + s) % m) + 1) % m
<1> DEFINE a == t + s   u == a % m   q == a \div m
<1>0. a \in Int /\ a + 1 \in Int /\ t + (s + 1) = a + 1
  BY SMT
<1>. HIDE DEF a
<1>1. /\ q \in Int /\ u \in 0 .. m - 1 /\ a = m * q + u
  BY <1>0, DivMod
<1>. HIDE DEF u, q
<1>6. u + 1 \in Int
  BY <1>1, SMT
<1>2. /\ (u + 1) \div m \in Int /\ (u + 1) % m \in 0 .. m - 1
      /\ u + 1 = m * ((u + 1) \div m) + ((u + 1) % m)
  BY <1>6, DivMod
<1>3. /\ (a + 1) \div m \in Int /\ (a + 1) % m \in 0 .. m - 1
      /\ a + 1 = m * ((a + 1) \div m) + ((a + 1) % m)
  BY <1>0, DivMod
<1> DEFINE v == (u + 1) \div m   w == (a + 1) \div m   x == (u + 1) % m   y == (a + 1) % m
<1>4. m * w + y = m * (q + v) + x
  <2>1. m * w + y = (m * q + u) + 1
    BY <1>1, <1>3, SMT
  <2>2. (m * q + u) + 1 = m * q + (m * v + x)
    BY <1>1, <1>2, SMT
  <2>3. m * q + m * v = m * (q + v)
    BY <1>1, <1>2, SMT
  <2>. QED  BY <2>1, <2>2, <2>3, <1>1, <1>2, <1>3, SMT
<1>5. y = x
  <2>1. w \in Int /\ q + v \in Int /\ x \in 0 .. m - 1 /\ y \in 0 .. m - 1
    BY <1>1, <1>2, <1>3, SMT
  <2>. HIDE DEF v, w, x, y
  <2>. QED  BY <2>1, <1>4, DivModUnique
<1>. QED  BY <1>0, <1>5 DEF a, u

\* A tag that is back where it was has been changed a multiple of m times.
LEMMA SameTag ==
    ASSUME NEW m \in Nat \ {0}, NEW t \in 0 .. m - 1, NEW s \in Nat, (t + s) % m = t
    PROVE  s % m = 0
<1> DEFINE q == (t + s) \div m   v == s \div m   r == s % m
<1>1. q \in Int /\ t + s = m * q + t
  BY DivMod
<1>2. v \in Int /\ r \in 0 .. m - 1 /\ s = m * v + r
  BY DivMod
<1>3. m * v + r = m * q + 0
  BY <1>1, <1>2, SMT
<1>4. 0 \in 0 .. m - 1
  BY SMT
<1>. HIDE DEF q, v, r
<1>5. r = 0
  BY <1>1, <1>2, <1>3, <1>4, DivModUnique
<1>. QED  BY <1>5 DEF r

-----------------------------------------------------------------------------
(* The inductive invariant                                                 *)

PushPC == {"push_load", "push_link", "push_cas"}
PopPC == {"pop_next", "pop_cas"}
CasPC == {"push_cas", "pop_cas"}

\* The threads that hold a word they have loaded.
Loaded(x) == pc[x] \in {"push_link", "push_cas"} \union PopPC

\* What the threads know of their own words.
LocalsInv ==
    \A x \in Thread :
        /\ pc[x] \in PushPC => node[x] \in Node
        /\ pc[x] \in PopPC => old_tv[x].ptr \in Node
        /\ pc[x] = "push_cas" => new_tv[x].ptr = node[x]
        /\ pc[x] \in CasPC => new_tv[x].tag = (old_tv[x].tag + 1) % TagMod

\* The tag has counted the changes since a word was loaded, which is still
\* current if there were none.
TagInv ==
    \A x \in Thread :
        Loaded(x) =>
            /\ (old_tv[x].tag + since[x]) % TagMod = tagged.tag
            /\ since[x] = 0 => old_tv[x] = tagged

InStack(a) == a \in Node /\ owner[a] = NULL

\* The nodes of no thread form a list from the top: every link stays inside, no
\* node has two predecessors and the top has none.
ListInv ==
    /\ tagged.ptr = NULL \/ InStack(tagged.ptr)
    /\ \A a \in Node : InStack(a) =>
          /\ next[a] = NULL \/ InStack(next[a])
          /\ next[a] = NULL \/ next[a] # tagged.ptr
    /\ \A a, b \in Node :
          InStack(a) /\ InStack(b) /\ next[a] = next[b] /\ next[a] # NULL => a = b

\* A thread that pushes owns its node and has linked it; a thread that pops has
\* read a successor that is current as long as the stack has not changed.
LinksInv ==
    \A x \in Thread :
        /\ pc[x] \in PushPC => owner[node[x]] = x
        /\ pc[x] = "push_cas" => next[node[x]] = old_tv[x].ptr
        /\ pc[x] = "pop_cas" /\ since[x] = 0 => new_tv[x].ptr = next[old_tv[x].ptr]

\* The list from the top ends and holds exactly these nodes.
WholeInv ==
    /\ Whole(tagged.ptr, Node, next, NULL)
    /\ ChainSet(tagged.ptr, next, NULL) = {a \in Node : owner[a] = NULL}

IInv ==
    /\ TypeOK
    /\ LocalsInv
    /\ TagInv
    /\ ~ aba => ListInv /\ LinksInv /\ WholeInv

-----------------------------------------------------------------------------
\* A masked tag and a pointer are a word.
LEMMA MakeWord ==
    ASSUME TaggedStackAssumption, NEW p \in Ptr, NEW g \in Nat
    PROVE  /\ MAKE_TV(p, g) \in Word
           /\ MAKE_TV(p, g).ptr = p
           /\ MAKE_TV(p, g).tag = g % TagMod
<1>1. g % TagMod \in 0 .. TagMod - 1
  BY DivMod DEF TaggedStackAssumption
<1>. QED  BY <1>1 DEF MAKE_TV, Word

LEMMA InitIInv ==
    ASSUME TaggedStackAssumption, Init
    PROVE  IInv
<1>1. MAKE_TV(NULL, 0) \in Word /\ tagged.ptr = NULL
  BY MakeWord DEF Init, EmptyStack, Ptr
<1>2. TypeOK
  <2>1. aba \in BOOLEAN
    BY Zenon DEF Init, EmptyStack
  <2>2. cas \in 0 .. MaxCas
    BY DEF Init, EmptyStack, TaggedStackAssumption
  <2>3. owner \in [Node -> Thread \union {NULL}]
    BY DEF Init
  <2>. QED  BY <1>1, <2>1, <2>2, <2>3 DEF Init, EmptyStack, TypeOK, Ptr, PC
<1>3. LocalsInv /\ TagInv /\ LinksInv
  BY DEF Init, EmptyStack, LocalsInv, TagInv, LinksInv, Loaded, PushPC, PopPC, CasPC
<1>4. ListInv
  BY <1>1 DEF Init, EmptyStack, ListInv, InStack, TaggedStackAssumption
<1>5. WholeInv
  <2>1. next \in Links(Node, NULL) /\ IsFiniteSet(Node) /\ NULL \notin Node
    BY <1>2 DEF TypeOK, Links, Ptr, TaggedStackAssumption
  <2>2. Whole(NULL, Node, next, NULL) /\ ChainSet(NULL, next, NULL) = {}
    BY <2>1, EmptyChain
  <2>3. {a \in Node : owner[a] = NULL} = {}
    BY DEF Init, TaggedStackAssumption
  <2>. QED  BY <1>1, <2>2, <2>3 DEF WholeInv
<1>. QED  BY <1>2, <1>3, <1>4, <1>5 DEF IInv

\* The steps of a thread other than the CASes that succeed.
QuietStep(x) ==
    \/ CallPush(x) \/ PushLoad(x) \/ PushLink(x) \/ PushCasFails(x)
    \/ CallPop(x) \/ PopLoad(x) \/ PopNext(x) \/ PopCasFails(x)

LEMMA TypeOKStep ==
    ASSUME TaggedStackAssumption, IInv, [Next]_vars
    PROVE  TypeOK'
<1>1. TypeOK /\ LocalsInv
  BY DEF IInv
<1>2. CASE UNCHANGED vars
  BY <1>1, <1>2 DEF TypeOK, vars
<1>3. ASSUME NEW x \in Thread, CallPush(x) \/ CallPop(x) \/ PushCasFails(x) \/ PopCasFails(x)
      PROVE  TypeOK'
  BY <1>1, <1>3 DEF TypeOK, CallPush, CallPop, PushCasFails, PopCasFails, Goto, PC, Ptr
<1>4. ASSUME NEW x \in Thread, PushLoad(x) \/ PopLoad(x)
      PROVE  TypeOK'
  BY <1>1, <1>4 DEF TypeOK, PushLoad, PopLoad, LoadWord, Goto, PC
<1>5. ASSUME NEW x \in Thread, PushLink(x) \/ PopNext(x)
      PROVE  TypeOK'
  <2>1. old_tv[x].tag + 1 \in Nat /\ old_tv[x].ptr \in Ptr
    BY <1>1 DEF TypeOK, Word, TaggedStackAssumption
  <2>2. CASE PushLink(x)
    <3>1. MAKE_TV(node[x], old_tv[x].tag + 1) \in Word
      BY <1>1, <2>1, MakeWord DEF TypeOK
    <3>. QED  BY <3>1, <2>1, <2>2, <1>1 DEF TypeOK, PushLink, Goto, PC
  <2>3. CASE PopNext(x)
    <3>1. MAKE_TV(next[old_tv[x].ptr], old_tv[x].tag + 1) \in Word
      BY <1>1, <2>1, <2>3, MakeWord DEF TypeOK, LocalsInv, PopNext, PopPC
    <3>. QED  BY <3>1, <2>3, <1>1 DEF TypeOK, PopNext, Goto, PC
  <2>. QED  BY <1>5, <2>2, <2>3
<1>6. ASSUME NEW x \in Thread, Install(x)
      PROVE  /\ tagged' \in Word /\ pc' \in [Thread -> PC] /\ aba' \in BOOLEAN
             /\ since' \in [Thread -> Nat] /\ cas' \in 0 .. MaxCas
  <2>1. \A y \in Thread : since[y] + 1 \in Nat
    BY <1>1 DEF TypeOK
  <2>2. cas + 1 \in 0 .. MaxCas
    BY <1>1, <1>6 DEF TypeOK, Install, TaggedStackAssumption
  <2>3. aba' \in BOOLEAN
    BY <1>1, <1>6, Zenon DEF TypeOK, Install
  <2>. QED  BY <1>1, <1>6, <2>1, <2>2, <2>3 DEF TypeOK, Install, Goto, PC
<1>7. ASSUME NEW x \in Thread, PushCas(x)
      PROVE  TypeOK'
  BY <1>1, <1>6, <1>7 DEF TypeOK, PushCas
<1>8. ASSUME NEW x \in Thread, PopCas(x)
      PROVE  TypeOK'
  <2>1. old_tv[x].ptr \in Ptr
    BY <1>1 DEF TypeOK, Word
  <2>. QED  BY <1>1, <1>6, <1>8, <2>1 DEF TypeOK, PopCas
<1>. QED  BY <1>2, <1>3, <1>4, <1>5, <1>7, <1>8 DEF Next, Push, Pop

LEMMA LocalsInvStep ==
    ASSUME TaggedStackAssumption, IInv, [Next]_vars
    PROVE  LocalsInv'
<1>1. TypeOK /\ LocalsInv
  BY DEF IInv
<1>. USE DEF LocalsInv, PushPC, PopPC, CasPC
<1>2. CASE UNCHANGED vars
  BY <1>1, <1>2 DEF vars
<1>3. ASSUME NEW x \in Thread, CallPush(x) \/ CallPop(x) \/ PushCasFails(x) \/ PopCasFails(x)
      PROVE  LocalsInv'
  BY <1>1, <1>3 DEF TypeOK, CallPush, CallPop, PushCasFails, PopCasFails, Goto
<1>4. ASSUME NEW x \in Thread, PushLoad(x)
      PROVE  LocalsInv'
  BY <1>1, <1>4 DEF TypeOK, PushLoad, LoadWord, Goto
<1>5. ASSUME NEW x \in Thread, PopLoad(x)
      PROVE  LocalsInv'
  BY <1>1, <1>5 DEF TypeOK, PopLoad, LoadWord, Goto, Word, Ptr
<1>6. ASSUME NEW x \in Thread, PushLink(x) \/ PopNext(x)
      PROVE  LocalsInv'
  <2>1. old_tv[x].tag + 1 \in Nat /\ old_tv[x].ptr \in Ptr
    BY <1>1 DEF TypeOK, Word, TaggedStackAssumption
  <2>2. CASE PushLink(x)
    <3>1. node[x] \in Ptr
      BY <1>1 DEF TypeOK
    <3>2. /\ new_tv'[x].ptr = node[x]
          /\ new_tv'[x].tag = (old_tv[x].tag + 1) % TagMod
      BY <3>1, <2>1, <2>2, <1>1, MakeWord DEF TypeOK, PushLink
    <3>. QED  BY <3>2, <2>2, <1>1 DEF TypeOK, PushLink, Goto
  <2>3. CASE PopNext(x)
    <3>1. next[old_tv[x].ptr] \in Ptr
      BY <1>1, <2>3 DEF TypeOK, PopNext
    <3>2. new_tv'[x].tag = (old_tv[x].tag + 1) % TagMod
      BY <3>1, <2>1, <2>3, <1>1, MakeWord DEF TypeOK, PopNext
    <3>. QED  BY <3>2, <2>3, <1>1 DEF TypeOK, PopNext, Goto
  <2>. QED  BY <1>6, <2>2, <2>3
<1>7. ASSUME NEW x \in Thread, PushCas(x) \/ PopCas(x)
      PROVE  LocalsInv'
  BY <1>1, <1>7 DEF TypeOK, PushCas, PopCas, Install, Goto
<1>. QED  BY <1>2, <1>3, <1>4, <1>5, <1>6, <1>7 DEF Next, Push, Pop

\* A step that is not a successful CAS changes neither the word nor a count
\* but the one it sets to 0 as it loads the word.
LEMMA QuietTagInv ==
    ASSUME TaggedStackAssumption, IInv, NEW x \in Thread, QuietStep(x)
    PROVE  TagInv'
<1>1. TypeOK /\ TagInv
  BY DEF IInv
<1>. USE DEF TagInv, Loaded, PopPC
<1>2. CASE CallPush(x) \/ CallPop(x) \/ PushCasFails(x) \/ PopCasFails(x)
  BY <1>1, <1>2 DEF TypeOK, CallPush, CallPop, PushCasFails, PopCasFails, Goto
<1>3. CASE PushLink(x) \/ PopNext(x)
  BY <1>1, <1>3 DEF TypeOK, PushLink, PopNext, Goto
<1>4. CASE PushLoad(x) \/ PopLoad(x)
  <2>1. old_tv'[x] = tagged /\ since'[x] = 0 /\ tagged' = tagged
    BY <1>1, <1>4 DEF TypeOK, PushLoad, PopLoad, LoadWord
  <2>2. (tagged.tag + 0) % TagMod = tagged.tag
    BY <1>1, SmallRemainder DEF TypeOK, Word, TaggedStackAssumption
  <2>3. ASSUME NEW y \in Thread, y # x
        PROVE  /\ old_tv'[y] = old_tv[y] /\ since'[y] = since[y]
               /\ Loaded(y)' <=> Loaded(y)
    BY <1>1, <1>4, <2>3 DEF TypeOK, PushLoad, PopLoad, LoadWord, Goto
  <2>. QED  BY <1>1, <2>1, <2>2, <2>3
<1>. QED  BY <1>2, <1>3, <1>4 DEF QuietStep

\* A CAS that succeeds adds one to the tag and to every count.
LEMMA CasTagInv ==
    ASSUME TaggedStackAssumption, IInv, NEW x \in Thread, PushCas(x) \/ PopCas(x)
    PROVE  TagInv'
<1>1. TypeOK /\ TagInv /\ LocalsInv
  BY DEF IInv
<1>2. tagged'.tag = (tagged.tag + 1) % TagMod
  BY <1>1 DEF PushCas, PopCas, Install, LocalsInv, CasPC
<1>3. SUFFICES ASSUME NEW y \in Thread, Loaded(y)'
               PROVE  /\ (old_tv'[y].tag + since'[y]) % TagMod = tagged'.tag
                      /\ since'[y] # 0
  BY DEF TagInv
<1>4. /\ y # x /\ Loaded(y)
      /\ old_tv'[y] = old_tv[y] /\ since'[y] = since[y] + 1
  BY <1>1, <1>3 DEF TypeOK, PushCas, PopCas, Install, Goto, Loaded, PopPC
<1>5. /\ old_tv[y].tag \in Nat /\ since[y] \in Nat
      /\ (old_tv[y].tag + since[y]) % TagMod = tagged.tag
  BY <1>1, <1>4 DEF TypeOK, TagInv, Word, TaggedStackAssumption
<1>6. (old_tv[y].tag + (since[y] + 1)) % TagMod = (tagged.tag + 1) % TagMod
  <2>1. \A t, s \in Nat : (t + (s + 1)) % TagMod = (((t + s) % TagMod) + 1) % TagMod
    BY NextTag DEF TaggedStackAssumption
  <2>. QED  BY <2>1, <1>5, Zenon
<1>7. since[y] + 1 # 0
  BY <1>5
<1>. QED  BY <1>2, <1>4, <1>6, <1>7

\* The node a thread has loaded is the top as long as the stack has not changed.
LEMMA TagTop ==
    ASSUME TaggedStackAssumption, TypeOK, LocalsInv, TagInv, ListInv,
           NEW y \in Thread, pc[y] \in PopPC, since[y] = 0
    PROVE  InStack(old_tv[y].ptr)
BY DEF TagInv, Loaded, LocalsInv, ListInv, InStack, TaggedStackAssumption

\* The step of a thread that is neither a pop's CAS nor a push's keeps the
\* list: only the node a thread owns is linked.
LEMMA QuietListInv ==
    ASSUME TaggedStackAssumption, IInv, ~ aba, NEW x \in Thread, QuietStep(x)
    PROVE  (ListInv /\ LinksInv)'
<1>1. TypeOK /\ LocalsInv /\ TagInv /\ ListInv /\ LinksInv
  BY DEF IInv
<1>2. tagged' = tagged /\ owner' = owner
  BY DEF QuietStep, CallPush, CallPop, PushLoad, PopLoad, PushLink, PopNext,
         PushCasFails, PopCasFails
<1>3. CASE PushLink(x)
  <2>1. node[x] \in Node /\ owner[node[x]] = x /\ x # NULL
    BY <1>1, <1>3 DEF PushLink, LocalsInv, LinksInv, PushPC, TaggedStackAssumption
  <2>2. /\ next' \in [Node -> Ptr] /\ next'[node[x]] = old_tv[x].ptr
        /\ \A a \in Node : a # node[x] => next'[a] = next[a]
    BY <1>1, <1>3, <2>1 DEF PushLink, TypeOK, Word
  <2>3. \A a \in Node : InStack(a) => a # node[x] /\ next'[a] = next[a]
    BY <2>1, <2>2 DEF InStack
  <2>4. ListInv'
    BY <1>1, <1>2, <2>3 DEF ListInv, InStack
  <2>5. ASSUME NEW y \in Thread
        PROVE  /\ pc'[y] \in PushPC => owner[node'[y]] = y
               /\ pc'[y] = "push_cas" => next'[node'[y]] = old_tv'[y].ptr
               /\ pc'[y] = "pop_cas" /\ since'[y] = 0 => new_tv'[y].ptr = next'[old_tv'[y].ptr]
    <3>1. CASE y = x
      BY <3>1, <1>1, <1>3, <2>1, <2>2 DEF PushLink, Goto, TypeOK
    <3>2. CASE y # x
      <4>1. /\ pc'[y] = pc[y] /\ node'[y] = node[y] /\ old_tv'[y] = old_tv[y]
            /\ new_tv'[y] = new_tv[y] /\ since'[y] = since[y]
        BY <3>2, <1>1, <1>3 DEF PushLink, Goto, TypeOK
      <4>2. pc[y] \in PushPC => owner[node[y]] = y /\ node[y] \in Node /\ node[y] # node[x]
        BY <3>2, <1>1, <2>1 DEF LinksInv, LocalsInv
      <4>3. pc[y] = "pop_cas" /\ since[y] = 0 => InStack(old_tv[y].ptr)
        BY <1>1, TagTop DEF Loaded, PopPC
      <4>. QED  BY <4>1, <4>2, <4>3, <1>1, <2>2, <2>3 DEF LinksInv, PushPC, InStack
    <3>. QED  BY <3>1, <3>2
  <2>. QED  BY <2>4, <2>5, <1>2 DEF LinksInv
<1>4. CASE PopNext(x)
  <2>1. next' = next /\ node' = node /\ old_tv' = old_tv /\ since' = since
    BY <1>4 DEF PopNext
  <2>2. new_tv'[x].ptr = next[old_tv[x].ptr]
    <3>1. old_tv[x].tag + 1 \in Nat /\ next[old_tv[x].ptr] \in Ptr
      BY <1>1, <1>4 DEF PopNext, TypeOK, LocalsInv, PopPC, Word, TaggedStackAssumption
    <3>. QED  BY <3>1, <1>1, <1>4, MakeWord DEF PopNext, TypeOK
  <2>3. ListInv'
    BY <1>1, <1>2, <2>1 DEF ListInv, InStack
  <2>4. LinksInv'
    BY <1>1, <1>2, <2>1, <2>2, <1>4 DEF LinksInv, PopNext, Goto, TypeOK, PushPC
  <2>. QED  BY <2>3, <2>4
<1>5. CASE CallPush(x)
  BY <1>1, <1>2, <1>5 DEF CallPush, ListInv, LinksInv, InStack, Goto, TypeOK, PushPC
<1>6. CASE CallPop(x) \/ PushCasFails(x) \/ PopCasFails(x)
  BY <1>1, <1>2, <1>6
  DEF CallPop, PushCasFails, PopCasFails, ListInv, LinksInv, InStack, Goto, TypeOK, PushPC
<1>7. CASE PushLoad(x) \/ PopLoad(x)
  BY <1>1, <1>2, <1>7
  DEF PushLoad, PopLoad, LoadWord, ListInv, LinksInv, InStack, Goto, TypeOK, PushPC
<1>. QED  BY <1>3, <1>4, <1>5, <1>6, <1>7 DEF QuietStep

\* Putting a node of the thread on top, and taking the top off, keep the list,
\* if the CAS has not missed a change.
LEMMA CasListInv ==
    ASSUME TaggedStackAssumption, IInv, ~ aba',
           NEW x \in Thread, PushCas(x) \/ PopCas(x)
    PROVE  (ListInv /\ LinksInv)'
<1>1. ~ aba /\ since[x] = 0
  BY DEF PushCas, PopCas, Install
<1>2. TypeOK /\ LocalsInv /\ ListInv /\ LinksInv
  BY <1>1 DEF IInv
<1>3. /\ tagged = old_tv[x] /\ tagged' = new_tv[x] /\ next' = next
      /\ \A y \in Thread : pc'[y] = IF y = x THEN "idle" ELSE pc[y]
      /\ \A y \in Thread : since'[y] = since[y] + 1 /\ since[y] \in Nat
      /\ old_tv' = old_tv /\ new_tv' = new_tv
      /\ \A y \in Thread : y # x => node'[y] = node[y]
  BY <1>2 DEF PushCas, PopCas, Install, Goto, TypeOK
<1>4. \A y \in Thread : ~ (pc'[y] = "pop_cas" /\ since'[y] = 0)
  BY <1>3
<1>5. x # NULL /\ NULL \notin Node
  BY DEF TaggedStackAssumption
<1>6. CASE PushCas(x)
  <2> DEFINE n == node[x]
  <2>1. /\ n \in Node /\ owner[n] = x /\ next[n] = tagged.ptr /\ tagged'.ptr = n
        /\ n # NULL
    BY <1>2, <1>3, <1>5, <1>6 DEF PushCas, LocalsInv, LinksInv, PushPC
  <2>2. \A a \in Node : owner'[a] = IF a = n THEN NULL ELSE owner[a]
    BY <1>2, <1>6 DEF PushCas, TypeOK
  <2>. HIDE DEF n
  <2>3. \A a \in Node : owner'[a] = NULL <=> a = n \/ owner[a] = NULL
    BY <2>2
  <2>4. owner[n] # NULL
    BY <2>1, <1>5
  <2>5. ListInv'
    <3>1. tagged'.ptr = NULL \/ (tagged'.ptr \in Node /\ owner'[tagged'.ptr] = NULL)
      BY <2>1, <2>3
    <3>2. ASSUME NEW a \in Node, owner'[a] = NULL
          PROVE  /\ next'[a] = NULL \/ (next'[a] \in Node /\ owner'[next'[a]] = NULL)
                 /\ next'[a] = NULL \/ next'[a] # tagged'.ptr
      <4>1. next[a] = NULL \/ (next[a] \in Node /\ owner[next[a]] = NULL)
        BY <3>2, <2>1, <2>3, <1>2 DEF ListInv, InStack
      <4>. QED  BY <4>1, <2>1, <2>3, <2>4, <1>3
    <3>3. ASSUME NEW a \in Node, NEW b \in Node, owner'[a] = NULL, owner'[b] = NULL,
                 next'[a] = next'[b], next'[a] # NULL
          PROVE  a = b
      BY <3>3, <2>1, <2>3, <1>2, <1>3 DEF ListInv, InStack
    <3>. QED  BY <3>1, <3>2, <3>3 DEF ListInv, InStack
  <2>6. LinksInv'
    <3>1. \A y \in Thread : pc'[y] \in PushPC =>
              y # x /\ node[y] \in Node /\ owner[node[y]] = y /\ node[y] # n
      BY <1>2, <1>3, <2>1 DEF LinksInv, LocalsInv, PushPC
    <3>. QED  BY <3>1, <2>2, <1>2, <1>3, <1>4 DEF LinksInv, PushPC
  <2>. QED  BY <2>5, <2>6
<1>7. CASE PopCas(x)
  <2> DEFINE t == tagged.ptr
  <2>1. /\ t \in Node /\ owner[t] = NULL /\ tagged'.ptr = next[t]
    BY <1>1, <1>2, <1>3, <1>5, <1>7 DEF PopCas, LocalsInv, LinksInv, ListInv, InStack, PopPC
  <2>2. \A a \in Node : owner'[a] = IF a = t THEN x ELSE owner[a]
    BY <1>2, <1>3, <1>7, <2>1 DEF PopCas, TypeOK
  <2>3. \A a \in Node : owner[a] = NULL /\ next[a] # NULL =>
            next[a] # t /\ next[a] \in Node /\ owner[next[a]] = NULL
    BY <1>2 DEF ListInv, InStack
  <2>. HIDE DEF t
  <2>4. \A a \in Node : owner'[a] = NULL <=> a # t /\ owner[a] = NULL
    BY <1>5, <2>1, <2>2
  <2>5. \A a \in Node : owner[a] = NULL /\ next[a] # NULL =>
            next[a] \in Node /\ owner'[next[a]] = NULL
    BY <2>3, <2>4
  <2>6. ListInv'
    <3>1. tagged'.ptr = NULL \/ (tagged'.ptr \in Node /\ owner'[tagged'.ptr] = NULL)
      BY <2>1, <2>5
    <3>2. ASSUME NEW a \in Node, owner'[a] = NULL
          PROVE  /\ next'[a] = NULL \/ (next'[a] \in Node /\ owner'[next'[a]] = NULL)
                 /\ next'[a] = NULL \/ next'[a] # tagged'.ptr
      BY <3>2, <2>1, <2>4, <2>5, <1>2, <1>3 DEF ListInv, InStack
    <3>3. ASSUME NEW a \in Node, NEW b \in Node, owner'[a] = NULL, owner'[b] = NULL,
                 next'[a] = next'[b], next'[a] # NULL
          PROVE  a = b
      BY <3>3, <2>4, <1>2, <1>3 DEF ListInv, InStack
    <3>. QED  BY <3>1, <3>2, <3>3 DEF ListInv, InStack
  <2>7. LinksInv'
    <3>1. \A y \in Thread : pc'[y] \in PushPC =>
              y # x /\ node[y] \in Node /\ owner[node[y]] = y /\ node[y] # t
      BY <1>2, <1>3, <2>1 DEF LinksInv, LocalsInv, InStack, PushPC, TaggedStackAssumption
    <3>. QED  BY <3>1, <2>2, <1>2, <1>3, <1>4 DEF LinksInv, PushPC
  <2>. QED  BY <2>6, <2>7
<1>. QED  BY <1>6, <1>7

-----------------------------------------------------------------------------
\* Only a node that belongs to a thread is linked anew.
LEMMA QuietWholeInv ==
    ASSUME TaggedStackAssumption, IInv, ~ aba, NEW x \in Thread, QuietStep(x)
    PROVE  WholeInv'
<1>1. TypeOK /\ LocalsInv /\ LinksInv /\ WholeInv
  BY DEF IInv
<1>2. tagged' = tagged /\ owner' = owner
  BY DEF QuietStep, CallPush, CallPop, PushLoad, PopLoad, PushLink, PopNext, PushCasFails,
         PopCasFails
<1>3. next \in Links(Node, NULL) /\ IsFiniteSet(Node) /\ NULL \notin Node
  BY <1>1 DEF TypeOK, Links, Ptr, TaggedStackAssumption
<1>4. next' \in Links(Node, NULL)
  <2>1. TypeOK'
    BY TypeOKStep DEF Next, Push, Pop, QuietStep
  <2>. QED  BY <2>1 DEF TypeOK, Links, Ptr
<1>5. \A a \in ChainSet(tagged.ptr, next, NULL) : next'[a] = next[a]
  <2>1. CASE PushLink(x)
    <3>1. owner[node[x]] = x /\ x # NULL
      BY <1>1, <2>1 DEF PushLink, LinksInv, PushPC, TaggedStackAssumption
    <3>2. \A a \in Node : a # node[x] => next'[a] = next[a]
      BY <1>1, <2>1 DEF PushLink, TypeOK
    <3>. QED  BY <1>1, <3>1, <3>2 DEF WholeInv
  <2>2. CASE ~ PushLink(x)
    BY <2>2 DEF QuietStep, CallPush, CallPop, PushLoad, PopLoad, PopNext, PushCasFails,
                PopCasFails
  <2>. QED  BY <2>1, <2>2
<1>6. /\ Whole(tagged.ptr, Node, next', NULL)
      /\ ChainSet(tagged.ptr, next', NULL) = ChainSet(tagged.ptr, next, NULL)
  <2>. DEFINE top == tagged.ptr
  <2>1. /\ next \in Links(Node, NULL) /\ IsFiniteSet(Node) /\ NULL \notin Node
        /\ Whole(top, Node, next, NULL) /\ next' \in Links(Node, NULL)
        /\ \A a \in ChainSet(top, next, NULL) : next'[a] = next[a]
    BY <1>1, <1>3, <1>4, <1>5 DEF WholeInv
  <2>. HIDE DEF top
  <2>2. /\ Chain(top, next', NULL) = Chain(top, next, NULL)
        /\ Whole(top, Node, next', NULL)
        /\ ChainSet(top, next', NULL) = ChainSet(top, next, NULL)
    BY <2>1, ChainKept
  <2>. QED  BY <2>2 DEF top
<1>. QED  BY <1>1, <1>2, <1>6 DEF WholeInv

\* A CAS that missed no change puts the node on top, or takes the top off.
LEMMA CasWholeInv ==
    ASSUME TaggedStackAssumption, IInv, ~ aba',
           NEW x \in Thread, PushCas(x) \/ PopCas(x)
    PROVE  WholeInv'
<1>. DEFINE link == next
<1>1. /\ ~ aba /\ since[x] = 0 /\ tagged = old_tv[x] /\ tagged' = new_tv[x] /\ next' = next
  BY DEF PushCas, PopCas, Install
<1>2. TypeOK /\ LocalsInv /\ LinksInv /\ WholeInv
  BY <1>1 DEF IInv
<1>3. link \in Links(Node, NULL) /\ IsFiniteSet(Node) /\ NULL \notin Node
  BY <1>2 DEF TypeOK, Links, Ptr, TaggedStackAssumption
<1>4. CASE PushCas(x)
  <2>. DEFINE n == node[x]
  <2>1. n \in Node /\ owner[n] = x /\ x # NULL /\ link[n] = tagged.ptr /\ tagged'.ptr = n
    BY <1>1, <1>2, <1>4 DEF PushCas, LocalsInv, LinksInv, PushPC, TaggedStackAssumption
  <2>2. \A a \in Node : owner'[a] = IF a = n THEN NULL ELSE owner[a]
    BY <1>2, <1>4 DEF PushCas, TypeOK
  <2>. HIDE DEF n, link
  <2>3. Whole(link[n], Node, link, NULL) /\ n \notin ChainSet(link[n], link, NULL)
    BY <1>2, <2>1 DEF WholeInv, link
  <2>4. /\ Whole(n, Node, link, NULL)
        /\ Chain(n, link, NULL) = <<n>> \o Chain(link[n], link, NULL)
        /\ ChainSet(n, link, NULL) = {n} \union ChainSet(link[n], link, NULL)
    BY <1>3, <2>1, <2>3, PushOnChain
  <2>5. ChainSet(n, link, NULL) = {a \in Node : owner'[a] = NULL}
    BY <1>2, <2>1, <2>2, <2>4 DEF WholeInv, link
  <2>. QED  BY <1>1, <2>1, <2>4, <2>5 DEF WholeInv, link
<1>5. CASE PopCas(x)
  <2>. DEFINE t == tagged.ptr
  <2>1. t \in Node /\ tagged'.ptr = link[t] /\ x # NULL
    BY <1>1, <1>2, <1>5 DEF PopCas, LocalsInv, LinksInv, PopPC, TaggedStackAssumption
  <2>2. \A a \in Node : owner'[a] = IF a = t THEN x ELSE owner[a]
    BY <1>1, <1>2, <1>5, <2>1 DEF PopCas, TypeOK
  <2>3. Whole(t, Node, link, NULL)
    BY <1>2 DEF WholeInv
  <2>4. ChainSet(t, link, NULL) = {a \in Node : owner[a] = NULL}
    BY <1>2 DEF WholeInv
  <2>. HIDE DEF t, link
  <2>5. /\ Whole(link[t], Node, link, NULL)
        /\ Chain(t, link, NULL) = <<t>> \o Chain(link[t], link, NULL)
        /\ Tail(Chain(t, link, NULL)) = Chain(link[t], link, NULL)
        /\ t \notin ChainSet(link[t], link, NULL)
        /\ ChainSet(t, link, NULL) = {t} \union ChainSet(link[t], link, NULL)
    BY <1>3, <2>1, <2>3, FirstOfChain
  <2>6. ChainSet(link[t], link, NULL) = {a \in Node : owner'[a] = NULL}
    BY <2>1, <2>2, <2>4, <2>5
  <2>. QED  BY <1>1, <2>1, <2>5, <2>6 DEF WholeInv, link
<1>. QED  BY <1>4, <1>5

-----------------------------------------------------------------------------
\* Every step keeps the invariant.
LEMMA IInvStep ==
    ASSUME TaggedStackAssumption, IInv, [Next]_vars
    PROVE  IInv'
<1>1. TypeOK' /\ LocalsInv'
  BY TypeOKStep, LocalsInvStep
<1>2. CASE UNCHANGED vars
  BY <1>2 DEF IInv, vars, TypeOK, LocalsInv, TagInv, Loaded, ListInv, LinksInv, WholeInv, InStack
<1>3. ASSUME NEW x \in Thread, QuietStep(x)
      PROVE  IInv'
  <2>1. aba' = aba
    BY <1>3 DEF QuietStep, CallPush, CallPop, PushLoad, PopLoad, PushLink, PopNext,
                PushCasFails, PopCasFails
  <2>. QED  BY <1>1, <1>3, <2>1, QuietTagInv, QuietListInv, QuietWholeInv DEF IInv
<1>4. ASSUME NEW x \in Thread, PushCas(x) \/ PopCas(x)
      PROVE  IInv'
  BY <1>1, <1>4, CasTagInv, CasListInv, CasWholeInv DEF IInv
<1>. QED  BY <1>2, <1>3, <1>4 DEF Next, Push, Pop, QuietStep

\* IInv is an invariant of cas_aba_demo.c.
THEOREM Invariance ==
    ASSUME TaggedStackAssumption
    PROVE  Spec => []IInv
BY InitIInv, IInvStep, PTL DEF Spec

\* The tag is right, and the stack is intact until a CAS has missed changes.
LEMMA IInvImplies ==
    ASSUME TaggedStackAssumption, IInv
    PROVE  IntactUntilAba
<1>1. TagCountsChanges
  <2>. SUFFICES ASSUME NEW x \in Thread, Succeeds(x)
                PROVE  since[x] % TagMod = 0
    BY DEF TagCountsChanges
  <2>1. /\ tagged.tag \in 0 .. TagMod - 1 /\ since[x] \in Nat
        /\ (tagged.tag + since[x]) % TagMod = tagged.tag
    BY DEF IInv, TypeOK, TagInv, Loaded, PopPC, Succeeds, Word
  <2>2. \A t \in 0 .. TagMod - 1, s \in Nat : (t + s) % TagMod = t => s % TagMod = 0
    BY SameTag DEF TaggedStackAssumption
  <2>. QED  BY <2>1, <2>2, Zenon
<1>2. ASSUME ~ aba
      PROVE  {a \in Node : \E k \in DOMAIN Nodes : Nodes[k] = a} = {a \in Node : owner[a] = NULL}
  <2>1. WholeInv /\ ChainSet(tagged.ptr, next, NULL) = {Nodes[k] : k \in DOMAIN Nodes}
    BY <1>2 DEF IInv, Nodes, ChainSet
  <2>. HIDE DEF Nodes
  <2>. QED  BY <2>1 DEF WholeInv
<1>3. ~ aba => PopInstallsSuccessor
  BY DEF IInv, LinksInv, PopInstallsSuccessor, Succeeds
<1>. QED  BY <1>1, <1>2, <1>3 DEF IntactUntilAba

\* Every variable keeps its type: the tag never leaves the bits it has.
THEOREM TypeCorrect ==
    ASSUME TaggedStackAssumption
    PROVE  Spec => []TypeOK
<1>1. IInv => TypeOK
  BY DEF IInv
<1>. QED  BY <1>1, Invariance, PTL

\* A CAS that is about to succeed has missed a multiple of TagMod changes of
\* the stack, for every number of tags (lines 66-69 and 88 of cas_aba_demo.c).
THEOREM TagTheorem ==
    ASSUME TaggedStackAssumption
    PROVE  Spec => []TagCountsChanges
BY IInvImplies, Invariance, PTL DEF IntactUntilAba

\* ABA needs TagMod changes: a CAS succeeds with a word that is no longer current
\* only if at least TagMod others have succeeded since it was loaded.
THEOREM AbaNeedsWrap ==
    ASSUME TaggedStackAssumption
    PROVE  Spec => [][~ aba /\ aba' => \E x \in Thread : Succeeds(x) /\ since[x] >= TagMod]_vars
<1>1. ASSUME IInv, [Next]_vars, ~ aba, aba'
      PROVE  \E x \in Thread : Succeeds(x) /\ since[x] >= TagMod
  <2>1. PICK x \in Thread : (PushCas(x) \/ PopCas(x)) /\ since[x] # 0
    BY <1>1 DEF Next, Push, Pop, CallPush, CallPop, PushLoad, PopLoad, PushLink, PopNext,
                PushCasFails, PopCasFails, PushCas, PopCas, Install, vars
  <2>2. Succeeds(x)
    BY <2>1 DEF PushCas, PopCas, Install, Succeeds
  <2>3. since[x] \in Nat /\ tagged.tag \in 0 .. TagMod - 1
        /\ (tagged.tag + since[x]) % TagMod = tagged.tag
    BY <1>1, <2>2 DEF IInv, TypeOK, TagInv, Loaded, PopPC, Succeeds, Word
  <2>4. \A t \in 0 .. TagMod - 1, s \in Nat : (t + s) % TagMod = t => s % TagMod = 0
    BY SameTag DEF TaggedStackAssumption
  <2>5. since[x] % TagMod = 0
    BY <2>3, <2>4, Zenon
  <2>6. \A s \in 0 .. TagMod - 1 : s % TagMod = s
    BY SmallRemainder DEF TaggedStackAssumption
  <2>7. since[x] \notin 0 .. TagMod - 1
    BY <2>1, <2>5, <2>6
  <2>. QED  BY <2>2, <2>3, <2>7 DEF TaggedStackAssumption
<1>. QED  BY <1>1, Invariance, PTL DEF Spec

\* The tag counts the changes, and until a CAS has missed some the stack holds
\* exactly the nodes that belong to no thread and every pop takes its top off.
THEOREM StackIsIntact ==
    ASSUME TaggedStackAssumption
    PROVE  Spec => []IntactUntilAba
BY IInvImplies, Invariance, PTL
=============================================================================
