----------------------- MODULE HazardPointerProofs -----------------------
(***************************************************************************)
(* The safety of the hazard pointer stack for every number of threads,     *)
(* nodes and iterations.                                                   *)
(***************************************************************************)
EXTENDS HazardPointer, ChainTheorems

-----------------------------------------------------------------------------
(* The inductive invariant, by topic.                                      *)

\* The threads that have called hp_thread_register.
Registered == {x \in Thread : pc[x] # "register"}

\* The registered threads have the thread ids below hp_thread_count.
IdsInv ==
    /\ hp_thread_count = Cardinality(Registered)
    /\ \A x \in Registered : tl_thread_id[x] \in 0 .. hp_thread_count - 1
    /\ \A x, y \in Registered : tl_thread_id[x] = tl_thread_id[y] => x = y

\* Only slot 0 of a registered consumer is ever in use, and it holds what the
\* consumer protects.
SlotsInv ==
    /\ \A id \in Ids, z \in Slots :
          hp_table[id][z] # NULL =>
             z = 0 /\ \E c \in Consumers \intersect Registered : tl_thread_id[c] = id
    /\ \A c \in Consumers :
          /\ pc[c] \in {"retire"} \union ScanPC => hp_table[tl_thread_id[c]][0] = NULL
          /\ pc[c] \in {"pop_validate", "pop_next", "pop_cas"} =>
                hp_table[tl_thread_id[c]][0] = old_head[c]

\* A producer inside hps_push, a consumer between the CAS and hp_retire.
Pushing(p) == pc[p] \in {"push_load", "push_link", "push_cas"}
Holding(c) == pc[c] \in {"pop_release", "retire"}

\* A producer owns the node it pushes, a consumer the node it popped.
OwnInv ==
    /\ \A p \in Producers : Pushing(p) =>
          /\ node[p] \in Addr /\ heap[node[p]] = "private"
          /\ pc[p] = "push_cas" => next[node[p]] = old_head[p]
    /\ \A c \in Consumers : Holding(c) =>
          node[c] \in Addr /\ heap[node[c]] = "popped"
    /\ \A p, q \in Producers : Pushing(p) /\ Pushing(q) /\ node[p] = node[q] => p = q
    /\ \A c, d \in Consumers : Holding(c) /\ Holding(d) /\ node[c] = node[d] => c = d

\* hps_pop works on a node, and its copy of the node's next is current.
PopInv ==
    \A c \in Consumers :
       /\ pc[c] \in {"pop_protect", "pop_validate", "pop_next", "pop_cas"} =>
             old_head[c] \in Addr
       /\ pc[c] = "pop_cas" => new_next[c] = next[old_head[c]]

\* The locals of hp_retire and hp_is_protected stay in range.
RangeInv ==
    /\ \A x \in Thread : pc[x] \notin {"register", "done"} => ops[x] > 0
    /\ \A c \in Consumers :
          /\ pc[c] \notin ScanPC => retired_count[c] < RETIRE_LIMIT
          /\ pc[c] \in ScanPC =>
                new_count[c] <= i[c] /\ i[c] < retired_count[c] /\ retired_count[c] <= RETIRE_LIMIT
          /\ pc[c] = "scan_load" =>
                t[c] < n[c] /\ n[c] <= hp_thread_count /\ s[c] < HP_PER_THREAD

\* The entry a scan is about to free: whoever uses it published it in a slot
\* that the scan has still to load.
ScanInv ==
    \A c, d \in Consumers :
       Validated(d) /\ pc[c] \in {"scan_load", "scan_free"} /\ old_head[d] = retired[c][i[c]] =>
          /\ pc[c] = "scan_load"
          /\ tl_thread_id[d] < n[c]
          /\ t[c] < tl_thread_id[d] \/ (t[c] = tl_thread_id[d] /\ s[c] = 0)

\* What a consumer other than c has published or is about to publish.
Danger(c) ==
    {hp_table[tl_thread_id[d]][0] : d \in (Consumers \ {c}) \intersect Registered}
       \union {old_head[d] : d \in {e \in Consumers \ {c} : pc[e] = "pop_protect"}}

\* The entries of a scanned list that were kept or may still be kept.
AtRisk(c) ==
    (0 .. new_count[c] - 1)
       \union {k \in i[c] .. retired_count[c] - 1 : retired[c][k] \in Danger(c)}

\* Each other consumer publishes one node and may be about to publish another.
KeptLimit == 2 * (Cardinality(Consumers) - 1)

\* A scan keeps at most two entries for every other consumer.
KeepInv ==
    \A c \in Consumers :
       pc[c] \in ScanPC => Cardinality(AtRisk(c)) <= KeptLimit

\* The inductive invariant of hazard_pointer.c.
IInv ==
    /\ TypeOK
    /\ IdsInv
    /\ SlotsInv
    /\ OwnInv
    /\ PopInv
    /\ RangeInv
    /\ StackShape
    /\ ProtectedIsLive
    /\ RetiredOnce
    /\ ScanInv
    /\ KeepInv

-----------------------------------------------------------------------------
(* Thread ids and types.                                                   *)

\* A thread id is an index of hp_table, also the one the next thread gets.
LEMMA TidInIds ==
    ASSUME IdsInv
    PROVE  /\ hp_thread_count \in Nat
           /\ hp_thread_count <= MAX_THREADS
           /\ \A x \in Thread : pc[x] = "register" => hp_thread_count < MAX_THREADS
           /\ \A x \in Registered : tl_thread_id[x] \in Ids
<1>1. IsFiniteSet(Thread) /\ Registered \subseteq Thread
  BY ThreadsAssumption DEF Registered
<1>2. IsFiniteSet(Registered) /\ Cardinality(Registered) <= Cardinality(Thread)
  BY <1>1, FS_Subset
<1>3. hp_thread_count \in Nat /\ hp_thread_count <= MAX_THREADS
  BY <1>1, <1>2, FS_CardinalityType, ThreadsAssumption DEF IdsInv
<1>4. ASSUME NEW x \in Thread, pc[x] = "register"
      PROVE  hp_thread_count < MAX_THREADS
  <2>1. Registered # Thread
    BY <1>4 DEF Registered
  <2>2. Cardinality(Registered) < Cardinality(Thread)
    BY <1>1, <2>1, <1>2, FS_Subset, FS_CardinalityType
  <2>. QED  BY <2>2, <1>1, <1>2, FS_CardinalityType, ThreadsAssumption DEF IdsInv
<1>. QED  BY <1>3, <1>4, ThreadsAssumption DEF IdsInv, Ids

\* The part of TypeOK about the control state.
PcTypeOK ==
    /\ pc \in [Thread -> ProducerPC \union ConsumerPC]
    /\ \A p \in Producers : pc[p] \in ProducerPC
    /\ \A c \in Consumers : pc[c] \in ConsumerPC

\* A jump to a label of the thread's own code keeps pc well typed.
LEMMA GotoType ==
    ASSUME TypeOK, NEW x \in Thread, NEW label, Goto(x, label),
           x \in Producers => label \in ProducerPC,
           x \in Consumers => label \in ConsumerPC
    PROVE  PcTypeOK'
BY DEF TypeOK, PcTypeOK, Goto, Thread

\* So does the end of an iteration, and ops stays a natural number.
LEMMA EndIterationType ==
    ASSUME TypeOK, NEW x \in Thread, ops[x] > 0, EndIteration(x)
    PROVE  PcTypeOK' /\ ops' \in [Thread -> Nat]
<1>1. ops' \in [Thread -> Nat]
  BY DEF TypeOK, EndIteration
<1>2. /\ x \in Producers => LoopHead(x, ops[x] - 1) \in ProducerPC
      /\ x \in Consumers => LoopHead(x, ops[x] - 1) \in ConsumerPC
  BY ThreadsAssumption DEF LoopHead, ProducerPC, ConsumerPC
<1>. QED  BY <1>1, <1>2, GotoType DEF EndIteration

\* Every action keeps the variables in their types.
LEMMA TypeOKStep ==
    ASSUME IInv, [Next]_vars
    PROVE  TypeOK'
<1>. USE ConstantsAssumption DEF stackVars, threadVars, popVars, retireVars, scanVars
<1>1. TypeOK /\ PopInv /\ RangeInv /\ OwnInv /\ StackShape
  BY DEF IInv
<1>2. ASSUME NEW x \in Thread, Register(x)
      PROVE TypeOK'
  <2>1. PcTypeOK'
    <3>1. /\ x \in Producers => LoopHead(x, ops[x]) \in ProducerPC
          /\ x \in Consumers => LoopHead(x, ops[x]) \in ConsumerPC
      BY ThreadsAssumption DEF LoopHead, ProducerPC, ConsumerPC
    <3>. QED  BY <3>1, <1>1, <1>2, GotoType DEF Register
  <2>2. hp_table' \in [Ids -> [Slots -> Ptr]]
    BY <1>1, <1>2 DEF TypeOK, Register, Ptr
  <2>. QED  BY <2>1, <2>2, <1>1, <1>2 DEF TypeOK, PcTypeOK, Register
<1>3. ASSUME NEW p \in Producers, ProducerStep(p)
      PROVE TypeOK'
  <2>. p \in Thread  BY DEF Thread
  <2>1. CASE Malloc(p)
    <3>1. PcTypeOK'  BY <2>1, <1>1, GotoType, ThreadsAssumption DEF Malloc, ProducerPC
    <3>. QED  BY <3>1, <2>1, <1>1 DEF TypeOK, PcTypeOK, Malloc, Ptr, Status
  <2>2. CASE PushLoad(p)
    <3>1. PcTypeOK'  BY <2>2, <1>1, GotoType, ThreadsAssumption DEF PushLoad, ProducerPC
    <3>. QED  BY <3>1, <2>2, <1>1 DEF TypeOK, PcTypeOK, PushLoad
  <2>3. CASE PushLink(p)
    <3>1. PcTypeOK'  BY <2>3, <1>1, GotoType, ThreadsAssumption DEF PushLink, ProducerPC
    <3>. QED  BY <3>1, <2>3, <1>1 DEF TypeOK, PcTypeOK, PushLink
  <2>4. CASE PushCas(p)
    <3>1. PcTypeOK' /\ ops' \in [Thread -> Nat]
      BY <2>4, <1>1, EndIterationType DEF PushCas, RangeInv
    <3>. QED  BY <3>1, <2>4, <1>1 DEF TypeOK, PcTypeOK, PushCas, Status
  <2>5. CASE PushCasFails(p)
    <3>1. PcTypeOK'  BY <2>5, <1>1, GotoType, ThreadsAssumption DEF PushCasFails, ProducerPC
    <3>. QED  BY <3>1, <2>5, <1>1 DEF TypeOK, PcTypeOK, PushCasFails
  <2>. QED  BY <1>2, <1>3, <2>1, <2>2, <2>3, <2>4, <2>5 DEF ProducerStep
<1>4. ASSUME NEW c \in Consumers, PopStep(c)
      PROVE TypeOK'
  <2>. c \in Thread  BY DEF Thread
  <2>1. PcTypeOK'
    BY <1>4, <1>1, GotoType, ThreadsAssumption
    DEF PopStep, PopEmpty, PopLoad, PopProtect, PopValidate, PopNext, PopCas, PopCasFails,
        PopRelease, ConsumerPC
  <2>. USE DEF TypeOK, PcTypeOK
  <2>2. CASE PopEmpty(c)     BY <2>1, <2>2, <1>1 DEF PopEmpty, Ptr
  <2>3. CASE PopLoad(c)      BY <2>1, <2>3, <1>1 DEF PopLoad
  <2>4. CASE PopProtect(c)   BY <2>1, <2>4, <1>1 DEF PopProtect
  <2>5. CASE PopValidate(c)  BY <2>1, <2>5, <1>1 DEF PopValidate
  <2>6. CASE PopNext(c)      BY <2>1, <2>6, <1>1 DEF PopNext, PopInv
  <2>7. CASE PopCas(c)       BY <2>1, <2>7, <1>1 DEF PopCas, Status
  <2>8. CASE PopCasFails(c)  BY <2>1, <2>8, <1>1 DEF PopCasFails
  <2>9. CASE PopRelease(c)   BY <2>1, <2>9, <1>1 DEF PopRelease, Ptr
  <2>. QED
    BY <1>4, <2>2, <2>3, <2>4, <2>5, <2>6, <2>7, <2>8, <2>9 DEF PopStep
<1>5. ASSUME NEW c \in Consumers, RetireStep(c)
      PROVE TypeOK'
  <2>. c \in Thread  BY DEF Thread
  <2>1. ASSUME NEW k \in Nat, NextEntry(c, k), pc[c] \in ScanPC
        PROVE  /\ PcTypeOK'
               /\ ops' \in [Thread -> Nat]
               /\ retired_count' \in [Consumers -> Nat]
               /\ i' \in [Consumers -> Nat]
               /\ new_count' \in [Consumers -> Nat]
    <3>1. new_count' \in [Consumers -> Nat]
      BY <2>1, <1>1 DEF TypeOK, NextEntry
    <3>2. CASE i[c] + 1 < retired_count[c]
      <4>1. PcTypeOK'  BY <2>1, <3>2, <1>1, GotoType, ThreadsAssumption DEF NextEntry, ConsumerPC
      <4>2. i \in [Consumers -> Nat] /\ i' = [i EXCEPT ![c] = i[c] + 1]
        BY <3>2, <2>1, <1>1 DEF TypeOK, NextEntry
      <4>3. ops' = ops /\ retired_count' = retired_count
        BY <3>2, <2>1 DEF NextEntry
      <4>. QED  BY <4>1, <4>2, <4>3, <3>1, <1>1 DEF TypeOK
    <3>3. CASE ~ (i[c] + 1 < retired_count[c])
      <4>1. PcTypeOK' /\ ops' \in [Thread -> Nat]
        BY <2>1, <3>3, <1>1, EndIterationType DEF NextEntry, RangeInv, ScanPC
      <4>. QED  BY <4>1, <3>1, <3>3, <2>1, <1>1 DEF TypeOK, NextEntry
    <3>. QED  BY <3>2, <3>3
  <2>2. CASE Retire(c)
    <3>1. PcTypeOK' /\ ops' \in [Thread -> Nat]
      <4>1. CASE retired_count[c] + 1 < RETIRE_LIMIT
        BY <4>1, <2>2, <1>1, EndIterationType DEF Retire, RangeInv
      <4>2. CASE ~ (retired_count[c] + 1 < RETIRE_LIMIT)
        <5>1. PcTypeOK'
          BY <4>2, <2>2, <1>1, GotoType, ThreadsAssumption DEF Retire, ConsumerPC
        <5>. QED  BY <5>1, <4>2, <2>2, <1>1 DEF Retire, TypeOK
      <4>. QED  BY <4>1, <4>2
    <3>2. i' \in [Consumers -> Nat] /\ new_count' \in [Consumers -> Nat]
      <4>1. i \in [Consumers -> Nat] /\ new_count \in [Consumers -> Nat]
        BY <1>1 DEF TypeOK
      <4>2. \/ i' = i /\ new_count' = new_count
            \/ i' = [i EXCEPT ![c] = 0] /\ new_count' = [new_count EXCEPT ![c] = 0]
        BY <2>2 DEF Retire
      <4>. QED  BY <4>1, <4>2
    <3>3. retired' \in [Consumers -> [Indices -> Ptr]]
      <4>. DEFINE row == [retired[c] EXCEPT ![retired_count[c]] = node[c]]
      <4>1. row \in [Indices -> Ptr]
        BY <1>1 DEF TypeOK
      <4>2. retired' = [retired EXCEPT ![c] = row]
        BY <2>2 DEF Retire
      <4>. HIDE DEF row
      <4>. QED  BY <4>1, <4>2, <1>1 DEF TypeOK
    <3>4. retired_count' \in [Consumers -> Nat]
      <4>1. retired_count \in [Consumers -> Nat]
        BY <1>1 DEF TypeOK
      <4>. QED  BY <4>1, <2>2 DEF Retire
    <3>5. heap' \in [Addr -> Status]
      BY <2>2, <1>1 DEF Retire, TypeOK, Status
    <3>. QED  BY <3>1, <3>2, <3>3, <3>4, <3>5, <2>2, <1>1 DEF TypeOK, PcTypeOK, Retire
  <2>3. CASE ScanCount(c)
    <3>1. PcTypeOK'  BY <2>3, <1>1, GotoType, ThreadsAssumption DEF ScanCount, ConsumerPC
    <3>. QED  BY <3>1, <2>3, <1>1 DEF TypeOK, PcTypeOK, ScanCount
  <2>4. CASE ScanKeep(c)
    <3>1. i[c] \in Indices
      BY <2>4, <1>1 DEF TypeOK, RangeInv, ScanKeep, ScanPC, Indices
    <3>2. retired' \in [Consumers -> [Indices -> Ptr]]
      BY <2>4, <3>1, <1>1 DEF TypeOK, ScanKeep
    <3>3. new_count[c] + 1 \in Nat /\ pc[c] \in ScanPC
      BY <2>4, <1>1 DEF TypeOK, ScanKeep, ScanPC
    <3>. QED  BY <2>1, <2>4, <3>2, <3>3, <1>1 DEF TypeOK, PcTypeOK, ScanKeep
  <2>5. CASE ScanMiss(c)
    <3>1. PcTypeOK'
      <4>1. CASE s[c] + 1 < HP_PER_THREAD
        BY <4>1, <2>5, <1>1 DEF ScanMiss, TypeOK, PcTypeOK
      <4>2. CASE ~ (s[c] + 1 < HP_PER_THREAD)
        BY <4>2, <2>5, <1>1, GotoType, ThreadsAssumption DEF ScanMiss, ConsumerPC
      <4>. QED  BY <4>1, <4>2
    <3>2. s' \in [Consumers -> Nat] /\ t' \in [Consumers -> Nat]
      <4>1. s \in [Consumers -> Nat] /\ t \in [Consumers -> Nat]
        BY <1>1 DEF TypeOK
      <4>2. CASE s[c] + 1 < HP_PER_THREAD
        BY <4>1, <4>2, <2>5 DEF ScanMiss
      <4>3. CASE ~ (s[c] + 1 < HP_PER_THREAD)
        BY <4>1, <4>3, <2>5 DEF ScanMiss
      <4>. QED  BY <4>2, <4>3
    <3>. QED  BY <3>1, <3>2, <2>5, <1>1 DEF TypeOK, PcTypeOK, ScanMiss
  <2>6. CASE ScanFree(c)
    <3>1. new_count[c] \in Nat /\ pc[c] \in ScanPC
      BY <2>6, <1>1 DEF TypeOK, ScanFree, ScanPC
    <3>. QED  BY <2>1, <2>6, <3>1, <1>1 DEF TypeOK, PcTypeOK, ScanFree, Status
  <2>. QED  BY <1>5, <2>2, <2>3, <2>4, <2>5, <2>6 DEF RetireStep
<1>6. CASE UNCHANGED vars
  BY <1>6, <1>1 DEF TypeOK, vars
<1>. QED
  BY <1>2, <1>3, <1>4, <1>5, <1>6 DEF Next, ConsumerStep, Thread

-----------------------------------------------------------------------------
(* Thread ids.                                                             *)

\* Only Register assigns thread ids or makes a thread registered.
LEMMA OnlyRegister ==
    ASSUME TypeOK, [Next]_vars, \A x \in Thread : ~ Register(x)
    PROVE  UNCHANGED <<hp_thread_count, tl_thread_id>> /\ Registered' = Registered
<1>. USE DEF threadVars
<1>1. UNCHANGED <<hp_thread_count, tl_thread_id>>
  BY DEF Next, ProducerStep, ConsumerStep, PopStep, RetireStep, vars, Thread,
     Malloc, PushLoad, PushLink, PushCas, PushCasFails, PopEmpty, PopLoad, PopProtect,
     PopValidate, PopNext, PopCas, PopCasFails, PopRelease, Retire, ScanCount, ScanKeep,
     ScanMiss, ScanFree
<1>2. ASSUME NEW x \in Thread, NEW label, Goto(x, label),
             pc[x] # "register", label # "register"
      PROVE  Registered' = Registered
  BY <1>2 DEF TypeOK, Goto, Registered
<1>3. ASSUME NEW x \in Thread, EndIteration(x), pc[x] # "register"
      PROVE  Registered' = Registered
  BY <1>2, <1>3 DEF EndIteration, LoopHead
<1>4. ASSUME NEW p \in Producers, ProducerStep(p)
      PROVE  Registered' = Registered
  BY <1>2, <1>3, <1>4
  DEF Thread, ProducerStep, Malloc, PushLoad, PushLink, PushCas, PushCasFails
<1>5. ASSUME NEW c \in Consumers, PopStep(c)
      PROVE  Registered' = Registered
  BY <1>2, <1>5
  DEF Thread, PopStep, PopEmpty, PopLoad, PopProtect, PopValidate, PopNext, PopCas,
      PopCasFails, PopRelease
<1>6. ASSUME NEW c \in Consumers, RetireStep(c)
      PROVE  Registered' = Registered
  <2>1. ASSUME NEW k, NextEntry(c, k), pc[c] # "register"
        PROVE  Registered' = Registered
    BY <2>1, <1>2, <1>3 DEF NextEntry, Thread
  <2>2. CASE Retire(c)     BY <2>2, <1>2, <1>3 DEF Retire, Thread
  <2>3. CASE ScanCount(c)  BY <2>3, <1>2 DEF ScanCount, Thread
  <2>4. CASE ScanKeep(c)   BY <2>4, <2>1 DEF ScanKeep
  <2>5. CASE ScanMiss(c)
    <3>1. pc' = pc \/ Goto(c, "scan_load") \/ Goto(c, "scan_free")
      BY <2>5 DEF ScanMiss
    <3>. QED  BY <3>1, <2>5, <1>2 DEF ScanMiss, Thread, Registered
  <2>6. CASE ScanFree(c)   BY <2>6, <2>1 DEF ScanFree
  <2>. QED  BY <1>6, <2>2, <2>3, <2>4, <2>5, <2>6 DEF RetireStep
<1>7. CASE UNCHANGED vars
  BY <1>7 DEF vars, Registered
<1>. QED
  BY <1>1, <1>4, <1>5, <1>6, <1>7 DEF Next, ConsumerStep, Thread

\* Registration, the only action that hands out an id, keeps the ids apart.
LEMMA IdsInvStep ==
    ASSUME IInv, [Next]_vars
    PROVE  IdsInv'
<1>1. TypeOK /\ IdsInv
  BY DEF IInv
<1>2. IsFiniteSet(Registered) /\ Cardinality(Registered) \in Nat
  BY ThreadsAssumption, FS_Subset, FS_CardinalityType DEF Registered
<1>3. ASSUME NEW x \in Thread, Register(x)
      PROVE  IdsInv'
  <2>1. x \notin Registered /\ Registered' = Registered \union {x}
    BY <1>3, <1>1 DEF Register, Goto, LoopHead, TypeOK, Registered
  <2>2. Cardinality(Registered') = hp_thread_count + 1
    BY <2>1, <1>1, <1>2, FS_AddElement DEF IdsInv
  <2>3. hp_thread_count' = hp_thread_count + 1
    BY <1>3 DEF Register
  <2>4. tl_thread_id'[x] = hp_thread_count
    BY <1>3, <1>1 DEF Register, TypeOK
  <2>5. \A y \in Registered : tl_thread_id'[y] = tl_thread_id[y]
    BY <1>3, <1>1, <2>1 DEF Register, TypeOK, Registered
  <2>. QED  BY <2>1, <2>2, <2>3, <2>4, <2>5, <1>1 DEF IdsInv, TypeOK
<1>4. CASE \A x \in Thread : ~ Register(x)
  BY <1>4, <1>1, OnlyRegister DEF IdsInv
<1>. QED  BY <1>3, <1>4

-----------------------------------------------------------------------------
(* The stack.                                                              *)

\* The steps that change the stack or the life cycle of a node.
LEMMA StackSteps ==
    ASSUME [Next]_vars
    PROVE  \/ \E p \in Producers : Malloc(p) \/ PushLink(p) \/ PushCas(p)
           \/ \E c \in Consumers : PopCas(c) \/ Retire(c) \/ ScanFree(c)
           \/ UNCHANGED stackVars
BY DEF Next, ProducerStep, ConsumerStep, PopStep, RetireStep, vars, stackVars,
   Register, PushLoad, PushCasFails, PopEmpty, PopLoad, PopProtect, PopValidate, PopNext,
   PopCasFails, PopRelease, ScanCount, ScanKeep, ScanMiss

\* The entry a scan looks at is a retired node.
LEMMA ScannedEntry ==
    ASSUME IInv, NEW c \in Consumers, pc[c] \in ScanPC
    PROVE  /\ i[c] \in Indices /\ i[c] \in Pending(c)
           /\ retired[c][i[c]] \in Addr /\ heap[retired[c][i[c]]] = "retired"
<1>1. /\ new_count[c] \in Nat /\ i[c] \in Nat /\ retired_count[c] \in Nat
      /\ i[c] < retired_count[c] /\ retired_count[c] <= RETIRE_LIMIT
  BY DEF IInv, TypeOK, RangeInv
<1>2. i[c] \in Indices /\ i[c] \in Pending(c)
  BY <1>1, ConstantsAssumption DEF Pending, Indices
<1>. QED  BY <1>2 DEF IInv, RetiredOnce

\* A push puts a private node in front of the head, a pop unlinks the head:
\* both leave a list.
LEMMA StackShapeStep ==
    ASSUME IInv, [Next]_vars
    PROVE  StackShape'
<1>. USE ConstantsAssumption DEF StackShape, InStack
<1>1. TypeOK /\ StackShape /\ OwnInv /\ PopInv
  BY DEF IInv
<1>2. ASSUME NEW p \in Producers, Malloc(p)
      PROVE  StackShape'
  BY <1>1, <1>2 DEF TypeOK, Malloc
<1>3. ASSUME NEW p \in Producers, PushLink(p)
      PROVE  StackShape'
  BY <1>1, <1>3 DEF TypeOK, PushLink, OwnInv, Pushing
<1>4. ASSUME NEW p \in Producers, PushCas(p)
      PROVE  StackShape'
  <2>1. /\ node[p] \in Addr /\ heap[node[p]] = "private" /\ next[node[p]] = head
        /\ head' = node[p] /\ heap' = [heap EXCEPT ![node[p]] = "stack"] /\ next' = next
    BY <1>1, <1>4 DEF PushCas, OwnInv, Pushing
  <2>. QED  BY <2>1, <1>1 DEF TypeOK
<1>5. ASSUME NEW c \in Consumers, PopCas(c)
      PROVE  StackShape'
  <2>1. /\ head \in Addr /\ heap[head] = "stack" /\ next' = next
        /\ head' = next[head] /\ heap' = [heap EXCEPT ![head] = "popped"]
    BY <1>1, <1>5 DEF PopCas, PopInv
  <2>. QED  BY <2>1, <1>1 DEF TypeOK
<1>6. ASSUME NEW c \in Consumers, Retire(c)
      PROVE  StackShape'
  BY <1>1, <1>6 DEF TypeOK, Retire, OwnInv, Holding
<1>7. ASSUME NEW c \in Consumers, ScanFree(c)
      PROVE  StackShape'
  <2>1. retired[c][i[c]] \in Addr /\ heap[retired[c][i[c]]] = "retired"
    BY <1>7, ScannedEntry DEF ScanFree, ScanPC
  <2>. QED  BY <2>1, <1>1, <1>7 DEF TypeOK, ScanFree
<1>8. CASE UNCHANGED stackVars
  BY <1>1, <1>8 DEF stackVars
<1>. QED  BY <1>2, <1>3, <1>4, <1>5, <1>6, <1>7, <1>8, StackSteps

-----------------------------------------------------------------------------
(* Ownership and the locals of push and pop.                               *)

\* hp_retire stays in the scan or ends the iteration, and leaves the stack's
\* links and the locals of push and pop alone.
LEMMA RetireStepPc ==
    ASSUME TypeOK, NEW c \in Consumers, RetireStep(c)
    PROVE  /\ pc[c] \in {"retire"} \union ScanPC
           /\ \E label \in {"pop_load", "done"} \union ScanPC : pc' = [pc EXCEPT ![c] = label]
           /\ UNCHANGED <<head, next, popVars, threadVars>>
<1>. USE ThreadsAssumption DEF Goto, ScanPC
<1>1. ASSUME EndIteration(c)
      PROVE  \E label \in {"pop_load", "done"} : pc' = [pc EXCEPT ![c] = label]
  BY <1>1 DEF EndIteration, LoopHead
<1>2. ASSUME NEW k, NextEntry(c, k)
      PROVE  \E label \in {"pop_load", "done"} \union ScanPC : pc' = [pc EXCEPT ![c] = label]
  BY <1>1, <1>2 DEF NextEntry
<1>3. CASE Retire(c)     BY <1>3, <1>1 DEF Retire
<1>4. CASE ScanCount(c)  BY <1>4 DEF ScanCount, stackVars
<1>5. CASE ScanKeep(c)   BY <1>5, <1>2 DEF ScanKeep, stackVars
<1>6. CASE ScanMiss(c)
  <2>1. pc' = pc \/ Goto(c, "scan_load") \/ Goto(c, "scan_free")
    BY <1>6 DEF ScanMiss
  <2>2. pc' = pc => pc' = [pc EXCEPT ![c] = "scan_load"]
    BY <1>6 DEF ScanMiss, TypeOK
  <2>. QED  BY <2>1, <2>2, <1>6 DEF ScanMiss, stackVars
<1>7. CASE ScanFree(c)   BY <1>7, <1>2 DEF ScanFree
<1>. QED  BY <1>3, <1>4, <1>5, <1>6, <1>7 DEF RetireStep

\* No action gives a node that somebody pushes or holds to anybody else.
LEMMA OwnInvStep ==
    ASSUME IInv, [Next]_vars
    PROVE  OwnInv'
<1>. USE ThreadsAssumption, ConstantsAssumption DEF OwnInv, Pushing, Holding, Goto
<1>1. TypeOK /\ OwnInv /\ PopInv /\ StackShape
  BY DEF IInv
<1>2. ASSUME NEW p \in Producers, ProducerStep(p)
      PROVE  OwnInv'
  <2>. USE <1>1 DEF TypeOK, Thread
  <2>1. CASE Malloc(p)        BY <2>1 DEF Malloc
  <2>2. CASE PushLoad(p)      BY <2>2 DEF PushLoad, stackVars
  <2>3. CASE PushLink(p)      BY <2>3 DEF PushLink, popVars
  <2>4. CASE PushCas(p)       BY <2>4 DEF PushCas, EndIteration, LoopHead, popVars
  <2>5. CASE PushCasFails(p)  BY <2>5 DEF PushCasFails, stackVars, popVars
  <2>6. CASE Register(p)      BY <2>6 DEF Register, LoopHead, stackVars, popVars
  <2>. QED  BY <1>2, <2>1, <2>2, <2>3, <2>4, <2>5, <2>6 DEF ProducerStep
<1>3. ASSUME NEW c \in Consumers, PopStep(c)
      PROVE  OwnInv'
  <2>. USE <1>1 DEF TypeOK, Thread, stackVars, popVars
  <2>1. CASE PopEmpty(c)      BY <2>1 DEF PopEmpty
  <2>2. CASE PopLoad(c)       BY <2>2 DEF PopLoad
  <2>3. CASE PopProtect(c)    BY <2>3 DEF PopProtect
  <2>4. CASE PopValidate(c)   BY <2>4 DEF PopValidate
  <2>5. CASE PopNext(c)       BY <2>5 DEF PopNext
  <2>6. CASE PopCas(c)
    BY <2>6 DEF PopCas, PopInv, StackShape, InStack
  <2>7. CASE PopCasFails(c)   BY <2>7 DEF PopCasFails
  <2>8. CASE PopRelease(c)    BY <2>8 DEF PopRelease
  <2>. QED
    BY <1>3, <2>1, <2>2, <2>3, <2>4, <2>5, <2>6, <2>7, <2>8 DEF PopStep
<1>4. ASSUME NEW c \in Consumers, RetireStep(c)
      PROVE  OwnInv'
  <2>. USE <1>1 DEF Thread
  <2>1. PICK label \in {"pop_load", "done"} \union ScanPC : pc' = [pc EXCEPT ![c] = label]
    BY <1>4, RetireStepPc
  <2>2. UNCHANGED <<node, old_head, next>>
    BY <1>4, RetireStepPc DEF popVars
  <2>3. \A d \in Consumers : Holding(d)' => d # c /\ Holding(d)
    BY <2>1 DEF TypeOK, ScanPC
  <2>4. \A p \in Producers : pc'[p] = pc[p]
    BY <2>1 DEF TypeOK
  <2>5. CASE Retire(c)
    <3>1. heap' = [heap EXCEPT ![node[c]] = "retired"] /\ Holding(c)
      BY <2>5 DEF Retire
    <3>. QED  BY <3>1, <2>2, <2>3, <2>4 DEF TypeOK
  <2>6. CASE ScanFree(c)
    <3>1. /\ heap' = [heap EXCEPT ![retired[c][i[c]]] = "free"]
          /\ heap[retired[c][i[c]]] = "retired"
      BY <2>6, ScannedEntry DEF ScanFree, ScanPC
    <3>. QED  BY <3>1, <2>2, <2>3, <2>4 DEF TypeOK
  <2>7. CASE heap' = heap
    BY <2>7, <2>2, <2>3, <2>4
  <2>. QED
    BY <1>4, <2>5, <2>6, <2>7 DEF RetireStep, ScanCount, ScanKeep, ScanMiss, stackVars
<1>5. ASSUME NEW c \in Consumers, Register(c)
      PROVE  OwnInv'
  BY <1>5, <1>1 DEF Register, LoopHead, TypeOK, Thread, stackVars, popVars
<1>6. CASE UNCHANGED vars
  BY <1>1, <1>6 DEF vars, stackVars, popVars
<1>. QED
  BY <1>2, <1>3, <1>4, <1>5, <1>6 DEF Next, ConsumerStep

\* The successor hps_pop read stays current: the protected node is still
\* allocated, and only the owner of a private node writes a link.
LEMMA PopInvStep ==
    ASSUME IInv, [Next]_vars
    PROVE  PopInv'
<1>. USE ThreadsAssumption, ConstantsAssumption DEF PopInv, Goto
<1>1. TypeOK /\ OwnInv /\ PopInv /\ ProtectedIsLive
  BY DEF IInv
<1>2. ASSUME NEW p \in Producers, ProducerStep(p)
      PROVE  PopInv'
  <2>. USE <1>1 DEF TypeOK, Thread
  <2>1. CASE Malloc(p)        BY <2>1 DEF Malloc
  <2>2. CASE PushLoad(p)      BY <2>2 DEF PushLoad, stackVars
  <2>3. CASE PushLink(p)
    BY <2>3 DEF PushLink, popVars, OwnInv, Pushing, ProtectedIsLive, Validated
  <2>4. CASE PushCas(p)       BY <2>4 DEF PushCas, EndIteration, LoopHead, popVars
  <2>5. CASE PushCasFails(p)  BY <2>5 DEF PushCasFails, stackVars, popVars
  <2>6. CASE Register(p)      BY <2>6 DEF Register, LoopHead, stackVars, popVars
  <2>. QED  BY <1>2, <2>1, <2>2, <2>3, <2>4, <2>5, <2>6 DEF ProducerStep
<1>3. ASSUME NEW c \in Consumers, PopStep(c)
      PROVE  PopInv'
  <2>. USE <1>1 DEF TypeOK, Thread, stackVars, popVars
  <2>1. CASE PopEmpty(c)      BY <2>1 DEF PopEmpty
  <2>2. CASE PopLoad(c)       BY <2>2 DEF PopLoad, Ptr
  <2>3. CASE PopProtect(c)    BY <2>3 DEF PopProtect
  <2>4. CASE PopValidate(c)   BY <2>4 DEF PopValidate
  <2>5. CASE PopNext(c)       BY <2>5 DEF PopNext
  <2>6. CASE PopCas(c)        BY <2>6 DEF PopCas
  <2>7. CASE PopCasFails(c)   BY <2>7 DEF PopCasFails
  <2>8. CASE PopRelease(c)    BY <2>8 DEF PopRelease
  <2>. QED
    BY <1>3, <2>1, <2>2, <2>3, <2>4, <2>5, <2>6, <2>7, <2>8 DEF PopStep
<1>4. ASSUME NEW c \in Consumers, RetireStep(c)
      PROVE  PopInv'
  <2>1. PICK label \in {"pop_load", "done"} \union ScanPC : pc' = [pc EXCEPT ![c] = label]
    BY <1>1, <1>4, RetireStepPc
  <2>2. UNCHANGED <<new_next, old_head, next>>
    BY <1>1, <1>4, RetireStepPc DEF popVars
  <2>. QED  BY <2>1, <2>2, <1>1 DEF TypeOK, ScanPC
<1>5. ASSUME NEW c \in Consumers, Register(c)
      PROVE  PopInv'
  BY <1>5, <1>1 DEF Register, LoopHead, TypeOK, Thread, stackVars, popVars
<1>6. CASE UNCHANGED vars
  BY <1>1, <1>6 DEF vars, stackVars, popVars
<1>. QED
  BY <1>2, <1>3, <1>4, <1>5, <1>6 DEF Next, ConsumerStep

-----------------------------------------------------------------------------
(* The hazard pointer table.                                               *)

\* A hazard pointer is written by its owner only, in slot 0.
LEMMA SlotsInvStep ==
    ASSUME IInv, [Next]_vars
    PROVE  SlotsInv'
<1>. USE ThreadsAssumption, ConstantsAssumption DEF SlotsInv, Goto
<1>1. TypeOK /\ IdsInv /\ SlotsInv
  BY DEF IInv
<1>2. /\ \A x \in Registered : tl_thread_id[x] \in Ids /\ tl_thread_id[x] < hp_thread_count
      /\ hp_thread_count \in Nat
      /\ \A x \in Thread : pc[x] = "register" => hp_thread_count \in Ids
  BY <1>1, TidInIds DEF IdsInv, Ids
<1>3. 0 \in Slots
  BY DEF Slots
<1>4. ASSUME NEW x \in Thread, Register(x)
      PROVE  SlotsInv'
  <2>1. /\ Registered' = Registered \union {x} /\ x \notin Registered
        /\ \A y \in Registered : tl_thread_id'[y] = tl_thread_id[y] /\ pc'[y] = pc[y]
    BY <1>4, <1>1 DEF Register, LoopHead, TypeOK, Registered
  <2>2. \A id \in Ids, z \in Slots :
           hp_table'[id][z] = IF id = hp_thread_count THEN NULL ELSE hp_table[id][z]
    BY <1>4, <1>1, <1>2 DEF Register, TypeOK
  <2>3. \A id \in Ids, z \in Slots : hp_table'[id][z] # NULL =>
           z = 0 /\ \E c \in Consumers \intersect Registered : tl_thread_id[c] = id
    BY <2>2, <1>1
  <2>4. pc'[x] \in {"malloc", "pop_load", "done"}
    BY <1>4, <1>1 DEF Register, LoopHead, TypeOK
  <2>5. \A c \in Consumers \intersect Registered :
           hp_table'[tl_thread_id'[c]][0] = hp_table[tl_thread_id[c]][0]
    BY <2>1, <2>2, <1>2, <1>3
  <2>6. old_head' = old_head
    BY <1>4 DEF Register, popVars
  <2>7. \A c \in Consumers : c # x => pc'[c] = pc[c]
    BY <1>4, <1>1 DEF Register, TypeOK, Thread
  <2>8. \A c \in Consumers : c \notin Registered => pc[c] = "register"
    BY DEF Registered, Thread
  <2>. QED  BY <2>1, <2>3, <2>4, <2>5, <2>6, <2>7, <2>8, <1>1 DEF ScanPC
<1>5. ASSUME NEW c \in Consumers, NEW v, NEW label,
             c \in Registered, label # "register",
             pc' = [pc EXCEPT ![c] = label],
             hp_table' = [hp_table EXCEPT ![tl_thread_id[c]][0] = v],
             UNCHANGED <<hp_thread_count, tl_thread_id, old_head>>,
             label \in {"retire"} \union ScanPC => v = NULL,
             label \in {"pop_validate", "pop_next", "pop_cas"} => v = old_head[c]
      PROVE  SlotsInv'
  <2>1. Registered' = Registered
    BY <1>5, <1>1 DEF Registered, TypeOK
  <2>2. \A id \in Ids, z \in Slots :
           hp_table'[id][z] = IF id = tl_thread_id[c] /\ z = 0 THEN v ELSE hp_table[id][z]
    BY <1>5, <1>1, <1>2 DEF TypeOK
  <2>3. \A id \in Ids, z \in Slots : hp_table'[id][z] # NULL =>
           z = 0 /\ \E d \in Consumers \intersect Registered : tl_thread_id[d] = id
    BY <2>2, <1>1, <1>5
  <2>4. \A d \in Consumers \intersect Registered : d # c =>
           hp_table'[tl_thread_id[d]][0] = hp_table[tl_thread_id[d]][0]
    BY <2>2, <1>1, <1>2, <1>3, <1>5 DEF IdsInv
  <2>5. hp_table'[tl_thread_id[c]][0] = v
    BY <2>2, <1>2, <1>3, <1>5
  <2>6. \A d \in Consumers : d \notin Registered => pc[d] = "register"
    BY DEF Registered, Thread
  <2>7. \A d \in Consumers : pc'[d] = IF d = c THEN label ELSE pc[d]
    BY <1>5, <1>1 DEF TypeOK, Thread
  <2>. QED  BY <2>1, <2>3, <2>4, <2>5, <2>6, <2>7, <1>5, <1>1 DEF ScanPC
<1>6. ASSUME NEW x \in Thread, NEW label, label # "register", pc[x] # "register",
             pc' = [pc EXCEPT ![x] = label], UNCHANGED threadVars,
             \A c \in Consumers : old_head'[c] = old_head[c] \/ (c = x /\ label \in {"pop_load", "pop_protect"}),
             x \in Consumers /\ label \in {"retire"} \union ScanPC =>
                pc[x] \in {"retire"} \union ScanPC,
             x \in Consumers /\ label \in {"pop_validate", "pop_next", "pop_cas"} =>
                pc[x] \in {"pop_validate", "pop_next", "pop_cas"}
      PROVE  SlotsInv'
  <2>1. Registered' = Registered
    BY <1>6, <1>1 DEF Registered, TypeOK
  <2>2. \A d \in Consumers : pc'[d] = IF d = x THEN label ELSE pc[d]
    BY <1>6, <1>1 DEF TypeOK, Thread
  <2>. QED  BY <2>1, <2>2, <1>6, <1>1 DEF threadVars, ScanPC
<1>7. ASSUME NEW p \in Producers, ProducerStep(p)
      PROVE  SlotsInv'
  <2>1. CASE Register(p)
    BY <2>1, <1>4 DEF Thread
  <2>2. CASE ~ Register(p)
    <3>1. \E label \in {"malloc", "push_load", "push_link", "push_cas", "done"} :
             pc' = [pc EXCEPT ![p] = label]
      BY <2>2, <1>7 DEF ProducerStep, Malloc, PushLoad, PushLink, PushCas, PushCasFails,
         EndIteration, LoopHead
    <3>2. /\ pc[p] # "register" /\ UNCHANGED threadVars
          /\ \A c \in Consumers : old_head'[c] = old_head[c]
      BY <2>2, <1>7, <1>1 DEF ProducerStep, Malloc, PushLoad, PushLink, PushCas, PushCasFails,
         popVars, TypeOK, Thread
    <3>. QED  BY <3>1, <3>2, <1>6 DEF Thread
  <2>. QED  BY <2>1, <2>2
<1>8. ASSUME NEW c \in Consumers, PopStep(c)
      PROVE  SlotsInv'
  <2>. c \in Thread  BY DEF Thread
  <2>. USE DEF TypeOK, popVars, ScanPC
  <2>1. CASE PopProtect(c)
    BY <2>1, <1>5 DEF PopProtect, Registered
  <2>2. CASE PopRelease(c)
    BY <2>2, <1>5 DEF PopRelease, Registered
  <2>3. CASE PopEmpty(c)      BY <2>3, <1>1, <1>6 DEF PopEmpty, Thread
  <2>4. CASE PopLoad(c)       BY <2>4, <1>1, <1>6 DEF PopLoad, Thread
  <2>5. CASE PopValidate(c)   BY <2>5, <1>6 DEF PopValidate
  <2>6. CASE PopNext(c)       BY <2>6, <1>6 DEF PopNext
  <2>7. CASE PopCas(c)        BY <2>7, <1>6 DEF PopCas
  <2>8. CASE PopCasFails(c)   BY <2>8, <1>6 DEF PopCasFails
  <2>. QED
    BY <1>8, <2>1, <2>2, <2>3, <2>4, <2>5, <2>6, <2>7, <2>8 DEF PopStep
<1>9. ASSUME NEW c \in Consumers, RetireStep(c)
      PROVE  SlotsInv'
  <2>1. PICK label \in {"pop_load", "done"} \union ScanPC : pc' = [pc EXCEPT ![c] = label]
    BY <1>9, <1>1, RetireStepPc
  <2>2. pc[c] \in {"retire"} \union ScanPC /\ UNCHANGED <<old_head, threadVars>>
    BY <1>9, <1>1, RetireStepPc DEF popVars
  <2>. QED  BY <2>1, <2>2, <1>6 DEF Thread, ScanPC
<1>10. CASE UNCHANGED vars
  BY <1>1, <1>10 DEF vars, threadVars, popVars, Registered
<1>. QED
  BY <1>4, <1>7, <1>8, <1>9, <1>10 DEF Next, ConsumerStep, Thread

-----------------------------------------------------------------------------
(* What a scan keeps.                                                      *)

\* The values of an operator on a finite set are at most as many as its
\* arguments.
LEMMA ImageBound ==
    ASSUME NEW S, IsFiniteSet(S), NEW T, NEW f \in Surjection(S, T)
    PROVE  IsFiniteSet(T) /\ Cardinality(T) \in Nat /\ Cardinality(T) <= Cardinality(S)
BY FS_Surjection, FS_CardinalityType

\* There are m numbers below m.
LEMMA FirstNumbers ==
    ASSUME NEW k \in Nat
    PROVE  IsFiniteSet(0 .. k - 1) /\ Cardinality(0 .. k - 1) = k
<1>1. 0 \in Int /\ k - 1 \in Int
  OBVIOUS
<1>2. /\ IsFiniteSet(0 .. (k - 1))
      /\ Cardinality(0 .. (k - 1)) = IF 0 > (k - 1) THEN 0 ELSE (k - 1) - 0 + 1
  BY <1>1, FS_Interval, Zenon
<1>. QED  BY <1>2

\* The other consumers publish, or are about to publish, at most two nodes each.
LEMMA DangerBound ==
    ASSUME NEW c \in Consumers
    PROVE  IsFiniteSet(Danger(c)) /\ Cardinality(Danger(c)) \in Nat
             /\ Cardinality(Danger(c)) <= KeptLimit
<1>. DEFINE Others == Consumers \ {c}
            A == Others \intersect Registered
            B == {e \in Others : pc[e] = "pop_protect"}
            f == [d \in A |-> hp_table[tl_thread_id[d]][0]]
            g == [d \in B |-> old_head[d]]
            F == {f[d] : d \in A}
            G == {g[d] : d \in B}
<1>1. IsFiniteSet(Consumers)
  BY ThreadsAssumption, FS_Subset DEF Thread
<1>2. IsFiniteSet(Others) /\ Cardinality(Others) = Cardinality(Consumers) - 1
        /\ Cardinality(Others) \in Nat
  BY <1>1, FS_RemoveElement, FS_CardinalityType
<1>3. IsFiniteSet(A) /\ Cardinality(A) <= Cardinality(Others) /\ Cardinality(A) \in Nat
  BY <1>2, FS_Subset, FS_CardinalityType
<1>4. IsFiniteSet(B) /\ Cardinality(B) <= Cardinality(Others) /\ Cardinality(B) \in Nat
  BY <1>2, FS_Subset, FS_CardinalityType
<1>5. f \in Surjection(A, F) /\ g \in Surjection(B, G)
  BY DEF Surjection
<1>8. Danger(c) = F \union G
  BY DEF Danger
<1>. HIDE DEF f, g
<1>6. IsFiniteSet(F) /\ Cardinality(F) <= Cardinality(A) /\ Cardinality(F) \in Nat
  BY <1>3, <1>5, ImageBound
<1>7. IsFiniteSet(G) /\ Cardinality(G) <= Cardinality(B) /\ Cardinality(G) \in Nat
  BY <1>4, <1>5, ImageBound
<1>9. IsFiniteSet(F \intersect G) /\ Cardinality(F \intersect G) \in Nat
  BY <1>6, FS_Intersection, FS_CardinalityType
<1>10. /\ IsFiniteSet(F \union G)
       /\ Cardinality(F \union G) = Cardinality(F) + Cardinality(G) - Cardinality(F \intersect G)
  BY <1>6, <1>7, FS_Union
<1>. HIDE DEF F, G, A, B, Others
<1>11. Cardinality(F \union G) \in Nat
  BY <1>10, FS_CardinalityType
<1>. QED  BY <1>2, <1>3, <1>4, <1>6, <1>7, <1>8, <1>9, <1>10, <1>11, FS_CardinalityType, <1>1 DEF KeptLimit

\* The entries at risk are finitely many: KeepInv speaks of their number.
LEMMA AtRiskFinite ==
    ASSUME TypeOK, NEW c \in Consumers
    PROVE  IsFiniteSet(AtRisk(c)) /\ Cardinality(AtRisk(c)) \in Nat
<1>1. new_count[c] \in Nat /\ i[c] \in Nat /\ retired_count[c] \in Nat
  BY DEF TypeOK
<1>2. IsFiniteSet((0 .. new_count[c] - 1) \union (0 .. retired_count[c] - 1))
  BY <1>1, FirstNumbers, FS_Union
<1>3. AtRisk(c) \subseteq (0 .. new_count[c] - 1) \union (0 .. retired_count[c] - 1)
  BY <1>1 DEF AtRisk
<1>. QED  BY <1>2, <1>3, FS_Subset, FS_CardinalityType

\* An entry that hp_is_protected finds in a slot was at risk before, and
\* keeping it does not exceed the limit.
LEMMA KeepBound ==
    ASSUME IInv, NEW c \in Consumers, ScanKeep(c)
    PROVE  i[c] \in AtRisk(c) /\ new_count[c] + 1 <= KeptLimit
<1>1. /\ TypeOK /\ IdsInv /\ SlotsInv /\ RangeInv /\ KeepInv
      /\ pc[c] = "scan_load" /\ pc[c] \in ScanPC
      /\ hp_table[t[c]][s[c]] = retired[c][i[c]]
  BY DEF IInv, ScanKeep, ScanPC
<1>2. retired[c][i[c]] \in Addr
  BY <1>1, ScannedEntry
<1>3. t[c] \in Ids /\ s[c] \in Slots
  BY <1>1, TidInIds, ThreadsAssumption, ConstantsAssumption DEF RangeInv, TypeOK, Ids, Slots
<1>4. PICK d \in Consumers \intersect Registered : s[c] = 0 /\ tl_thread_id[d] = t[c]
  BY <1>1, <1>2, <1>3, ConstantsAssumption DEF SlotsInv
<1>5. d # c
  BY <1>1, <1>2, <1>4, ConstantsAssumption DEF SlotsInv
<1>6. retired[c][i[c]] \in Danger(c)
  BY <1>1, <1>4, <1>5 DEF Danger
<1>7. /\ new_count[c] \in Nat /\ i[c] \in Nat /\ retired_count[c] \in Nat
      /\ new_count[c] <= i[c] /\ i[c] < retired_count[c]
  BY <1>1 DEF TypeOK, RangeInv
<1>8. i[c] \in AtRisk(c) /\ (0 .. new_count[c] - 1) \union {i[c]} \subseteq AtRisk(c)
  BY <1>6, <1>7 DEF AtRisk
<1>9. /\ IsFiniteSet(0 .. new_count[c] - 1)
      /\ Cardinality(0 .. new_count[c] - 1) = new_count[c]
      /\ i[c] \notin 0 .. new_count[c] - 1
  BY <1>7, FirstNumbers
<1>10. Cardinality((0 .. new_count[c] - 1) \union {i[c]}) = new_count[c] + 1
  BY <1>9, FS_AddElement
<1>11. new_count[c] + 1 <= Cardinality(AtRisk(c))
  BY <1>1, <1>8, <1>10, AtRiskFinite, FS_Subset
<1>12. Cardinality(AtRisk(c)) <= KeptLimit
  BY <1>1 DEF KeepInv
<1>. QED
  BY <1>7, <1>8, <1>11, <1>12, <1>1, AtRiskFinite, FS_CardinalityType, ThreadsAssumption, FS_Subset
  DEF KeptLimit, Thread

\* What the bound proofs ask of RETIRE_LIMIT; the code has 64 > 2 * 15, for at
\* most 16 threads can register.
RetireLimitSuffices == RETIRE_LIMIT > KeptLimit

\* The scan moves forward inside the list, and when it ends it has kept at
\* most KeptLimit entries: the next call of hp_retire finds a place.
LEMMA RangeInvStep ==
    ASSUME RetireLimitSuffices, IInv, [Next]_vars
    PROVE  RangeInv'
<1>. USE ThreadsAssumption, ConstantsAssumption DEF Goto
<1>1. TypeOK /\ IdsInv /\ RangeInv
  BY DEF IInv
<1>2. IsFiniteSet(Consumers) /\ KeptLimit \in Int
  BY ThreadsAssumption, FS_Subset, FS_CardinalityType DEF Thread, KeptLimit
\* The locals of hp_retire do not change and their thread does not enter it.
<1>3. ASSUME NEW x \in Thread, NEW label,
             pc' = [pc EXCEPT ![x] = label], label \notin ScanPC, pc[x] \notin ScanPC,
             UNCHANGED <<retireVars, scanVars>>,
             hp_thread_count' \in Nat, hp_thread_count <= hp_thread_count',
             \A y \in Thread : y # x => ops'[y] = ops[y],
             label \notin {"register", "done"} => ops'[x] > 0
      PROVE  RangeInv'
  <2>1. \A y \in Thread : pc'[y] = IF y = x THEN label ELSE pc[y]
    BY <1>3, <1>1 DEF TypeOK, RangeInv
  <2>2. \A c \in Consumers : c \in Thread
    BY DEF Thread
  <2>3. \A c \in Consumers : pc'[c] \in ScanPC => pc'[c] = pc[c] /\ c # x
    BY <2>1, <2>2, <1>3
  <2>4. \A y \in Thread : pc'[y] \notin {"register", "done"} => ops'[y] > 0
    BY <2>1, <1>3, <1>1 DEF RangeInv
  <2>5. UNCHANGED <<retired_count, i, new_count, n, t, s>>
    BY <1>3 DEF retireVars, scanVars
  <2>6. ASSUME NEW c \in Consumers, pc[c] = "scan_load"
        PROVE  n[c] <= hp_thread_count'
    BY <2>6, <1>1, <1>3 DEF TypeOK, RangeInv
  <2>. QED  BY <2>1, <2>2, <2>3, <2>4, <2>5, <2>6, <1>3, <1>1 DEF ScanPC, RangeInv
<1>4. ASSUME NEW x \in Thread, EndIteration(x), pc[x] \notin {"register", "done"}
      PROVE  /\ \E label \in {"malloc", "pop_load", "done"} : pc' = [pc EXCEPT ![x] = label]
             /\ \A y \in Thread : y # x => ops'[y] = ops[y]
             /\ pc'[x] # "done" => ops'[x] > 0
             /\ \A y \in Thread : pc'[y] \notin {"register", "done"} => ops'[y] > 0
  <2>1. ops[x] \in Nat /\ ops[x] > 0 /\ ops' = [ops EXCEPT ![x] = ops[x] - 1]
    BY <1>4, <1>1 DEF EndIteration, TypeOK, RangeInv
  <2>2. pc' = [pc EXCEPT ![x] = LoopHead(x, ops[x] - 1)]
    BY <1>4 DEF EndIteration
  <2>3. LoopHead(x, ops[x] - 1) \in {"malloc", "pop_load", "done"}
          /\ (LoopHead(x, ops[x] - 1) # "done" => ops[x] - 1 > 0)
    BY <2>1 DEF LoopHead
  <2>4. \A y \in Thread : y # x => ops'[y] = ops[y] /\ pc'[y] = pc[y]
    BY <2>1, <2>2, <1>1 DEF TypeOK, RangeInv
  <2>5. ops'[x] = ops[x] - 1 /\ pc'[x] = LoopHead(x, ops[x] - 1)
    BY <2>1, <2>2, <1>1 DEF TypeOK, RangeInv
  <2>. QED  BY <2>1, <2>2, <2>3, <2>4, <2>5, <1>1 DEF RangeInv
<1>5. ASSUME NEW x \in Thread, Register(x)
      PROVE  RangeInv'
  <2>1. LoopHead(x, ops[x]) \in {"malloc", "pop_load", "done"}
          /\ (LoopHead(x, ops[x]) # "done" => ops[x] > 0)
    BY <1>1 DEF LoopHead, TypeOK, RangeInv
  <2>2. hp_thread_count' \in Nat /\ hp_thread_count <= hp_thread_count'
    BY <1>5, <1>1 DEF Register, TypeOK, RangeInv
  <2>. QED  BY <2>1, <2>2, <1>3, <1>5 DEF Register, ScanPC
\* A jump within push or pop.
<1>6. ASSUME NEW x \in Thread, NEW label,
             pc' = [pc EXCEPT ![x] = label], label \notin ScanPC,
             pc[x] \notin {"register", "done"} \union ScanPC,
             UNCHANGED <<retireVars, scanVars, ops, hp_thread_count>>
      PROVE  RangeInv'
  <2>1. hp_thread_count \in Nat /\ ops[x] > 0
    BY <1>1, <1>6 DEF TypeOK, RangeInv
  <2>2. hp_thread_count' \in Nat /\ hp_thread_count <= hp_thread_count' /\ ops'[x] > 0
    BY <1>6, <2>1
  <2>. QED  BY <1>3, <1>6, <2>2
<1>7. ASSUME NEW p \in Producers, ProducerStep(p)
      PROVE  RangeInv'
  <2>. p \in Thread  BY DEF Thread
  <2>. USE DEF threadVars, ScanPC
  <2>1. CASE Register(p)      BY <2>1, <1>5
  <2>2. CASE Malloc(p)        BY <2>2, <1>6 DEF Malloc
  <2>3. CASE PushLoad(p)      BY <2>3, <1>6 DEF PushLoad
  <2>4. CASE PushLink(p)      BY <2>4, <1>6 DEF PushLink
  <2>5. CASE PushCas(p)
    <3>1. /\ pc[p] = "push_cas" /\ EndIteration(p)
          /\ UNCHANGED <<retireVars, scanVars, hp_thread_count>>
      BY <2>5 DEF PushCas
    <3>2. PICK label \in {"malloc", "pop_load", "done"} : pc' = [pc EXCEPT ![p] = label]
      BY <3>1, <1>4
    <3>3. (label # "done" => ops'[p] > 0) /\ \A y \in Thread : y # p => ops'[y] = ops[y]
      BY <3>1, <3>2, <1>4, <1>1 DEF TypeOK
    <3>4. hp_thread_count' \in Nat /\ hp_thread_count <= hp_thread_count'
      BY <3>1, <1>1 DEF TypeOK
    <3>5. pc[p] \notin ScanPC /\ label \notin ScanPC
      BY <3>1, <3>2
    <3>6. UNCHANGED <<retireVars, scanVars>>
      BY <3>1
    <3>. HIDE DEF ScanPC
    <3>. QED  BY <3>2, <3>3, <3>4, <3>5, <3>6, <1>3
  <2>6. CASE PushCasFails(p)  BY <2>6, <1>6 DEF PushCasFails
  <2>. QED  BY <1>7, <2>1, <2>2, <2>3, <2>4, <2>5, <2>6 DEF ProducerStep
<1>8. ASSUME NEW c \in Consumers, PopStep(c)
      PROVE  RangeInv'
  <2>. c \in Thread  BY DEF Thread
  <2>. USE DEF threadVars, ScanPC
  <2>1. CASE PopEmpty(c)      BY <2>1, <1>6 DEF PopEmpty
  <2>2. CASE PopLoad(c)       BY <2>2, <1>6 DEF PopLoad
  <2>3. CASE PopProtect(c)    BY <2>3, <1>6 DEF PopProtect
  <2>4. CASE PopValidate(c)   BY <2>4, <1>6 DEF PopValidate
  <2>5. CASE PopNext(c)       BY <2>5, <1>6 DEF PopNext
  <2>6. CASE PopCas(c)        BY <2>6, <1>6 DEF PopCas
  <2>7. CASE PopCasFails(c)   BY <2>7, <1>6 DEF PopCasFails
  <2>8. CASE PopRelease(c)    BY <2>8, <1>6 DEF PopRelease
  <2>. QED
    BY <1>8, <2>1, <2>2, <2>3, <2>4, <2>5, <2>6, <2>7, <2>8 DEF PopStep
<1>9. ASSUME NEW c \in Consumers, RetireStep(c)
      PROVE  RangeInv'
  <2>. c \in Thread  BY DEF Thread
  <2>1. /\ retired_count \in [Consumers -> Nat] /\ i \in [Consumers -> Nat]
        /\ new_count \in [Consumers -> Nat] /\ n \in [Consumers -> Nat]
        /\ t \in [Consumers -> Nat] /\ s \in [Consumers -> Nat]
        /\ pc \in [Thread -> ProducerPC \union ConsumerPC] /\ hp_thread_count \in Nat
    BY <1>1 DEF TypeOK, RangeInv
  <2>2. hp_thread_count' = hp_thread_count
    BY <1>9, <1>1, RetireStepPc DEF threadVars, RangeInv
  <2>. USE DEF ScanPC
\* Leaving hp_retire with k entries.
  <2>3. ASSUME NEW k \in Nat, k < RETIRE_LIMIT, EndIteration(c),
               pc[c] \in {"retire"} \union ScanPC,
               retired_count'[c] = k,
               \A d \in Consumers : d # c =>
                  /\ retired_count'[d] = retired_count[d] /\ i'[d] = i[d]
                  /\ new_count'[d] = new_count[d] /\ n'[d] = n[d]
                  /\ t'[d] = t[d] /\ s'[d] = s[d]
        PROVE  RangeInv'
    <3>1. \A y \in Thread : y # c => pc'[y] = pc[y]
      BY <2>3, <2>1, <1>4 DEF EndIteration
    <3>2. pc'[c] \in {"malloc", "pop_load", "done"}
      BY <2>3, <2>1, <1>4
    <3>. QED  BY <2>2, <2>3, <3>1, <3>2, <1>1, <1>4 DEF Thread, RangeInv
\* Going on with the next entry of the scan.
  <2>4. ASSUME NEW label \in ScanPC, pc' = [pc EXCEPT ![c] = label],
               ops' = ops, pc[c] \in {"retire"} \union ScanPC,
               new_count'[c] <= i'[c], i'[c] < retired_count'[c],
               retired_count'[c] <= RETIRE_LIMIT,
               label = "scan_load" =>
                  t'[c] < n'[c] /\ n'[c] <= hp_thread_count /\ s'[c] < HP_PER_THREAD,
               \A d \in Consumers : d # c =>
                  /\ retired_count'[d] = retired_count[d] /\ i'[d] = i[d]
                  /\ new_count'[d] = new_count[d] /\ n'[d] = n[d]
                  /\ t'[d] = t[d] /\ s'[d] = s[d]
        PROVE  RangeInv'
    <3>1. \A y \in Thread : pc'[y] = IF y = c THEN label ELSE pc[y]
      BY <2>4, <2>1
    <3>. QED  BY <2>2, <2>4, <3>1, <1>1 DEF Thread, RangeInv
\* NextEntry with at most i + 1 entries kept.
  <2>5. ASSUME NEW k \in Nat, NextEntry(c, k), k <= i[c] + 1, k < RETIRE_LIMIT,
               pc[c] \in ScanPC, UNCHANGED <<n, t, s>>
        PROVE  RangeInv'
    <3>1. new_count' = [new_count EXCEPT ![c] = k]
      BY <2>5 DEF NextEntry
    <3>2. CASE i[c] + 1 < retired_count[c]
      <4>1. /\ i' = [i EXCEPT ![c] = i[c] + 1] /\ pc' = [pc EXCEPT ![c] = "scan_count"]
            /\ retired_count' = retired_count /\ ops' = ops
        BY <3>2, <2>5 DEF NextEntry
      <4>. QED  BY <4>1, <3>1, <3>2, <2>1, <2>4, <2>5, <1>1 DEF RangeInv
    <3>3. CASE ~ (i[c] + 1 < retired_count[c])
      <4>1. /\ retired_count' = [retired_count EXCEPT ![c] = k]
            /\ EndIteration(c) /\ i' = i
        BY <3>3, <2>5 DEF NextEntry
      <4>. QED  BY <4>1, <3>1, <2>1, <2>3, <2>5
    <3>. QED  BY <3>2, <3>3
  <2>6. CASE Retire(c)
    <3>1. /\ retired_count' = [retired_count EXCEPT ![c] = retired_count[c] + 1]
          /\ pc[c] = "retire" /\ UNCHANGED <<n, t, s>>
      BY <2>6 DEF Retire
    <3>2. retired_count[c] < RETIRE_LIMIT
      BY <3>1, <1>1 DEF RangeInv
    <3>3. CASE retired_count[c] + 1 < RETIRE_LIMIT
      <4>1. EndIteration(c) /\ UNCHANGED <<i, new_count>>
        BY <3>3, <2>6 DEF Retire
      <4>. QED  BY <4>1, <3>1, <3>3, <2>1, <2>3
    <3>4. CASE ~ (retired_count[c] + 1 < RETIRE_LIMIT)
      <4>1. /\ i' = [i EXCEPT ![c] = 0] /\ new_count' = [new_count EXCEPT ![c] = 0]
            /\ pc' = [pc EXCEPT ![c] = "scan_count"] /\ ops' = ops
        BY <3>4, <2>6 DEF Retire
      <4>2. retired_count'[c] = retired_count[c] + 1 /\ i'[c] = 0 /\ new_count'[c] = 0
        BY <4>1, <3>1, <2>1
      <4>. QED  BY <4>1, <4>2, <3>1, <3>2, <2>1, <2>4
    <3>. QED  BY <3>3, <3>4
  <2>7. CASE ScanCount(c)
    <3>1. c \in Registered
      BY <2>7 DEF ScanCount, Registered
    <3>2. hp_thread_count > 0
      BY <3>1, <2>1, <1>1 DEF IdsInv, RangeInv
    <3>3. /\ n' = [n EXCEPT ![c] = hp_thread_count] /\ t' = [t EXCEPT ![c] = 0]
          /\ s' = [s EXCEPT ![c] = 0] /\ pc[c] = "scan_count"
          /\ pc' = [pc EXCEPT ![c] = "scan_load"]
          /\ UNCHANGED <<ops, i, new_count, retired_count>>
      BY <2>7 DEF ScanCount, retireVars
    <3>. QED  BY <3>2, <3>3, <2>1, <2>4, <1>1 DEF RangeInv
  <2>8. CASE ScanKeep(c)
    <3>1. pc[c] = "scan_load" /\ NextEntry(c, new_count[c] + 1) /\ UNCHANGED <<n, t, s>>
      BY <2>8 DEF ScanKeep
    <3>2. new_count[c] + 1 < RETIRE_LIMIT
      BY <2>8, <2>1, <1>2, KeepBound DEF RetireLimitSuffices
    <3>. QED  BY <3>1, <3>2, <2>1, <2>5, <1>1 DEF RangeInv
  <2>9. CASE ScanMiss(c)
    <3>1. pc[c] = "scan_load" /\ UNCHANGED <<ops, i, new_count, retired_count, n>>
      BY <2>9 DEF ScanMiss, retireVars
    <3>2. CASE s[c] + 1 < HP_PER_THREAD
      <4>1. s' = [s EXCEPT ![c] = s[c] + 1] /\ t' = t /\ pc' = [pc EXCEPT ![c] = "scan_load"]
        BY <3>2, <3>1, <2>9, <2>1 DEF ScanMiss
      <4>. QED  BY <4>1, <3>1, <3>2, <2>1, <2>4, <1>1 DEF RangeInv
    <3>3. CASE ~ (s[c] + 1 < HP_PER_THREAD)
      <4>1. /\ s' = [s EXCEPT ![c] = 0] /\ t' = [t EXCEPT ![c] = t[c] + 1]
            /\ pc' = [pc EXCEPT ![c] = IF t[c] + 1 < n[c] THEN "scan_load" ELSE "scan_free"]
        BY <3>3, <2>9 DEF ScanMiss
      <4>2. s'[c] = 0 /\ 0 < HP_PER_THREAD /\ t'[c] = t[c] + 1
        BY <4>1, <2>1
      <4>3. CASE t[c] + 1 < n[c]
        BY <4>1, <4>2, <4>3, <3>1, <2>1, <2>4, <1>1 DEF RangeInv
      <4>4. CASE ~ (t[c] + 1 < n[c])
        BY <4>1, <4>2, <4>4, <3>1, <2>1, <2>4, <1>1 DEF RangeInv
      <4>. QED  BY <4>3, <4>4
    <3>. QED  BY <3>2, <3>3
  <2>10. CASE ScanFree(c)
    <3>1. pc[c] = "scan_free" /\ NextEntry(c, new_count[c]) /\ UNCHANGED <<n, t, s>>
      BY <2>10 DEF ScanFree
    <3>. QED  BY <3>1, <2>1, <2>5, <1>1 DEF RangeInv
  <2>. QED  BY <1>9, <2>6, <2>7, <2>8, <2>9, <2>10 DEF RetireStep
<1>10. CASE UNCHANGED vars
  BY <1>10, <1>1 DEF vars, threadVars, retireVars, scanVars, RangeInv
<1>. QED
  BY <1>5, <1>7, <1>8, <1>9, <1>10 DEF Next, ConsumerStep, Thread

-----------------------------------------------------------------------------
(* No use after free.                                                      *)

\* Validated consumers stay validated on the same node, or have just seen it
\* at the head.
LEMMA ValidatedStep ==
    ASSUME IInv, [Next]_vars, NEW d \in Consumers, Validated(d)'
    PROVE  /\ old_head'[d] = old_head[d] /\ old_head[d] \in Addr
           /\ d \in Registered /\ tl_thread_id'[d] = tl_thread_id[d]
           /\ \/ Validated(d)
              \/ PopValidate(d) /\ head = old_head[d]
<1>. USE ThreadsAssumption DEF Goto
<1>1. TypeOK /\ PopInv /\ pc'[d] \in {"pop_next", "pop_cas"} /\ d \in Thread
  BY DEF IInv, Validated, Thread
<1>2. ASSUME NEW x \in Thread, NEW label,
             pc' = [pc EXCEPT ![x] = label], label \notin {"pop_next", "pop_cas"}
      PROVE  x # d /\ pc'[d] = pc[d]
  BY <1>1, <1>2 DEF TypeOK
<1>3. ASSUME NEW x \in Thread, EndIteration(x)
      PROVE  x # d /\ pc'[d] = pc[d]
  <2>1. LoopHead(x, ops[x] - 1) \notin {"pop_next", "pop_cas"}
    BY DEF LoopHead
  <2>. QED  BY <2>1, <1>2, <1>3 DEF EndIteration
<1>4. ASSUME pc'[d] = pc[d], old_head'[d] = old_head[d], UNCHANGED threadVars
      PROVE  /\ old_head'[d] = old_head[d] /\ old_head[d] \in Addr
             /\ d \in Registered /\ tl_thread_id'[d] = tl_thread_id[d]
             /\ Validated(d)
  BY <1>1, <1>4 DEF Validated, Registered, threadVars, PopInv
<1>5. ASSUME NEW x \in Thread, Register(x)
      PROVE  /\ old_head'[d] = old_head[d] /\ old_head[d] \in Addr
             /\ d \in Registered /\ tl_thread_id'[d] = tl_thread_id[d]
             /\ Validated(d)
  <2>1. LoopHead(x, ops[x]) \notin {"pop_next", "pop_cas"}
    BY DEF LoopHead
  <2>2. x # d /\ pc'[d] = pc[d]
    BY <2>1, <1>5, <1>2 DEF Register
  <2>. QED  BY <2>2, <1>5, <1>1 DEF Register, popVars, Validated, Registered, PopInv, TypeOK
<1>6. ASSUME NEW p \in Producers, ProducerStep(p), ~ Register(p)
      PROVE  pc'[d] = pc[d] /\ old_head'[d] = old_head[d] /\ UNCHANGED threadVars
  <2>1. p \in Thread /\ p # d
    BY DEF Thread
  <2>2. \A y \in Thread : y # p => pc'[y] = pc[y] /\ old_head'[y] = old_head[y]
    BY <1>6, <1>1 DEF ProducerStep, Malloc, PushLoad, PushLink, PushCas, PushCasFails,
       EndIteration, popVars, TypeOK
  <2>3. UNCHANGED threadVars
    BY <1>6 DEF ProducerStep, Malloc, PushLoad, PushLink, PushCas, PushCasFails
  <2>. QED  BY <2>1, <2>2, <2>3, <1>1
<1>7. ASSUME NEW c \in Consumers, PopStep(c)
      PROVE  /\ old_head'[d] = old_head[d] /\ old_head[d] \in Addr
             /\ d \in Registered /\ tl_thread_id'[d] = tl_thread_id[d]
             /\ Validated(d) \/ (PopValidate(d) /\ head = old_head[d])
  <2>1. c \in Thread
    BY DEF Thread
  <2>2. \A y \in Thread : y # c => pc'[y] = pc[y] /\ old_head'[y] = old_head[y]
    BY <1>7, <1>1 DEF PopStep, PopEmpty, PopLoad, PopProtect, PopValidate, PopNext, PopCas,
       PopCasFails, PopRelease, popVars, TypeOK
  <2>3. tl_thread_id' = tl_thread_id
    BY <1>7 DEF PopStep, PopEmpty, PopLoad, PopProtect, PopValidate, PopNext, PopCas,
       PopCasFails, PopRelease, threadVars
  <2>4. CASE c # d
    BY <2>1, <2>2, <2>3, <2>4, <1>1 DEF Validated, Registered, PopInv
  <2>5. CASE c = d
    <3>1. PopValidate(d) \/ PopNext(d)
      BY <2>5, <1>7, <1>1 DEF PopStep, PopEmpty, PopLoad, PopProtect, PopCas, PopCasFails,
         PopRelease, TypeOK
    <3>2. CASE PopValidate(d)
      BY <3>2, <2>3, <1>1 DEF PopValidate, popVars, PopInv, Registered, TypeOK
    <3>3. CASE PopNext(d)
      BY <3>3, <2>3, <1>1 DEF PopNext, PopInv, Registered, Validated
    <3>. QED  BY <3>1, <3>2, <3>3
  <2>. QED  BY <2>4, <2>5
<1>8. ASSUME NEW c \in Consumers, RetireStep(c)
      PROVE  pc'[d] = pc[d] /\ old_head'[d] = old_head[d] /\ UNCHANGED threadVars
  <2>1. PICK label \in {"pop_load", "done"} \union ScanPC : pc' = [pc EXCEPT ![c] = label]
    BY <1>8, <1>1, RetireStepPc
  <2>2. UNCHANGED <<old_head, threadVars>>
    BY <1>8, <1>1, RetireStepPc DEF popVars
  <2>. QED  BY <2>1, <2>2, <1>2 DEF ScanPC, Thread
<1>9. CASE UNCHANGED vars
  BY <1>9, <1>4 DEF vars, popVars
<1>. QED
  BY <1>4, <1>5, <1>6, <1>7, <1>8, <1>9 DEF Next, ProducerStep, ConsumerStep, Thread

\* A scan that frees an entry has loaded the slot of everybody who uses it.
LEMMA ProtectedIsLiveStep ==
    ASSUME IInv, [Next]_vars
    PROVE  ProtectedIsLive'
<1>1. SUFFICES ASSUME NEW d \in Consumers, Validated(d)'
               PROVE  heap'[old_head'[d]] \in {"stack", "popped", "retired"}
  BY DEF ProtectedIsLive
<1>2. PICK A \in Addr : old_head[d] = A /\ old_head'[d] = A
  BY <1>1, ValidatedStep
<1>3. heap[A] \in {"stack", "popped", "retired"}
  <2>1. CASE Validated(d)
    BY <2>1, <1>2 DEF IInv, ProtectedIsLive
  <2>2. CASE head = old_head[d]
    BY <2>2, <1>2, ConstantsAssumption DEF IInv, StackShape, InStack
  <2>. QED  BY <2>1, <2>2, <1>1, ValidatedStep
<1>4. ASSUME NEW p \in Producers, Malloc(p) \/ PushLink(p) \/ PushCas(p)
      PROVE  heap'[A] \in {"stack", "popped", "retired"}
  BY <1>2, <1>3, <1>4 DEF IInv, Malloc, PushLink, PushCas, TypeOK
<1>5. ASSUME NEW c \in Consumers, PopCas(c) \/ Retire(c)
      PROVE  heap'[A] \in {"stack", "popped", "retired"}
  BY <1>2, <1>3, <1>5 DEF IInv, PopCas, Retire, TypeOK
<1>6. ASSUME NEW c \in Consumers, ScanFree(c)
      PROVE  heap'[A] \in {"stack", "popped", "retired"}
  <2>1. heap' = [heap EXCEPT ![retired[c][i[c]]] = "free"] /\ pc[c] = "scan_free"
    BY <1>6 DEF ScanFree
  <2>2. heap[retired[c][i[c]]] = "retired"
    BY <2>1, ScannedEntry DEF ScanPC
  <2>3. retired[c][i[c]] # A
    <3>1. CASE Validated(d)
      BY <3>1, <2>1, <1>2 DEF IInv, ScanInv
    <3>2. CASE head = old_head[d]
      <4>1. heap[A] = "stack"
        BY <3>2, <1>2, ConstantsAssumption DEF IInv, StackShape, InStack
      <4>. QED  BY <4>1, <2>2
    <3>. QED  BY <3>1, <3>2, <1>1, ValidatedStep
  <2>. QED  BY <2>1, <2>3, <1>2, <1>3 DEF IInv, TypeOK
<1>7. ASSUME UNCHANGED stackVars
      PROVE  heap'[A] \in {"stack", "popped", "retired"}
  BY <1>3, <1>7 DEF stackVars
<1>8. heap'[A] \in {"stack", "popped", "retired"}
  BY <1>4, <1>5, <1>6, <1>7, StackSteps
<1>9. old_head'[d] = A
  BY <1>2
<1>. QED  BY <1>8, <1>9

-----------------------------------------------------------------------------
(* The scan.                                                               *)

\* hp_retire of consumer d leaves the list and the scan of consumer c alone.
LEMMA OtherRetire ==
    ASSUME TypeOK, NEW c \in Consumers, NEW d \in Consumers \ {c}, RetireStep(d)
    PROVE  /\ retired'[c] = retired[c] /\ retired_count'[c] = retired_count[c]
           /\ i'[c] = i[c] /\ new_count'[c] = new_count[c]
           /\ n'[c] = n[c] /\ t'[c] = t[c] /\ s'[c] = s[c]
           /\ pc'[c] = pc[c]
<1>1. pc'[c] = pc[c]
  BY RetireStepPc DEF TypeOK, Thread
<1>2. CASE Retire(d)     BY <1>1, <1>2 DEF Retire, TypeOK
<1>3. CASE ScanCount(d)  BY <1>1, <1>3 DEF ScanCount, TypeOK, retireVars
<1>4. CASE ScanKeep(d)   BY <1>1, <1>4 DEF ScanKeep, NextEntry, TypeOK, retireVars
<1>5. CASE ScanMiss(d)   BY <1>1, <1>5 DEF ScanMiss, TypeOK, retireVars
<1>6. CASE ScanFree(d)   BY <1>1, <1>6 DEF ScanFree, NextEntry, TypeOK
<1>. QED  BY <1>2, <1>3, <1>4, <1>5, <1>6 DEF RetireStep

\* Only hp_retire of consumer c changes its list and its scan.
LEMMA RetireFrame ==
    ASSUME TypeOK, [Next]_vars, NEW c \in Consumers, ~ RetireStep(c)
    PROVE  /\ retired'[c] = retired[c] /\ retired_count'[c] = retired_count[c]
           /\ i'[c] = i[c] /\ new_count'[c] = new_count[c]
           /\ n'[c] = n[c] /\ t'[c] = t[c] /\ s'[c] = s[c]
           /\ pc'[c] \in ScanPC <=> pc[c] \in ScanPC
           /\ pc'[c] \in ScanPC => pc'[c] = pc[c]
<1>. USE ThreadsAssumption DEF Goto
<1>. DEFINE Same == /\ retired'[c] = retired[c] /\ retired_count'[c] = retired_count[c]
                    /\ i'[c] = i[c] /\ new_count'[c] = new_count[c]
                    /\ n'[c] = n[c] /\ t'[c] = t[c] /\ s'[c] = s[c]
<1>1. ASSUME NEW x \in Thread, NEW label, pc' = [pc EXCEPT ![x] = label],
             label \notin ScanPC, pc[x] \notin ScanPC
      PROVE  /\ pc'[c] \in ScanPC <=> pc[c] \in ScanPC
             /\ pc'[c] \in ScanPC => pc'[c] = pc[c]
  <2>1. pc'[c] = IF c = x THEN label ELSE pc[c]
    BY <1>1 DEF TypeOK, Thread
  <2>. QED  BY <2>1, <1>1
<1>2. \A x \in Thread : \A k : LoopHead(x, k) \notin ScanPC
  BY DEF LoopHead, ScanPC
<1>3. ASSUME UNCHANGED <<retireVars, scanVars>>
      PROVE  Same
  BY <1>3 DEF retireVars, scanVars
<1>. HIDE DEF Same
<1>4. ASSUME NEW x \in Thread, Register(x)
      PROVE  Same /\ (pc'[c] \in ScanPC <=> pc[c] \in ScanPC) /\ (pc'[c] \in ScanPC => pc'[c] = pc[c])
  <2>1. /\ pc' = [pc EXCEPT ![x] = LoopHead(x, ops[x])] /\ pc[x] \notin ScanPC
        /\ UNCHANGED <<retireVars, scanVars>>
    BY <1>4 DEF Register, ScanPC
  <2>. QED  BY <2>1, <1>1, <1>2, <1>3
<1>5. ASSUME NEW p \in Producers, ProducerStep(p)
      PROVE  Same /\ (pc'[c] \in ScanPC <=> pc[c] \in ScanPC) /\ (pc'[c] \in ScanPC => pc'[c] = pc[c])
  <2>1. CASE Register(p)  BY <2>1, <1>4 DEF Thread
  <2>2. CASE ~ Register(p)
    <3>1. UNCHANGED <<retireVars, scanVars>>
      BY <2>2, <1>5 DEF ProducerStep, Malloc, PushLoad, PushLink, PushCas, PushCasFails
    <3>2. \A y \in Thread : y # p => pc'[y] = pc[y]
      BY <2>2, <1>5 DEF ProducerStep, Malloc, PushLoad, PushLink, PushCas, PushCasFails,
         EndIteration, TypeOK
    <3>3. c \in Thread /\ c # p
      BY DEF Thread
    <3>. QED  BY <3>1, <3>2, <3>3, <1>3
  <2>. QED  BY <2>1, <2>2
<1>6. ASSUME NEW d \in Consumers, PopStep(d)
      PROVE  Same /\ (pc'[c] \in ScanPC <=> pc[c] \in ScanPC) /\ (pc'[c] \in ScanPC => pc'[c] = pc[c])
  <2>1. UNCHANGED <<retireVars, scanVars>>
    BY <1>6 DEF PopStep, PopEmpty, PopLoad, PopProtect, PopValidate, PopNext, PopCas,
       PopCasFails, PopRelease
  <2>2. /\ pc[d] \notin ScanPC
        /\ \E label \in ConsumerPC \ ScanPC : pc' = [pc EXCEPT ![d] = label]
    BY <1>6 DEF PopStep, PopEmpty, PopLoad, PopProtect, PopValidate, PopNext, PopCas,
       PopCasFails, PopRelease, ScanPC, ConsumerPC
  <2>. QED  BY <2>1, <2>2, <1>1, <1>3 DEF Thread
<1>7. ASSUME NEW d \in Consumers, RetireStep(d)
      PROVE  Same /\ (pc'[c] \in ScanPC <=> pc[c] \in ScanPC) /\ (pc'[c] \in ScanPC => pc'[c] = pc[c])
  BY <1>7, OtherRetire DEF Same
<1>8. CASE UNCHANGED vars
  BY <1>8, <1>3 DEF vars, Same, ScanPC
<1>. QED
  BY <1>4, <1>5, <1>6, <1>7, <1>8 DEF Next, ConsumerStep, Same, Thread

\* A slot that the scan has passed cannot come to protect the entry: the
\* re-validation of hps_pop fails for a retired node.
LEMMA ScanInvStep ==
    ASSUME IInv, [Next]_vars
    PROVE  ScanInv'
<1>. USE DEF Goto
<1>1. SUFFICES ASSUME NEW c \in Consumers, NEW d \in Consumers, Validated(d)',
                      pc'[c] \in {"scan_load", "scan_free"},
                      old_head'[d] = retired'[c][i'[c]]
               PROVE  /\ pc'[c] = "scan_load"
                      /\ tl_thread_id'[d] < n'[c]
                      /\ t'[c] < tl_thread_id'[d] \/ (t'[c] = tl_thread_id'[d] /\ s'[c] = 0)
  BY DEF ScanInv
<1>2. TypeOK /\ IdsInv /\ SlotsInv /\ ScanInv /\ RangeInv
  BY DEF IInv
<1>3. /\ old_head'[d] = old_head[d] /\ old_head[d] \in Addr
      /\ d \in Registered /\ tl_thread_id'[d] = tl_thread_id[d]
      /\ Validated(d) \/ (PopValidate(d) /\ head = old_head[d])
  BY <1>1, ValidatedStep
<1>4. ASSUME heap[old_head[d]] = "retired"
      PROVE  Validated(d)
  BY <1>3, <1>4, ConstantsAssumption DEF IInv, StackShape, InStack
<1>5. CASE ~ RetireStep(c)
  <2>1. /\ pc'[c] = pc[c] /\ retired'[c] = retired[c] /\ i'[c] = i[c]
        /\ n'[c] = n[c] /\ t'[c] = t[c] /\ s'[c] = s[c] /\ pc[c] \in ScanPC
    BY <1>1, <1>2, <1>5, RetireFrame DEF ScanPC
  <2>2. old_head[d] = retired[c][i[c]]
    BY <2>1, <1>1, <1>3
  <2>3. Validated(d)
    BY <2>1, <2>2, <1>4, ScannedEntry
  <2>. QED  BY <2>1, <2>2, <2>3, <1>1, <1>2, <1>3 DEF ScanInv
<1>6. CASE RetireStep(c)
  <2>1. ScanCount(c) \/ ScanMiss(c)
    <3>1. ASSUME NEW k, NextEntry(c, k)
          PROVE  FALSE
      BY <3>1, <1>1, <1>2 DEF NextEntry, EndIteration, LoopHead, TypeOK, Thread
    <3>2. ~ Retire(c)
      BY <1>1, <1>2 DEF Retire, EndIteration, LoopHead, TypeOK, Thread
    <3>. QED  BY <3>1, <3>2, <1>6 DEF RetireStep, ScanKeep, ScanFree
  <2>2. /\ retired' = retired /\ i' = i /\ pc[c] \in ScanPC
    BY <2>1 DEF ScanCount, ScanMiss, retireVars, ScanPC
  <2>3. old_head[d] = retired[c][i[c]] /\ Validated(d)
    BY <2>2, <1>1, <1>3, <1>4, ScannedEntry
  <2>4. tl_thread_id[d] \in 0 .. hp_thread_count - 1
    BY <1>2, <1>3 DEF IdsInv
  <2>5. CASE ScanCount(c)
    <3>1. /\ pc'[c] = "scan_load" /\ n'[c] = hp_thread_count /\ t'[c] = 0 /\ s'[c] = 0
      BY <2>5, <1>2 DEF ScanCount, TypeOK, Thread
    <3>. QED  BY <3>1, <2>4, <1>2, <1>3 DEF TypeOK
  <2>6. CASE ScanMiss(c)
    <3>1. /\ pc[c] = "scan_load" /\ hp_table[t[c]][s[c]] # retired[c][i[c]] /\ n' = n
      BY <2>6 DEF ScanMiss
    <3>2. /\ tl_thread_id[d] < n[c]
          /\ t[c] < tl_thread_id[d] \/ (t[c] = tl_thread_id[d] /\ s[c] = 0)
      BY <2>3, <3>1, <1>2 DEF ScanInv
    <3>3. hp_table[tl_thread_id[d]][0] = old_head[d]
      BY <2>3, <1>2 DEF SlotsInv, Validated
    <3>4. t[c] < tl_thread_id[d]
      BY <2>3, <3>1, <3>2, <3>3
    <3>5. t[c] \in Nat /\ n[c] \in Nat /\ s[c] \in Nat
      BY <1>2 DEF TypeOK
    <3>6. CASE s[c] + 1 < HP_PER_THREAD
      <4>1. t' = t /\ pc'[c] = "scan_load"
        BY <3>1, <3>6, <2>6 DEF ScanMiss
      <4>. QED  BY <4>1, <3>1, <3>2, <3>4, <1>3
    <3>7. CASE ~ (s[c] + 1 < HP_PER_THREAD)
      <4>1. /\ t'[c] = t[c] + 1 /\ s'[c] = 0
            /\ pc' = [pc EXCEPT ![c] = IF t[c] + 1 < n[c] THEN "scan_load" ELSE "scan_free"]
        BY <3>7, <2>6, <1>2 DEF ScanMiss, TypeOK
      <4>2. t[c] + 1 < n[c] /\ t[c] + 1 <= tl_thread_id[d]
        BY <2>4, <3>2, <3>4, <3>5, <1>2 DEF TypeOK
      <4>3. pc'[c] = "scan_load"
        BY <4>1, <4>2, <1>2 DEF TypeOK, Thread
      <4>. QED  BY <4>1, <4>2, <4>3, <2>4, <3>1, <3>2, <3>5, <1>2, <1>3 DEF TypeOK
    <3>. QED  BY <3>6, <3>7
  <2>. QED  BY <2>1, <2>5, <2>6
<1>. QED  BY <1>5, <1>6

-----------------------------------------------------------------------------
(* Every retired node is in one list, once.                                *)

\* Steps that do not belong to hp_retire leave retired nodes alone.
LEMMA RetiredStays ==
    ASSUME IInv, [Next]_vars, \A c \in Consumers : ~ RetireStep(c),
           NEW a \in Addr, heap[a] = "retired"
    PROVE  heap'[a] = "retired"
<1>1. TypeOK /\ OwnInv /\ StackShape /\ PopInv
  BY DEF IInv
<1>2. ASSUME NEW p \in Producers, Malloc(p) \/ PushLink(p) \/ PushCas(p)
      PROVE  heap'[a] = "retired"
  BY <1>1, <1>2 DEF TypeOK, Malloc, PushLink, PushCas, OwnInv, Pushing
<1>3. ASSUME NEW c \in Consumers, PopCas(c)
      PROVE  heap'[a] = "retired"
  BY <1>1, <1>3, ConstantsAssumption DEF TypeOK, PopCas, PopInv, StackShape, InStack
<1>4. ASSUME UNCHANGED stackVars
      PROVE  heap'[a] = "retired"
  BY <1>4 DEF stackVars
<1>5. \A c \in Consumers : ~ Retire(c) /\ ~ ScanFree(c)
  BY DEF RetireStep
<1>. QED  BY <1>2, <1>3, <1>4, <1>5, StackSteps

\* What another consumer does leaves the list of c alone.
LEMMA PendingFrame ==
    ASSUME TypeOK, [Next]_vars, NEW c \in Consumers, ~ RetireStep(c)
    PROVE  Pending(c)' = Pending(c) /\ retired'[c] = retired[c]
BY RetireFrame DEF Pending

\* Compacting the list in place and freeing its entries keeps it without
\* repetition.
LEMMA RetiredOnceStep ==
    ASSUME RetireLimitSuffices, IInv, [Next]_vars
    PROVE  RetiredOnce'
<1>. USE ThreadsAssumption, ConstantsAssumption DEF Goto
<1>1. TypeOK /\ OwnInv /\ RangeInv /\ RetiredOnce
  BY DEF IInv
<1>2. CASE \A c \in Consumers : ~ RetireStep(c)
  <2>1. \A c \in Consumers : Pending(c)' = Pending(c) /\ retired'[c] = retired[c]
    BY <1>1, <1>2, PendingFrame
  <2>. QED  BY <2>1, <1>1, <1>2, RetiredStays DEF RetiredOnce
<1>3. ASSUME NEW c \in Consumers, RetireStep(c)
      PROVE  RetiredOnce'
  <2>. DEFINE m == retired_count[c]
  <2>1. \A d \in Consumers \ {c} : Pending(d)' = Pending(d) /\ retired'[d] = retired[d]
    BY <1>1, <1>3, OtherRetire DEF Pending
  <2>2. m \in Nat /\ i[c] \in Nat /\ new_count[c] \in Nat
    BY <1>1 DEF TypeOK
  <2>3. /\ \A d \in Consumers : \A k \in Pending(d) :
               retired[d][k] \in Addr /\ heap[retired[d][k]] = "retired"
        /\ \A d, e \in Consumers : \A k \in Pending(d), l \in Pending(e) :
              retired[d][k] = retired[e][l] => d = e /\ k = l
    BY <1>1 DEF RetiredOnce
  <2>4. CASE Retire(c)
    <3>1. /\ pc[c] = "retire" /\ heap' = [heap EXCEPT ![node[c]] = "retired"]
          /\ retired' = [retired EXCEPT ![c][m] = node[c]] /\ retired_count'[c] = m + 1
      BY <2>4, <1>1 DEF Retire, TypeOK
    <3>2. m < RETIRE_LIMIT /\ m \in Indices
      BY <3>1, <2>2, <1>1 DEF RangeInv, ScanPC, Indices
    <3>3. node[c] \in Addr /\ heap[node[c]] = "popped"
      BY <3>1, <1>1 DEF OwnInv, Holding
    <3>4. Pending(c) = 0 .. m - 1
      BY <3>1 DEF Pending, ScanPC
    <3>5. Pending(c)' = 0 .. m
      <4>1. CASE m + 1 < RETIRE_LIMIT
        <5>1. pc'[c] \notin ScanPC
          BY <4>1, <2>4, <1>1 DEF Retire, EndIteration, LoopHead, TypeOK, Thread, ScanPC
        <5>. QED  BY <5>1, <3>1, <2>2 DEF Pending
      <4>2. CASE ~ (m + 1 < RETIRE_LIMIT)
        <5>1. pc'[c] = "scan_count" /\ i'[c] = 0 /\ new_count'[c] = 0
          BY <4>2, <2>4, <1>1 DEF Retire, TypeOK, Thread
        <5>2. Pending(c)' = (0 .. new_count'[c] - 1) \union (i'[c] .. retired_count'[c] - 1)
          BY <5>1 DEF Pending, ScanPC
        <5>3. (0 .. new_count'[c] - 1) = {}
          BY <5>1
        <5>4. (i'[c] .. retired_count'[c] - 1) = 0 .. m
          BY <5>1, <3>1, <2>2
        <5>. HIDE DEF m
        <5>. QED  BY <5>2, <5>3, <5>4
      <4>. QED  BY <4>1, <4>2
    <3>6. \A k \in Pending(c)' :
             \/ k = m /\ retired'[c][k] = node[c]
             \/ k # m /\ k \in Pending(c) /\ retired'[c][k] = retired[c][k]
      <4>. HIDE DEF m
      <4>. QED  BY <3>1, <3>2, <3>4, <3>5, <2>2, <1>1 DEF TypeOK
    <3>7. \A a \in Addr : heap[a] = "retired" => heap'[a] = "retired" /\ a # node[c]
      BY <3>1, <3>3, <1>1 DEF TypeOK
    <3>8. heap'[node[c]] = "retired"
      BY <3>1, <3>3, <1>1 DEF TypeOK
    <3>. HIDE DEF m
    <3>. QED  BY <2>1, <2>3, <3>3, <3>6, <3>7, <3>8 DEF RetiredOnce
  <2>5. CASE ScanCount(c) \/ ScanMiss(c)
    <3>1. /\ heap' = heap /\ retired' = retired /\ i' = i /\ new_count' = new_count
          /\ retired_count' = retired_count /\ pc[c] \in ScanPC
      BY <2>5 DEF ScanCount, ScanMiss, stackVars, retireVars, ScanPC
    <3>2. pc'[c] \in ScanPC
      <4>1. CASE ScanCount(c)
        BY <4>1, <1>1 DEF ScanCount, TypeOK, Thread, ScanPC
      <4>2. CASE ScanMiss(c)
        <5>1. pc' = pc \/ Goto(c, "scan_load") \/ Goto(c, "scan_free")
          BY <4>2 DEF ScanMiss
        <5>. QED  BY <5>1, <3>1, <1>1 DEF TypeOK, Thread, ScanPC
      <4>. QED  BY <2>5, <4>1, <4>2
    <3>3. Pending(c)' = Pending(c)
      BY <3>1, <3>2 DEF Pending
    <3>. QED  BY <2>1, <2>3, <3>1, <3>3 DEF RetiredOnce
  <2>6. ASSUME NEW k \in Nat, NextEntry(c, k), pc[c] \in ScanPC, k <= i[c] + 1
        PROVE  Pending(c)' = 0 .. k - 1 \union i[c] + 1 .. m - 1
    <3>1. new_count'[c] = k
      BY <2>6, <1>1 DEF NextEntry, TypeOK
    <3>2. CASE i[c] + 1 < m
      <4>1. pc'[c] \in ScanPC /\ i'[c] = i[c] + 1 /\ retired_count'[c] = m
        BY <3>2, <2>6, <1>1 DEF NextEntry, TypeOK, Thread, ScanPC
      <4>. QED  BY <3>1, <4>1 DEF Pending
    <3>3. CASE ~ (i[c] + 1 < m)
      <4>1. pc'[c] \notin ScanPC /\ retired_count'[c] = k
        BY <3>3, <2>6, <1>1 DEF NextEntry, EndIteration, LoopHead, TypeOK, Thread, ScanPC
      <4>2. i[c] + 1 .. m - 1 = {}
        BY <3>3, <2>2
      <4>3. Pending(c)' = 0 .. k - 1
        BY <4>1 DEF Pending
      <4>. QED  BY <4>2, <4>3
    <3>. QED  BY <3>2, <3>3
  <2>7. ASSUME pc[c] \in ScanPC
        PROVE  /\ Pending(c) = 0 .. new_count[c] - 1 \union i[c] .. m - 1
               /\ new_count[c] <= i[c] /\ i[c] < m /\ new_count[c] \in Indices
               /\ i[c] \in Pending(c)
    BY <2>7, <2>2, <1>1 DEF Pending, RangeInv, Indices
  <2>. HIDE DEF m
  <2>8. CASE ScanKeep(c)
    <3>1. /\ NextEntry(c, new_count[c] + 1) /\ heap' = heap /\ pc[c] \in ScanPC
          /\ retired' = [retired EXCEPT ![c][new_count[c]] = retired[c][i[c]]]
      BY <2>8 DEF ScanKeep, stackVars, ScanPC
    <3>2. Pending(c)' = 0 .. new_count[c] + 1 - 1 \union i[c] + 1 .. m - 1
      BY <3>1, <2>2, <2>6, <2>7
    <3>3. \A k \in Pending(c)' :
             \/ k = new_count[c] /\ retired'[c][k] = retired[c][i[c]]
             \/ k # i[c] /\ k \in Pending(c) /\ retired'[c][k] = retired[c][k]
      <4>1. \A k \in Pending(c)' : k # new_count[c] => k # i[c] /\ k \in Pending(c)
        BY <3>1, <3>2, <2>2, <2>7
      <4>2. \A k : k # new_count[c] => retired'[c][k] = retired[c][k]
        BY <3>1, <1>1 DEF TypeOK
      <4>3. retired'[c][new_count[c]] = retired[c][i[c]]
        BY <3>1, <2>7, <1>1 DEF TypeOK
      <4>. QED  BY <4>1, <4>2, <4>3
    <3>. QED  BY <2>1, <2>3, <2>7, <3>1, <3>3 DEF RetiredOnce
  <2>9. CASE ScanFree(c)
    <3>1. /\ NextEntry(c, new_count[c]) /\ retired' = retired /\ pc[c] \in ScanPC
          /\ heap' = [heap EXCEPT ![retired[c][i[c]]] = "free"]
      BY <2>9 DEF ScanFree, ScanPC
    <3>2. \A k \in Pending(c)' : k \in Pending(c) /\ k # i[c]
      BY <3>1, <2>2, <2>6, <2>7
    <3>3. \A a \in Addr : heap[a] = "retired" /\ a # retired[c][i[c]] => heap'[a] = "retired"
      BY <3>1, <1>1 DEF TypeOK
    <3>. QED  BY <2>1, <2>3, <2>7, <3>1, <3>2, <3>3 DEF RetiredOnce
  <2>. QED  BY <1>3, <2>4, <2>5, <2>8, <2>9 DEF RetireStep
<1>. QED  BY <1>2, <1>3

-----------------------------------------------------------------------------
(* A list always has room for the next retired node.                       *)

\* No step makes a retired node endangered: consumers publish only what they
\* loaded from the head.
LEMMA DangerStep ==
    ASSUME IInv, [Next]_vars, NEW c \in Consumers,
           NEW a \in Addr, heap[a] = "retired", a \in Danger(c)'
    PROVE  a \in Danger(c)
<1>. USE ThreadsAssumption, ConstantsAssumption DEF Goto
<1>1. TypeOK /\ IdsInv /\ StackShape
  BY DEF IInv
<1>2. \/ \E d \in (Consumers \ {c}) \intersect Registered' : hp_table'[tl_thread_id'[d]][0] = a
      \/ \E d \in Consumers \ {c} : pc'[d] = "pop_protect" /\ old_head'[d] = a
  BY DEF Danger
<1>3. ASSUME NEW d \in (Consumers \ {c}) \intersect Registered',
             hp_table'[tl_thread_id'[d]][0] = a
      PROVE  a \in Danger(c)
  <2>1. 0 \in Slots /\ \A x \in Registered : tl_thread_id[x] \in Ids
    BY <1>1, TidInIds DEF Slots
  <2>2. ASSUME NEW x \in Thread, Register(x)
        PROVE  a \in Danger(c)
    <3>1. hp_thread_count \in Ids
      BY <2>2, <1>1, TidInIds DEF Register, Ids
    <3>2. /\ hp_table' = [hp_table EXCEPT ![hp_thread_count] = [z \in Slots |-> NULL]]
          /\ tl_thread_id' = [tl_thread_id EXCEPT ![x] = hp_thread_count]
      BY <2>2 DEF Register
    <3>3. d # x
      BY <3>1, <3>2, <2>1, <1>1, <1>3 DEF TypeOK
    <3>4. d \in Registered /\ tl_thread_id'[d] = tl_thread_id[d]
      BY <3>2, <3>3, <2>2, <1>1, <1>3 DEF TypeOK, Registered, Register
    <3>5. hp_table'[tl_thread_id[d]][0] = hp_table[tl_thread_id[d]][0]
      BY <3>1, <3>2, <3>4, <2>1, <1>1 DEF TypeOK, IdsInv
    <3>. QED  BY <3>4, <3>5, <1>3 DEF Danger
  <2>3. ASSUME NEW e \in Consumers, NEW v, pc[e] # "register",
               hp_table' = [hp_table EXCEPT ![tl_thread_id[e]][0] = v],
               tl_thread_id' = tl_thread_id, Registered' = Registered,
               v = NULL \/ (v = old_head[e] /\ pc[e] = "pop_protect")
        PROVE  a \in Danger(c)
    <3>1. hp_table'[tl_thread_id[e]][0] = v
      BY <2>1, <2>3, <1>1 DEF TypeOK, Registered, Thread
    <3>2. d # e => hp_table'[tl_thread_id[d]][0] = hp_table[tl_thread_id[d]][0]
      BY <2>1, <2>3, <1>1, <1>3 DEF TypeOK, Registered, Thread, IdsInv
    <3>3. CASE d = e
      BY <3>1, <3>3, <2>3, <1>3 DEF Danger
    <3>4. CASE d # e
      BY <3>2, <3>4, <2>3, <1>3 DEF Danger
    <3>. QED  BY <3>3, <3>4
  <2>4. ASSUME NEW e \in Consumers, PopProtect(e)
        PROVE  a \in Danger(c)
    <3>1. \A x \in Thread : ~ Register(x)
      BY <2>4, <1>1 DEF PopProtect, Register, TypeOK
    <3>. QED  BY <3>1, <2>3, <2>4, <1>1, OnlyRegister DEF PopProtect
  <2>5. ASSUME NEW e \in Consumers, PopRelease(e)
        PROVE  a \in Danger(c)
    <3>1. \A x \in Thread : ~ Register(x)
      BY <2>5, <1>1 DEF PopRelease, Register, TypeOK
    <3>. QED  BY <3>1, <2>3, <2>5, <1>1, OnlyRegister DEF PopRelease
  <2>6. CASE UNCHANGED threadVars
    <3>1. \A x \in Thread : ~ Register(x)
      BY <2>6, <1>1 DEF threadVars, Register, TypeOK
    <3>. QED  BY <3>1, <2>6, <1>1, <1>3, OnlyRegister DEF threadVars, Danger
  <2>. QED
    BY <2>2, <2>4, <2>5, <2>6
    DEF Next, ProducerStep, ConsumerStep, PopStep, RetireStep, vars, Thread,
        Malloc, PushLoad, PushLink, PushCas, PushCasFails, PopEmpty, PopLoad, PopValidate,
        PopNext, PopCas, PopCasFails, Retire, ScanCount, ScanKeep, ScanMiss, ScanFree
<1>4. ASSUME NEW d \in Consumers \ {c}, pc'[d] = "pop_protect", old_head'[d] = a
      PROVE  a \in Danger(c)
  <2>1. SUFFICES pc[d] = "pop_protect" /\ old_head[d] = a
    BY <1>4 DEF Danger
  <2>2. ASSUME NEW x \in Thread, NEW label, pc' = [pc EXCEPT ![x] = label],
               label # "pop_protect", UNCHANGED old_head
        PROVE  pc[d] = "pop_protect" /\ old_head[d] = a
    BY <2>2, <1>1, <1>4 DEF TypeOK, Thread
  <2>3. ASSUME NEW x \in Thread, Register(x)
        PROVE  pc[d] = "pop_protect" /\ old_head[d] = a
    <3>1. LoopHead(x, ops[x]) # "pop_protect"
      BY DEF LoopHead
    <3>. QED  BY <3>1, <2>2, <2>3 DEF Register, popVars
  <2>4. ASSUME NEW p \in Producers, ProducerStep(p), ~ Register(p)
        PROVE  pc[d] = "pop_protect" /\ old_head[d] = a
    <3>1. \A y \in Thread : y # p => pc'[y] = pc[y] /\ old_head'[y] = old_head[y]
      BY <2>4, <1>1 DEF ProducerStep, Malloc, PushLoad, PushLink, PushCas, PushCasFails,
         EndIteration, popVars, TypeOK
    <3>2. d \in Thread /\ d # p
      BY DEF Thread
    <3>. QED  BY <3>1, <3>2, <1>4
  <2>5. ASSUME NEW e \in Consumers, PopStep(e)
        PROVE  pc[d] = "pop_protect" /\ old_head[d] = a
    <3>1. CASE PopLoad(e)
      <4>1. e # d
        <5>1. heap[head] = "stack"
          BY <3>1, <1>1 DEF PopLoad, StackShape, InStack
        <5>. QED  BY <5>1, <3>1, <1>1, <1>4 DEF PopLoad, TypeOK, Thread
      <4>. QED  BY <4>1, <3>1, <1>1, <1>4 DEF PopLoad, TypeOK, Thread
    <3>2. CASE PopEmpty(e)
      BY <3>2, <1>1, <1>4 DEF PopEmpty, TypeOK, Thread
    <3>3. CASE ~ PopLoad(e) /\ ~ PopEmpty(e)
      <4>1. \E label \in ConsumerPC \ {"pop_protect"} : pc' = [pc EXCEPT ![e] = label]
        BY <3>3, <2>5 DEF PopStep, PopProtect, PopValidate, PopNext, PopCas, PopCasFails,
           PopRelease, ConsumerPC
      <4>2. UNCHANGED old_head
        BY <3>3, <2>5 DEF PopStep, PopProtect, PopValidate, PopNext, PopCas, PopCasFails,
           PopRelease, popVars
      <4>. QED  BY <4>1, <4>2, <2>2 DEF Thread
    <3>. QED  BY <3>1, <3>2, <3>3
  <2>6. ASSUME NEW e \in Consumers, RetireStep(e)
        PROVE  pc[d] = "pop_protect" /\ old_head[d] = a
    BY <2>6, <2>2, <1>1, RetireStepPc DEF popVars, ScanPC, Thread
  <2>7. CASE UNCHANGED vars
    BY <2>7, <1>4 DEF vars, popVars
  <2>. QED
    BY <2>3, <2>4, <2>5, <2>6, <2>7 DEF Next, ProducerStep, ConsumerStep, Thread
<1>. QED  BY <1>2, <1>3, <1>4

\* Nobody can newly protect a retired node, so a scan never has more entries
\* at risk than when it began.
LEMMA KeepInvStep ==
    ASSUME RetireLimitSuffices, IInv, [Next]_vars
    PROVE  KeepInv'
<1>. USE ThreadsAssumption, ConstantsAssumption DEF Goto
<1>1. TypeOK /\ RangeInv /\ RetiredOnce /\ OwnInv
  BY DEF IInv
<1>2. SUFFICES ASSUME NEW c \in Consumers, pc'[c] \in ScanPC
               PROVE  Cardinality(AtRisk(c)') <= KeptLimit
  BY DEF KeepInv
<1>3. IsFiniteSet(AtRisk(c)) /\ Cardinality(AtRisk(c)) \in Nat
  BY <1>1, AtRiskFinite
<1>4. \A k \in Pending(c) : retired[c][k] \in Addr /\ heap[retired[c][k]] = "retired"
  BY <1>1 DEF RetiredOnce
<1>5. \A k \in Pending(c) : retired[c][k] \in Danger(c)' => retired[c][k] \in Danger(c)
  BY <1>4, DangerStep
<1>6. KeptLimit \in Int
  BY FS_Subset, FS_CardinalityType DEF KeptLimit, Thread
<1>7. /\ new_count[c] \in Nat /\ i[c] \in Nat /\ retired_count[c] \in Nat
      /\ pc[c] \in ScanPC => new_count[c] <= i[c] /\ i[c] < retired_count[c]
  BY <1>1 DEF TypeOK, RangeInv
\* A set of entries that were at risk before is small enough.
<1>8. ASSUME pc[c] \in ScanPC, AtRisk(c)' \subseteq AtRisk(c)
      PROVE  Cardinality(AtRisk(c)') <= KeptLimit
  <2>1. Cardinality(AtRisk(c)) <= KeptLimit
    BY <1>8 DEF IInv, KeepInv
  <2>2. /\ Cardinality(AtRisk(c)') <= Cardinality(AtRisk(c))
        /\ Cardinality(AtRisk(c)') \in Nat
    BY <1>3, <1>8, FS_Subset, FS_CardinalityType
  <2>. QED  BY <2>1, <2>2, <1>3, <1>6
<1>9. CASE ~ RetireStep(c)
  <2>1. /\ retired'[c] = retired[c] /\ retired_count'[c] = retired_count[c]
        /\ i'[c] = i[c] /\ new_count'[c] = new_count[c] /\ pc[c] \in ScanPC
    BY <1>1, <1>2, <1>9, RetireFrame
  <2>2. AtRisk(c)' \subseteq AtRisk(c)
    BY <2>1, <1>5 DEF AtRisk, Pending
  <2>. QED  BY <2>1, <2>2, <1>8
<1>10. CASE ScanCount(c) \/ ScanMiss(c)
  <2>1. /\ retired' = retired /\ retired_count' = retired_count /\ i' = i
        /\ new_count' = new_count /\ pc[c] \in ScanPC
    BY <1>10 DEF ScanCount, ScanMiss, retireVars, ScanPC
  <2>2. AtRisk(c)' \subseteq AtRisk(c)
    BY <2>1, <1>5 DEF AtRisk, Pending
  <2>. QED  BY <2>1, <2>2, <1>8
\* Both ways to go on with the next entry.
<1>11. ASSUME NEW k, NextEntry(c, k)
       PROVE  i'[c] = i[c] + 1 /\ new_count'[c] = k /\ retired_count'[c] = retired_count[c]
  <2>1. i[c] + 1 < retired_count[c]
    BY <1>1, <1>2, <1>11 DEF NextEntry, EndIteration, LoopHead, TypeOK, Thread, ScanPC
  <2>. QED  BY <2>1, <1>1, <1>11 DEF NextEntry, TypeOK
<1>12. CASE ScanKeep(c)
  <2>1. /\ i'[c] = i[c] + 1 /\ new_count'[c] = new_count[c] + 1
        /\ retired_count'[c] = retired_count[c] /\ pc[c] \in ScanPC
        /\ retired' = [retired EXCEPT ![c][new_count[c]] = retired[c][i[c]]]
    BY <1>11, <1>12 DEF ScanKeep, ScanPC
  <2>2. \A k : k # new_count[c] => retired'[c][k] = retired[c][k]
    BY <2>1, <1>1 DEF TypeOK
  <2>3. i[c] \in AtRisk(c)
    BY <1>12, KeepBound
  <2>. DEFINE R == (AtRisk(c) \ {i[c]}) \union {new_count[c]}
  <2>4. AtRisk(c)' \subseteq R
    <3>1. SUFFICES ASSUME NEW k \in AtRisk(c)', k # new_count[c]
                   PROVE  k \in AtRisk(c) /\ k # i[c]
      OBVIOUS
    <3>2. CASE k \in 0 .. new_count'[c] - 1
      BY <3>1, <3>2, <2>1, <1>7 DEF AtRisk
    <3>3. CASE k \in i'[c] .. retired_count'[c] - 1 /\ retired'[c][k] \in Danger(c)'
      <4>1. k \in i[c] .. retired_count[c] - 1 /\ k # i[c] /\ k \in Pending(c)
        BY <3>3, <2>1, <1>7 DEF Pending
      <4>2. retired[c][k] \in Danger(c)
        BY <3>1, <3>3, <4>1, <2>2, <1>5
      <4>. QED  BY <4>1, <4>2 DEF AtRisk
    <3>. QED  BY <3>1, <3>2, <3>3 DEF AtRisk
  <2>5. /\ IsFiniteSet(AtRisk(c) \ {i[c]})
        /\ Cardinality(AtRisk(c) \ {i[c]}) = Cardinality(AtRisk(c)) - 1
    BY <2>3, <1>3, FS_RemoveElement
  <2>6. IsFiniteSet(R) /\ Cardinality(R) <= Cardinality(AtRisk(c)) /\ Cardinality(R) \in Nat
    <3>. DEFINE S == AtRisk(c) \ {i[c]}
    <3>1. IsFiniteSet(S) /\ Cardinality(S) = Cardinality(AtRisk(c)) - 1
      BY <2>5
    <3>. HIDE DEF S
    <3>2. /\ IsFiniteSet(S \union {new_count[c]})
          /\ Cardinality(S \union {new_count[c]}) = Cardinality(S)
               \/ Cardinality(S \union {new_count[c]}) = Cardinality(S) + 1
      BY <3>1, FS_AddElement
    <3>3. R = S \union {new_count[c]}
      BY DEF S
    <3>. QED
      <4>. HIDE DEF R
      <4>1. Cardinality(R) <= Cardinality(AtRisk(c))
        BY <3>1, <3>2, <3>3, <1>3
      <4>. QED  BY <4>1, <3>2, <3>3, FS_CardinalityType
  <2>. HIDE DEF R
  <2>7. Cardinality(AtRisk(c)') <= Cardinality(R) /\ Cardinality(AtRisk(c)') \in Nat
    BY <2>4, <2>6, FS_Subset, FS_CardinalityType
  <2>8. Cardinality(AtRisk(c)) <= KeptLimit
    BY <2>1 DEF IInv, KeepInv
  <2>. QED  BY <2>6, <2>7, <2>8, <1>3, <1>6
<1>13. CASE ScanFree(c)
  <2>1. /\ i'[c] = i[c] + 1 /\ new_count'[c] = new_count[c] /\ retired' = retired
        /\ retired_count'[c] = retired_count[c] /\ pc[c] \in ScanPC
    BY <1>11, <1>13 DEF ScanFree, ScanPC
  <2>2. AtRisk(c)' \subseteq AtRisk(c)
    BY <2>1, <1>5, <1>7 DEF AtRisk, Pending
  <2>. QED  BY <2>1, <2>2, <1>8
\* The scan starts: its entries at risk are different endangered nodes.
<1>14. CASE Retire(c)
  <2>0. pc[c] = "retire" /\ UNCHANGED <<hp_table, tl_thread_id, old_head>>
        /\ pc'[c] = "scan_count" /\ i'[c] = 0 /\ new_count'[c] = 0
    <3>1. c \in Consumers /\ pc[c] = "retire" /\ pc \in [Thread -> ProducerPC \union ConsumerPC]
          /\ i \in [Consumers -> Nat] /\ new_count \in [Consumers -> Nat]
          /\ UNCHANGED <<hp_table, tl_thread_id, old_head>>
      BY <1>14, <1>1 DEF Retire, TypeOK, threadVars, popVars
    <3>2. ~ EndIteration(c)
      BY <1>2, <3>1 DEF EndIteration, LoopHead, ScanPC, Thread
    <3>3. /\ pc' = [pc EXCEPT ![c] = "scan_count"]
          /\ i' = [i EXCEPT ![c] = 0]
          /\ new_count' = [new_count EXCEPT ![c] = 0]
      BY <1>14, <3>2 DEF Retire
    <3>. QED  BY <3>1, <3>3 DEF Thread
  <2>1. \A d \in Thread : d # c => pc'[d] = pc[d]
    BY <1>14, <1>1 DEF Retire, EndIteration, TypeOK
  <2>2. Danger(c)' = Danger(c)
    BY <2>0, <2>1 DEF Danger, Registered, Thread
  <2>3. IsFiniteSet(Danger(c)) /\ Cardinality(Danger(c)) \in Nat
          /\ Cardinality(Danger(c)) <= KeptLimit
    BY DangerBound
  <2>. DEFINE f == [k \in AtRisk(c)' |-> retired'[c][k]]
  <2>4. \A k \in AtRisk(c)' : k \in Pending(c)' /\ retired'[c][k] \in Danger(c)
    BY <2>0, <2>2 DEF AtRisk, Pending, ScanPC
  <2>5. \A k, l \in AtRisk(c)' : retired'[c][k] = retired'[c][l] => k = l
    BY <2>4, RetiredOnceStep DEF RetiredOnce
  <2>6. f \in Injection(AtRisk(c)', Danger(c))
    BY <2>4, <2>5 DEF Injection, IsInjective
  <2>. HIDE DEF f
  <2>7. IsFiniteSet(AtRisk(c)') /\ Cardinality(AtRisk(c)') <= Cardinality(Danger(c))
    BY <2>3, <2>6, FS_Injection
  <2>8. Cardinality(AtRisk(c)') \in Nat
    BY <2>7, FS_CardinalityType
  <2>. QED  BY <2>3, <2>7, <2>8, <1>6
<1>. QED  BY <1>9, <1>10, <1>12, <1>13, <1>14 DEF RetireStep

-----------------------------------------------------------------------------
(* The theorem.                                                            *)

\* Before the first step no thread is registered and no node allocated.
LEMMA InitIInv ==
    ASSUME Init
    PROVE  IInv
<1>. USE ThreadsAssumption, ConstantsAssumption
<1>1. TypeOK
  BY DEF Init, TypeOK, Ptr, Status, ProducerPC, ConsumerPC, Thread, Ids, Slots, Indices
<1>2. IdsInv
  <2>1. Registered = {}
    BY DEF Init, Registered
  <2>. QED  BY <2>1, FS_EmptySet DEF Init, IdsInv
<1>3. /\ \A x \in Thread : pc[x] = "register"
      /\ \A a \in Addr : heap[a] = "free"
      /\ head = NULL
      /\ \A c \in Consumers : retired_count[c] = 0 /\ pc[c] = "register"
  BY DEF Init, Thread
<1>4. SlotsInv
  BY <1>1 DEF Init, SlotsInv, ScanPC, Thread
<1>5. OwnInv
  BY <1>3 DEF OwnInv, Pushing, Holding, Thread
<1>6. PopInv /\ ProtectedIsLive /\ KeepInv
  BY <1>3 DEF PopInv, ProtectedIsLive, KeepInv, Validated, ScanPC
<1>7. RangeInv
  BY <1>3 DEF RangeInv, ScanPC
<1>8. ScanInv
  BY <1>3 DEF ScanInv, ScanPC
<1>9. StackShape
  BY <1>3 DEF StackShape, InStack
<1>10. RetiredOnce
  BY <1>3 DEF RetiredOnce, Pending, ScanPC
<1>. QED  BY <1>1, <1>2, <1>4, <1>5, <1>6, <1>7, <1>8, <1>9, <1>10 DEF IInv

\* IInv is an invariant of hazard_pointer.c.
THEOREM Invariance ==
    ASSUME RetireLimitSuffices
    PROVE  Spec => []IInv
<1>1. Init => IInv
  BY InitIInv
<1>2. IInv /\ [Next]_vars => IInv'
  BY TypeOKStep, IdsInvStep, SlotsInvStep, OwnInvStep, PopInvStep, RangeInvStep,
     StackShapeStep, ProtectedIsLiveStep, RetiredOnceStep, ScanInvStep, KeepInvStep
  DEF IInv
<1>. QED  BY <1>1, <1>2, PTL DEF Spec

\* Every variable keeps its type: ids and the indices of the scan are numbers
\* and every pointer is NULL or an address malloc returned.
THEOREM TypeCorrect ==
    ASSUME RetireLimitSuffices
    PROVE  Spec => []TypeOK
<1>1. IInv => TypeOK
  BY DEF IInv
<1>. QED  BY <1>1, Invariance, PTL

\* No use after free: hps_pop never reads the next of a freed node, whatever
\* the numbers of threads, nodes and iterations (lines 101-124).
THEOREM NoUseAfterFree ==
    ASSUME RetireLimitSuffices
    PROVE  Spec => []ProtectedIsLive
<1>1. IInv => ProtectedIsLive
  BY DEF IInv
<1>. QED  BY <1>1, Invariance, PTL

\* No double free: a retired node is in one list at one place (lines 58-76).
THEOREM NoDoubleFree ==
    ASSUME RetireLimitSuffices
    PROVE  Spec => []RetiredOnce
<1>1. IInv => RetiredOnce
  BY DEF IInv
<1>. QED  BY <1>1, Invariance, PTL

\* No buffer overflow: hp_retire writes inside retired[RETIRE_LIMIT], because
\* a scan keeps at most two entries for every other consumer (lines 62-75).
THEOREM NoOverflow ==
    ASSUME RetireLimitSuffices
    PROVE  Spec => []RetireFits
<1>1. IInv => RetireFits
  BY DEF IInv, RangeInv, RetireFits, ScanPC
<1>. QED  BY <1>1, Invariance, PTL

\* The published nodes are always a list that starts at the head.
THEOREM ListIsIntact ==
    ASSUME RetireLimitSuffices
    PROVE  Spec => []StackShape
<1>1. IInv => StackShape
  BY DEF IInv
<1>. QED  BY <1>1, Invariance, PTL

\* No ABA: a successful CAS of hps_pop installs the current successor of the
\* node it unlinks, although addresses are recycled at once (line 117).
THEOREM NoAba ==
    ASSUME RetireLimitSuffices
    PROVE  Spec => []CasInstallsSuccessor
<1>1. ASSUME IInv
      PROVE  CasInstallsSuccessor
  <2>1. SUFFICES ASSUME NEW c \in Consumers, pc[c] = "pop_cas", head = old_head[c]
                 PROVE  heap[head] = "stack" /\ new_next[c] = next[head]
    BY DEF CasInstallsSuccessor
  <2>2. head \in Addr /\ new_next[c] = next[head]
    BY <1>1, <2>1 DEF IInv, PopInv
  <2>3. heap[head] = "stack"
    BY <1>1, <2>2, ConstantsAssumption DEF IInv, StackShape, InStack
  <2>. QED  BY <2>2, <2>3
<1>. QED  BY <1>1, Invariance, PTL

-----------------------------------------------------------------------------
(* The stack that the list implements.                                     *)

StackNodes == {a \in Addr : heap[a] = "stack"}

\* The list from head ends, and holds the nodes that were pushed and not popped.
ListInv ==
    /\ Whole(head, Addr, next, NULL)
    /\ ChainSet(head, next, NULL) = StackNodes

\* What the list looks like to the abstract stack.
LEMMA ListFacts ==
    ASSUME IInv, ListInv
    PROVE  /\ next \in Links(Addr, NULL) /\ IsFiniteSet(Addr) /\ NULL \notin Addr
           /\ Chain(head, next, NULL) \in Seq(Addr)
           /\ head = IF Chain(head, next, NULL) = <<>> THEN NULL ELSE Chain(head, next, NULL)[1]
           /\ \A k \in 1 .. Len(Chain(head, next, NULL)) : Chain(head, next, NULL)[k] \in StackNodes
<1>1. next \in Links(Addr, NULL) /\ IsFiniteSet(Addr) /\ NULL \notin Addr
  BY ConstantsAssumption DEF IInv, TypeOK, Links, Ptr
<1>2. IsChain(Chain(head, next, NULL), head, Addr, next, NULL)
  BY DEF ListInv, Whole
<1>3. ChainSet(head, next, NULL) = {Chain(head, next, NULL)[k] : k \in 1 .. Len(Chain(head, next, NULL))}
  BY <1>2, ChainSetElements
<1>. QED  BY <1>1, <1>2, <1>3 DEF IsChain, ListInv

\* The successful CAS of hps_push pushes the node.
LEMMA PushStep ==
    ASSUME IInv, ListInv, NEW p \in Producers, PushCas(p)
    PROVE  ListInv' /\ Stack!Push
<1>. DEFINE a == node[p]
            c == Chain(head, next, NULL)
<1>1. /\ a \in Addr /\ heap[a] = "private" /\ next[a] = head
      /\ head' = a /\ heap' = [heap EXCEPT ![a] = "stack"] /\ next' = next /\ node' = node
  BY DEF IInv, PushCas, OwnInv, Pushing, popVars
<1>2. /\ next \in Links(Addr, NULL) /\ IsFiniteSet(Addr) /\ NULL \notin Addr
      /\ \A k \in 1 .. Len(c) : c[k] \in StackNodes
  BY ListFacts
<1>. HIDE DEF a
<1>3. Whole(next[a], Addr, next, NULL) /\ a \notin ChainSet(next[a], next, NULL)
  BY <1>1 DEF ListInv, StackNodes
<1>4. /\ Whole(a, Addr, next, NULL)
      /\ Chain(a, next, NULL) = <<a>> \o Chain(next[a], next, NULL)
      /\ ChainSet(a, next, NULL) = {a} \union ChainSet(next[a], next, NULL)
  BY <1>1, <1>2, <1>3, PushOnChain
<1>5. StackNodes' = {a} \union StackNodes
  BY <1>1 DEF IInv, TypeOK, StackNodes
<1>6. ListInv'
  BY <1>1, <1>4, <1>5 DEF ListInv
<1>7. Chain(head, next, NULL)' = <<a>> \o c
  BY <1>1, <1>4
<1>8. \A k \in 1 .. Len(c) : c[k] # a
  BY <1>1, <1>2 DEF StackNodes
<1>. QED  BY <1>1, <1>6, <1>7, <1>8 DEF Stack!Push

\* The successful CAS of hps_pop takes the node pushed last.
LEMMA PopIsPop ==
    ASSUME IInv, ListInv, NEW c \in Consumers, PopCas(c)
    PROVE  ListInv' /\ Stack!Pop(c)
<1>. DEFINE a == old_head[c]
            q == Chain(head, next, NULL)
            link == next
<1>1. /\ a \in Addr /\ new_next[c] = next[a] /\ head = a
      /\ head' = new_next[c] /\ heap' = [heap EXCEPT ![a] = "popped"] /\ next' = next
      /\ node' = [node EXCEPT ![c] = a]
  BY DEF IInv, PopCas, PopInv
<1>2. /\ next \in Links(Addr, NULL) /\ IsFiniteSet(Addr) /\ NULL \notin Addr
      /\ q \in Seq(Addr) /\ head = IF q = <<>> THEN NULL ELSE q[1]
  BY ListFacts
<1>. HIDE DEF a, q
<1>3. /\ a \in Addr /\ Whole(a, Addr, link, NULL)
      /\ link \in Links(Addr, NULL) /\ IsFiniteSet(Addr) /\ NULL \notin Addr
  BY <1>1, <1>2 DEF ListInv
<1>. HIDE DEF link
<1>4. /\ Whole(link[a], Addr, link, NULL)
      /\ Chain(a, link, NULL) = <<a>> \o Chain(link[a], link, NULL)
      /\ Tail(Chain(a, link, NULL)) = Chain(link[a], link, NULL)
      /\ a \notin ChainSet(link[a], link, NULL)
      /\ ChainSet(a, link, NULL) = {a} \union ChainSet(link[a], link, NULL)
  BY <1>3, FirstOfChain
<1>5. StackNodes' = StackNodes \ {a}
  BY <1>1 DEF IInv, TypeOK, StackNodes
<1>6. ListInv'
  BY <1>1, <1>4, <1>5 DEF ListInv, link
<1>7. Chain(head, next, NULL)' = Tail(q)
  BY <1>1, <1>4 DEF q, link
<1>8. q # <<>> /\ Head(q) = a
  BY <1>1, <1>2
<1>9. [d \in Consumers |-> node[d]]' = [[d \in Consumers |-> node[d]] EXCEPT ![c] = a]
  BY <1>1 DEF IInv, TypeOK, Thread
<1>. QED  BY <1>6, <1>7, <1>8, <1>9 DEF Stack!Pop, q

\* No other step changes the list or what the consumers have popped.
LEMMA OtherListSteps ==
    ASSUME IInv, ListInv, [Next]_vars, ~ \E p \in Producers : PushCas(p),
           ~ \E c \in Consumers : PopCas(c)
    PROVE  /\ ListInv' /\ Chain(head, next, NULL)' = Chain(head, next, NULL)
           /\ StackNodes' = StackNodes
           /\ [c \in Consumers |-> node[c]]' = [c \in Consumers |-> node[c]]
<1>. USE ConstantsAssumption
<1>1. TypeOK /\ OwnInv /\ PopInv /\ StackShape
  BY DEF IInv
<1>2. ASSUME head' = head, StackNodes' = StackNodes, \A a \in StackNodes : next'[a] = next[a],
             next' \in [Addr -> Ptr]
      PROVE  ListInv' /\ Chain(head, next, NULL)' = Chain(head, next, NULL)
  <2>1. /\ next \in Links(Addr, NULL) /\ IsFiniteSet(Addr) /\ NULL \notin Addr
    BY ListFacts
  <2>2. next' \in Links(Addr, NULL) /\ \A a \in ChainSet(head, next, NULL) : next'[a] = next[a]
    BY <1>2 DEF Links, Ptr, ListInv
  <2>3. Whole(head, Addr, next, NULL)
    BY DEF ListInv
  <2>4. /\ Chain(head, next', NULL) = Chain(head, next, NULL)
        /\ Whole(head, Addr, next', NULL)
        /\ ChainSet(head, next', NULL) = ChainSet(head, next, NULL)
    BY <2>1, <2>2, <2>3, ChainKept
  <2>. QED  BY <1>2, <2>4 DEF ListInv
<1>3. /\ head' = head /\ StackNodes' = StackNodes /\ \A a \in StackNodes : next'[a] = next[a]
      /\ next' \in [Addr -> Ptr]
  <2>1. ASSUME NEW p \in Producers, Malloc(p)
        PROVE  /\ head' = head /\ StackNodes' = StackNodes /\ next' = next
    BY <1>1, <2>1 DEF TypeOK, Malloc, StackNodes
  <2>2. ASSUME NEW p \in Producers, PushLink(p)
        PROVE  /\ head' = head /\ StackNodes' = StackNodes
               /\ \A a \in StackNodes : next'[a] = next[a]
               /\ next' \in [Addr -> Ptr]
    BY <1>1, <2>2 DEF TypeOK, PushLink, OwnInv, Pushing, StackNodes, Thread
  <2>3. ASSUME NEW c \in Consumers, Retire(c)
        PROVE  /\ head' = head /\ StackNodes' = StackNodes /\ next' = next
    BY <1>1, <2>3 DEF TypeOK, Retire, OwnInv, Holding, StackNodes
  <2>4. ASSUME NEW c \in Consumers, ScanFree(c)
        PROVE  /\ head' = head /\ StackNodes' = StackNodes /\ next' = next
    <3>1. heap[retired[c][i[c]]] = "retired"
      BY <2>4, ScannedEntry DEF ScanFree, ScanPC
    <3>. QED  BY <1>1, <2>4, <3>1 DEF TypeOK, ScanFree, StackNodes
  <2>5. CASE UNCHANGED stackVars
    BY <1>1, <2>5 DEF TypeOK, stackVars, StackNodes
  <2>. QED  BY <1>1, <2>1, <2>2, <2>3, <2>4, <2>5, StackSteps DEF TypeOK
<1>4. \A c \in Consumers : node'[c] = node[c]
  <2>1. ASSUME NEW p \in Producers, Malloc(p) PROVE \A c \in Consumers : node'[c] = node[c]
    BY <1>1, <2>1, ThreadsAssumption DEF TypeOK, Malloc, Thread
  <2>2. CASE node' = node
    BY <2>2
  <2>. QED
    BY <2>1, <2>2
    DEF Next, ProducerStep, ConsumerStep, PopStep, RetireStep, vars, popVars,
        Register, PushLoad, PushLink, PushCasFails, PopEmpty, PopLoad, PopProtect, PopValidate,
        PopNext, PopCasFails, PopRelease, Retire, ScanCount, ScanKeep, ScanMiss, ScanFree
<1>. QED  BY <1>2, <1>3, <1>4

\* The list starts empty.
LEMMA InitListInv ==
    ASSUME Init
    PROVE  ListInv /\ Stack!Init
<1>1. IInv /\ head = NULL /\ StackNodes = {}
  BY InitIInv DEF Init, StackNodes
<1>2. next \in Links(Addr, NULL) /\ IsFiniteSet(Addr) /\ NULL \notin Addr
  BY <1>1, ConstantsAssumption DEF IInv, TypeOK, Links, Ptr
<1>3. /\ Chain(NULL, next, NULL) = <<>> /\ Whole(NULL, Addr, next, NULL)
      /\ ChainSet(NULL, next, NULL) = {}
  BY <1>2, EmptyChain
<1>4. [c \in Consumers |-> node[c]] = [c \in Consumers |-> NULL]
  BY DEF Init, Thread
<1>. QED  BY <1>1, <1>3, <1>4 DEF ListInv, Stack!Init

\* The lock-free stack implements a stack: push and pop take effect at one
\* instant each, and a pop takes the node pushed last, for any number of
\* threads (lines 83-128).
THEOREM StackIsImplemented ==
    ASSUME RetireLimitSuffices
    PROVE  Spec => ImplementsStack
<1>1. ASSUME Init PROVE ListInv /\ Stack!Init
  BY <1>1, InitListInv
<1>2. ASSUME IInv, ListInv, [Next]_vars
      PROVE  /\ ListInv'
             /\ [Stack!StackNext]_<<Chain(head, next, NULL), [c \in Consumers |-> node[c]]>>
  BY <1>2, PushStep, PopIsPop, OtherListSteps DEF Stack!StackNext
<1>. QED  BY <1>1, <1>2, Invariance, PTL DEF Spec, ImplementsStack, Stack!StackSpec

-----------------------------------------------------------------------------
(* The stack is empty when a balanced workload has ended.  An iteration is *)
(* the pair of its thread and the value of ops while it runs, so that      *)
(* pushes and pops are counted as elements of finite sets.                 *)

\* The iterations whose push, whose pop has taken effect.
Pushed == {w \in Producers \X (1 .. OPS) : w[2] > ops[w[1]]}
Took(c) == pc[c] \in {"pop_release", "retire"} \union ScanPC
Popped == {w \in Consumers \X (1 .. OPS) :
              w[2] > ops[w[1]] \/ (w[2] = ops[w[1]] /\ Took(w[1]))}

\* A node on the list was pushed and not popped yet.
CountInv ==
    /\ \A x \in Thread : ops[x] \in 0 .. OPS /\ (pc[x] = "done" => ops[x] = 0)
    /\ Cardinality(Pushed) = Cardinality(StackNodes) + Cardinality(Popped)

\* The counted sets are finite.
LEMMA CountedSets ==
    /\ IsFiniteSet(Pushed) /\ IsFiniteSet(Popped) /\ IsFiniteSet(StackNodes)
    /\ IsFiniteSet(Producers) /\ IsFiniteSet(Consumers)
    /\ IsFiniteSet(1 .. OPS) /\ Cardinality(1 .. OPS) = OPS
    /\ Cardinality(Pushed) \in Nat /\ Cardinality(Popped) \in Nat
    /\ Cardinality(StackNodes) \in Nat
<1>1. IsFiniteSet(1 .. OPS) /\ Cardinality(1 .. OPS) = OPS
  BY FS_Interval, ConstantsAssumption
<1>2. Producers \in SUBSET Thread /\ Consumers \in SUBSET Thread /\ IsFiniteSet(Thread)
  BY ThreadsAssumption DEF Thread
<1>3. IsFiniteSet(Producers) /\ IsFiniteSet(Consumers)
  BY <1>2, FS_Subset
<1>4. IsFiniteSet(Producers \X (1 .. OPS)) /\ IsFiniteSet(Consumers \X (1 .. OPS))
  BY <1>1, <1>3, FS_Product
<1>5. /\ Pushed \in SUBSET (Producers \X (1 .. OPS)) /\ Popped \in SUBSET (Consumers \X (1 .. OPS))
      /\ StackNodes \in SUBSET Addr /\ IsFiniteSet(Addr)
  BY ConstantsAssumption DEF Pushed, Popped, StackNodes
<1>6. IsFiniteSet(Pushed) /\ IsFiniteSet(Popped) /\ IsFiniteSet(StackNodes)
  BY <1>4, <1>5, FS_Subset
<1>. QED  BY <1>1, <1>3, <1>6, FS_CardinalityType

\* An iteration is over, or a thread does something else than end one.
LEMMA OpsStep ==
    ASSUME IInv, CountInv, NEW x \in Thread, EndIteration(x), pc[x] \notin {"register", "done"}
    PROVE  /\ ops[x] \in 1 .. OPS /\ ops' = [ops EXCEPT ![x] = ops[x] - 1]
           /\ pc' \in [Thread -> ProducerPC \union ConsumerPC]
           /\ pc' = [pc EXCEPT ![x] = LoopHead(x, ops[x] - 1)]
           /\ ~ LoopHead(x, ops[x] - 1) \in {"pop_release", "retire"} \union ScanPC
           /\ \A y \in Thread : ops'[y] \in 0 .. OPS /\ (pc'[y] = "done" => ops'[y] = 0)
<1>1. ops[x] \in 1 .. OPS /\ TypeOK
  BY ConstantsAssumption DEF IInv, RangeInv, CountInv
<1>2. pc' \in [Thread -> ProducerPC \union ConsumerPC]
  BY <1>1, EndIterationType DEF PcTypeOK
<1>3. /\ ops' = [ops EXCEPT ![x] = ops[x] - 1]
      /\ pc' = [pc EXCEPT ![x] = LoopHead(x, ops[x] - 1)]
  BY DEF EndIteration, Goto
<1>4. /\ ~ LoopHead(x, ops[x] - 1) \in {"pop_release", "retire"} \union ScanPC
      /\ LoopHead(x, ops[x] - 1) = "done" => ops[x] - 1 = 0
  BY DEF LoopHead, ScanPC
<1>. QED  BY <1>1, <1>2, <1>3, <1>4, ConstantsAssumption DEF CountInv, TypeOK

\* A push adds one iteration and one node.
LEMMA PushCount ==
    ASSUME IInv, CountInv, NEW p \in Producers, PushCas(p)
    PROVE  CountInv'
<1>. DEFINE w == <<p, ops[p]>>
<1>. USE ConstantsAssumption, ThreadsAssumption
<1>1. TypeOK /\ node[p] \in Addr /\ heap[node[p]] = "private" /\ p \in Thread /\ p \notin Consumers
  BY DEF IInv, PushCas, OwnInv, Pushing, Thread
<1>2. /\ ops[p] \in 1 .. OPS /\ ops' = [ops EXCEPT ![p] = ops[p] - 1]
      /\ pc' = [pc EXCEPT ![p] = LoopHead(p, ops[p] - 1)]
      /\ \A y \in Thread : ops'[y] \in 0 .. OPS /\ (pc'[y] = "done" => ops'[y] = 0)
  BY <1>1, OpsStep DEF PushCas
<1>3. Pushed' = Pushed \union {w} /\ w \notin Pushed
  BY <1>1, <1>2 DEF Pushed, TypeOK, Thread
<1>4. Popped' = Popped
  BY <1>1, <1>2 DEF Popped, Took, TypeOK, Thread
<1>5. StackNodes' = StackNodes \union {node[p]} /\ node[p] \notin StackNodes
  BY <1>1 DEF PushCas, StackNodes, TypeOK
<1>6. /\ Cardinality(Pushed') = Cardinality(Pushed) + 1
      /\ Cardinality(StackNodes') = Cardinality(StackNodes) + 1
  BY <1>3, <1>5, CountedSets, FS_AddElement
<1>. QED  BY <1>2, <1>4, <1>6, CountedSets DEF CountInv

\* A pop adds one iteration and takes one node away.
LEMMA PopCount ==
    ASSUME IInv, CountInv, NEW c \in Consumers, PopCas(c)
    PROVE  CountInv'
<1>. DEFINE w == <<c, ops[c]>>
<1>. USE ConstantsAssumption, ThreadsAssumption
<1>1. TypeOK /\ c \in Thread /\ ops[c] \in 1 .. OPS /\ ops' = ops
  BY DEF IInv, PopCas, RangeInv, Thread, CountInv
<1>2. pc' = [pc EXCEPT ![c] = "pop_release"] /\ pc[c] = "pop_cas"
  BY DEF PopCas, Goto
<1>3. old_head[c] \in Addr /\ heap[old_head[c]] = "stack"
  BY DEF IInv, PopCas, PopInv, StackShape, InStack
<1>4. Pushed' = Pushed
  BY <1>1 DEF Pushed
<1>5. Popped' = Popped \union {w} /\ w \notin Popped
  BY <1>1, <1>2 DEF Popped, Took, ScanPC, TypeOK, Thread
<1>6. StackNodes' = StackNodes \ {old_head[c]} /\ old_head[c] \in StackNodes
  BY <1>1, <1>3 DEF PopCas, StackNodes, TypeOK
<1>7. /\ Cardinality(Popped') = Cardinality(Popped) + 1
      /\ Cardinality(StackNodes') = Cardinality(StackNodes) - 1
  BY <1>5, <1>6, CountedSets, FS_AddElement, FS_RemoveElement
<1>8. \A y \in Thread : pc'[y] = "done" => pc[y] = "done"
  BY <1>1, <1>2 DEF TypeOK
<1>. QED  BY <1>1, <1>4, <1>7, <1>8, CountedSets DEF CountInv

\* The end of hp_retire ends the iteration whose pop is already counted.
LEMMA RetireCount ==
    ASSUME IInv, CountInv, NEW c \in Consumers, pc[c] \in {"retire"} \union ScanPC, EndIteration(c)
    PROVE  /\ Pushed' = Pushed /\ Popped' = Popped
           /\ \A y \in Thread : ops'[y] \in 0 .. OPS /\ (pc'[y] = "done" => ops'[y] = 0)
<1>. USE ConstantsAssumption, ThreadsAssumption
<1>1. TypeOK /\ c \in Thread /\ pc[c] \notin {"register", "done"} /\ c \notin Producers
  BY DEF IInv, ScanPC, Thread
<1>2. /\ ops[c] \in 1 .. OPS /\ ops' = [ops EXCEPT ![c] = ops[c] - 1]
      /\ pc' = [pc EXCEPT ![c] = LoopHead(c, ops[c] - 1)]
      /\ ~ LoopHead(c, ops[c] - 1) \in {"pop_release", "retire"} \union ScanPC
      /\ \A y \in Thread : ops'[y] \in 0 .. OPS /\ (pc'[y] = "done" => ops'[y] = 0)
  BY <1>1, OpsStep
<1>3. Pushed' = Pushed
  BY <1>1, <1>2 DEF Pushed, TypeOK, Thread
<1>4. Popped' = Popped
  <2>1. Took(c) /\ ~ Took(c)' /\ \A d \in Consumers : d # c => Took(d)' = Took(d) /\ ops'[d] = ops[d]
    BY <1>1, <1>2 DEF Took, TypeOK, Thread
  <2>2. ops'[c] = ops[c] - 1
    BY <1>1, <1>2 DEF TypeOK
  <2>3. \A w \in Consumers \X (1 .. OPS) :
           (w[2] > ops[w[1]] \/ (w[2] = ops[w[1]] /\ Took(w[1])))
             <=> (w[2] > ops'[w[1]] \/ (w[2] = ops'[w[1]] /\ Took(w[1])'))
    <3>. SUFFICES ASSUME NEW d \in Consumers, NEW k \in 1 .. OPS
                  PROVE (k > ops[d] \/ (k = ops[d] /\ Took(d)))
                          <=> (k > ops'[d] \/ (k = ops'[d] /\ Took(d)'))
      OBVIOUS
    <3>1. CASE d = c
      BY <1>2, <2>1, <2>2, <3>1
    <3>2. CASE d # c
      BY <2>1, <3>2
    <3>. QED  BY <3>1, <3>2
  <2>. QED  BY <2>3 DEF Popped
<1>. QED  BY <1>2, <1>3, <1>4

\* No other step is counted.
LEMMA OtherCounts ==
    ASSUME IInv, CountInv, [Next]_vars, ~ \E p \in Producers : PushCas(p),
           ~ \E c \in Consumers : PopCas(c), StackNodes' = StackNodes
    PROVE  CountInv'
<1>. USE ConstantsAssumption, ThreadsAssumption
<1>1. TypeOK
  BY DEF IInv
<1>2. SUFFICES /\ Pushed' = Pushed /\ Popped' = Popped
               /\ \A y \in Thread : ops'[y] \in 0 .. OPS /\ (pc'[y] = "done" => ops'[y] = 0)
  BY <1>2 DEF CountInv
<1>3. ASSUME ops' = ops,
             \A x \in Thread : pc'[x] = "done" => pc[x] = "done" \/ ops[x] = 0,
             \A c \in Consumers : Took(c)' = Took(c)
      PROVE  /\ Pushed' = Pushed /\ Popped' = Popped
             /\ \A y \in Thread : ops'[y] \in 0 .. OPS /\ (pc'[y] = "done" => ops'[y] = 0)
  BY <1>3 DEF Pushed, Popped, CountInv
<1>4. ASSUME NEW c \in Consumers, pc[c] \in {"retire"} \union ScanPC, EndIteration(c)
      PROVE  /\ Pushed' = Pushed /\ Popped' = Popped
             /\ \A y \in Thread : ops'[y] \in 0 .. OPS /\ (pc'[y] = "done" => ops'[y] = 0)
  BY <1>4, RetireCount
<1>5. ASSUME NEW x \in Thread, NEW label, Goto(x, label), ops' = ops,
             label = "done" => ops[x] = 0,
             pc[x] \in {"pop_release", "retire"} \union ScanPC
               <=> label \in {"pop_release", "retire"} \union ScanPC
      PROVE  /\ ops' = ops
             /\ \A y \in Thread : pc'[y] = "done" => pc[y] = "done" \/ ops[y] = 0
             /\ \A c \in Consumers : Took(c)' = Took(c)
  BY <1>1, <1>5 DEF Goto, TypeOK, Took, Thread
<1>6. ASSUME NEW x \in Thread, Register(x)
      PROVE  \E label : Goto(x, label) /\ ops' = ops /\ (label = "done" => ops[x] = 0)
                /\ (pc[x] \in {"pop_release", "retire"} \union ScanPC
                      <=> label \in {"pop_release", "retire"} \union ScanPC)
  <2>1. /\ ~ LoopHead(x, ops[x]) \in {"pop_release", "retire"} \union ScanPC
        /\ LoopHead(x, ops[x]) = "done" => ops[x] = 0
        /\ ~ pc[x] \in {"pop_release", "retire"} \union ScanPC
    BY <1>6 DEF Register, LoopHead, ScanPC
  <2>2. Goto(x, LoopHead(x, ops[x])) /\ ops' = ops
    BY <1>6 DEF Register
  <2>. QED  BY <2>1, <2>2
<1>7. ASSUME NEW p \in Producers, ProducerStep(p), ~ PushCas(p)
      PROVE  /\ ops' = ops
             /\ \A x \in Thread : pc'[x] = "done" => pc[x] = "done" \/ ops[x] = 0
             /\ \A c \in Consumers : Took(c)' = Took(c)
  <2>1. p \in Thread
    BY DEF Thread
  <2>2. CASE Register(p)
    BY <1>5, <1>6, <2>1, <2>2
  <2>3. CASE Malloc(p)
    BY <1>5, <2>1, <2>3 DEF Malloc, ScanPC
  <2>4. CASE PushLoad(p)
    BY <1>5, <2>1, <2>4 DEF PushLoad, ScanPC
  <2>5. CASE PushLink(p)
    BY <1>5, <2>1, <2>5 DEF PushLink, ScanPC
  <2>6. CASE PushCasFails(p)
    BY <1>5, <2>1, <2>6 DEF PushCasFails, ScanPC
  <2>. QED  BY <1>7, <2>2, <2>3, <2>4, <2>5, <2>6 DEF ProducerStep
<1>8. ASSUME NEW c \in Consumers, PopStep(c), ~ PopCas(c)
      PROVE  /\ ops' = ops
             /\ \A x \in Thread : pc'[x] = "done" => pc[x] = "done" \/ ops[x] = 0
             /\ \A d \in Consumers : Took(d)' = Took(d)
  <2>1. c \in Thread
    BY DEF Thread
  <2>2. CASE PopEmpty(c)
    BY <1>5, <2>1, <2>2 DEF PopEmpty, ScanPC
  <2>3. CASE PopLoad(c)
    BY <1>5, <2>1, <2>3 DEF PopLoad, ScanPC
  <2>4. CASE PopProtect(c)
    BY <1>5, <2>1, <2>4 DEF PopProtect, popVars, ScanPC
  <2>5. CASE PopValidate(c)
    BY <1>5, <2>1, <2>5 DEF PopValidate, ScanPC
  <2>6. CASE PopNext(c)
    BY <1>5, <2>1, <2>6 DEF PopNext, ScanPC
  <2>7. CASE PopCasFails(c)
    BY <1>5, <2>1, <2>7 DEF PopCasFails, ScanPC
  <2>8. CASE PopRelease(c)
    BY <1>5, <2>1, <2>8 DEF PopRelease, ScanPC
  <2>. QED  BY <1>8, <2>2, <2>3, <2>4, <2>5, <2>6, <2>7, <2>8 DEF PopStep
<1>9. ASSUME NEW c \in Consumers, RetireStep(c)
      PROVE  \/ pc[c] \in {"retire"} \union ScanPC /\ EndIteration(c)
             \/ /\ ops' = ops
                /\ \A x \in Thread : pc'[x] = "done" => pc[x] = "done" \/ ops[x] = 0
                /\ \A d \in Consumers : Took(d)' = Took(d)
  <2>1. c \in Thread
    BY DEF Thread
  <2>2. CASE Retire(c)
    BY <1>5, <2>1, <2>2 DEF Retire, ScanPC
  <2>3. CASE ScanCount(c)
    BY <1>5, <2>1, <2>3 DEF ScanCount, ScanPC
  <2>4. CASE ScanKeep(c)
    BY <1>5, <2>1, <2>4 DEF ScanKeep, NextEntry, ScanPC
  <2>5. CASE ScanMiss(c)
    <3>1. CASE pc' = pc
      BY <2>5, <3>1 DEF ScanMiss, Took
    <3>2. CASE Goto(c, IF t[c] + 1 < n[c] THEN "scan_load" ELSE "scan_free")
      BY <1>5, <2>1, <2>5, <3>2 DEF ScanMiss, ScanPC
    <3>. QED  BY <2>5, <3>1, <3>2 DEF ScanMiss
  <2>6. CASE ScanFree(c)
    BY <1>5, <2>1, <2>6 DEF ScanFree, NextEntry, ScanPC
  <2>. QED  BY <1>9, <2>2, <2>3, <2>4, <2>5, <2>6 DEF RetireStep
<1>10. CASE UNCHANGED vars
  BY <1>3, <1>10 DEF vars, Took
<1>11. ASSUME NEW c \in Consumers, Register(c)
       PROVE  /\ ops' = ops
              /\ \A x \in Thread : pc'[x] = "done" => pc[x] = "done" \/ ops[x] = 0
              /\ \A d \in Consumers : Took(d)' = Took(d)
  BY <1>5, <1>6, <1>11 DEF Thread
<1>. QED  BY <1>3, <1>4, <1>7, <1>8, <1>9, <1>10, <1>11 DEF Next, ConsumerStep

\* When every worker has ended, as many nodes were popped as were pushed.
LEMMA NothingIsLeft ==
    ASSUME IInv, CountInv
    PROVE  EmptyAtEnd
<1>. USE ConstantsAssumption, ThreadsAssumption
<1>1. SUFFICES ASSUME AllDone, Cardinality(Producers) = Cardinality(Consumers)
               PROVE  head = NULL /\ StackNodes = {}
  BY DEF EmptyAtEnd, StackNodes
<1>2. \A x \in Thread : pc[x] = "done" /\ ops[x] = 0
  BY <1>1 DEF AllDone, CountInv
<1>3. Pushed = Producers \X (1 .. OPS)
  BY <1>2 DEF Pushed, Thread
<1>4. Popped = Consumers \X (1 .. OPS)
  BY <1>2 DEF Popped, Thread
<1>5. /\ Cardinality(Pushed) = Cardinality(Producers) * OPS
      /\ Cardinality(Popped) = Cardinality(Consumers) * OPS
  BY <1>3, <1>4, CountedSets, FS_Product
<1>6. Cardinality(StackNodes) = 0
  BY <1>1, <1>5, CountedSets DEF CountInv
<1>7. StackNodes = {}
  BY <1>6, CountedSets, FS_EmptySet
<1>8. head = NULL
  BY <1>7 DEF IInv, StackShape, InStack, StackNodes
<1>. QED  BY <1>7, <1>8

\* What main prints (line 173): after any number of producers and as many
\* consumers, each with any number of iterations, the stack is empty.
THEOREM BalancedRunsEndEmpty ==
    ASSUME RetireLimitSuffices
    PROVE  Spec => []EmptyAtEnd
<1>. USE ConstantsAssumption, ThreadsAssumption
<1>1. ASSUME Init PROVE ListInv /\ CountInv
  <2>1. StackNodes = {} /\ Pushed = {} /\ Popped = {}
    BY <1>1 DEF Init, StackNodes, Pushed, Popped, Took, ScanPC, Thread
  <2>2. \A x \in Thread : ops[x] \in 0 .. OPS /\ (pc[x] = "done" => ops[x] = 0)
    BY <1>1 DEF Init
  <2>3. CountInv
    BY <2>1, <2>2, FS_EmptySet DEF CountInv
  <2>. QED  BY <1>1, <2>3, InitListInv
<1>2. ASSUME IInv, ListInv, CountInv, [Next]_vars
      PROVE  ListInv' /\ CountInv'
  <2>1. ASSUME NEW p \in Producers, PushCas(p) PROVE ListInv' /\ CountInv'
    BY <1>2, <2>1, PushStep, PushCount
  <2>2. ASSUME NEW c \in Consumers, PopCas(c) PROVE ListInv' /\ CountInv'
    BY <1>2, <2>2, PopIsPop, PopCount
  <2>3. CASE /\ ~ \E p \in Producers : PushCas(p)
             /\ ~ \E c \in Consumers : PopCas(c)
    BY <1>2, <2>3, OtherListSteps, OtherCounts
  <2>. QED  BY <2>1, <2>2, <2>3
<1>3. IInv /\ CountInv => EmptyAtEnd
  BY NothingIsLeft
<1>. QED  BY <1>1, <1>2, <1>3, Invariance, PTL DEF Spec

=============================================================================
