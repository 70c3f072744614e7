------------------------- MODULE UserspaceRcuProofs -------------------------
(***************************************************************************)
(* The safety of the RCU list for every number of readers, writers, nodes  *)
(* and iterations, when at most one thread deletes.                        *)
(***************************************************************************)
EXTENDS UserspaceRcu, ChainTheorems

\* urcu_synchronize protects a node from readers, not one deleter from another.
OneDeleter == \A d, e \in Deleters : d = e

-----------------------------------------------------------------------------
(* The inductive invariant, by topic.                                      *)

Waiting == {"create", "register"}
Section == {"find_head", "find_key", "find_next", "read_unlock"}

\* Where main is until it starts the threads.
Setup == InsertPC \union {"start"}

\* The places of a thread in the code of its role.
Code(x) ==
    IF x \in Readers THEN FindPC \union Waiting \union {"done"}
    ELSE IF x \in Deleters THEN DeletePC \union Waiting \union {"done"}
    ELSE IF x = Main THEN Setup \union {"join_writers", "join_readers", "done"}
    ELSE InsertPC \union Waiting \union {"done"}

\* Every thread runs the code of its role, and has an iteration left in it.
ControlInv ==
    /\ \A x \in Thread : pc[x] \in Code(x)
    /\ \A x \in Thread : pc[x] \in InsertPC \union DeletePC => ops[x] > 0
    /\ pc[Main] \in Setup => \A x \in Thread \ {Main} : pc[x] = "create"

Registered == {x \in Thread : tl_rcu_id[x] # -1}

\* The registered threads have the ids below rcu_thread_count.
IdsInv ==
    /\ \A x \in Thread : tl_rcu_id[x] = -1 <=> pc[x] \in Waiting
    /\ rcu_thread_count = Cardinality(Registered)
    /\ \A x \in Registered : tl_rcu_id[x] \in 0 .. rcu_thread_count - 1
    /\ \A x, y \in Registered : tl_rcu_id[x] = tl_rcu_id[y] => x = y

\* A reader is counted, once, while it is in its read section.
CountsInv ==
    /\ \A r \in Readers \intersect Registered :
          reader_counts[tl_rcu_id[r]] = IF pc[r] \in Section THEN 1 ELSE 0
    /\ \A id \in Ids : id >= rcu_thread_count => reader_counts[id] = 0

\* The pointers that are about to be followed are no null pointers.
PointersInv ==
    /\ \A d \in Deleters : pc[d] \in DeletePC \ {"del_load"} => old_head[d] \in Addr
    /\ \A r \in Readers : pc[r] = "find_next" => p[r] \in Addr

ThreadInv == TypeOK /\ ControlInv /\ IdsInv /\ CountsInv /\ PointersInv

Inserting(x) == pc[x] \in {"ins_load", "ins_link", "ins_cas"}

\* An inserter owns its node until the CAS that puts it in the list.
InsertInv ==
    /\ \A x \in Inserters : Inserting(x) =>
          /\ new_node[x] \in Addr /\ heap[new_node[x]] = "private"
          /\ pc[x] = "ins_cas" => next[new_node[x]] = old_head[x]
    /\ \A x, y \in Inserters :
          Inserting(x) /\ Inserting(y) /\ new_node[x] = new_node[y] => x = y

\* The node a deleter works on is in the list until its CAS, with the successor
\* the deleter has read, and waits for the end of the grace period after it.
DeleteInv ==
    \A d \in Deleters :
       /\ pc[d] \in {"del_key", "del_next", "del_cas"} => heap[old_head[d]] = "list"
       /\ pc[d] = "del_cas" => new_head[d] = next[old_head[d]]
       /\ pc[d] \in {"sync", "sync_read", "del_free"} => heap[old_head[d]] = "unlinked"

\* The list from rcu_list_head ends, and holds what it has to hold.
ListInv ==
    /\ Whole(rcu_list_head, Addr, next, NULL)
    /\ ListIsExact

\* A reader sees a list that ends, of nodes that are not free, and it has not
\* passed a node with the key.
SeesAList(r) ==
    /\ Whole(p[r], Addr, next, NULL)
    /\ \A a \in Nodes(p[r]) : heap[a] \in {"list", "unlinked"}
    /\ pc[r] = "find_next" => key[p[r]] # wanted[r]

FindInv == \A r \in Readers : pc[r] \in {"find_key", "find_next"} => SeesAList(r)

\* The ids whose readers d has found outside, or need not look for: they
\* registered after d read rcu_thread_count.
Passed(d, id) == id < i[d] \/ id >= n[d]

\* A reader that d has passed does not arrive at the unlinked node.
Grace(d, r) ==
    /\ pc[d] \in {"sync_read", "del_free"}
    /\ pc[r] \in {"find_key", "find_next"}
    /\ Passed(d, tl_rcu_id[r])
    => old_head[d] \notin Nodes(p[r])

GraceInv ==
    /\ \A d \in Deleters : pc[d] = "del_free" => i[d] >= n[d]
    /\ \A d \in Deleters, r \in Readers : Grace(d, r)

MemoryInv == InsertInv /\ DeleteInv /\ ListInv /\ FindInv /\ GraceInv

IInv == ThreadInv /\ MemoryInv

-----------------------------------------------------------------------------
(* Threads, ids and counts.                                                *)

\* The places a thread can be in are labels of the program.
LEMMA CodeIsPC == \A x \in Thread : Code(x) \subseteq PC
BY DEF Code, PC, Setup, Waiting

\* Where an iteration ends, the thread is in its own code.
LEMMA LoopHeadCode ==
    ASSUME NEW x \in Thread, NEW k \in Nat
    PROVE  /\ LoopHead(x, k) \in Code(x)
           /\ LoopHead(x, k) \notin Waiting
           /\ LoopHead(x, k) \in InsertPC \union DeletePC => k > 0
           /\ x \in Readers => LoopHead(x, k) = "check_stop"
           /\ x = Main => LoopHead(x, k) \in Setup
BY UserspaceRcuAssumption
DEF LoopHead, Code, Setup, Waiting, FindPC, DeletePC, InsertPC, Thread, Inserters

\* A jump in the thread's own code.
LEMMA GotoControl ==
    ASSUME ThreadInv, NEW x \in Thread, NEW label \in Code(x), Goto(x, label),
           pc[x] \notin Waiting, x = Main /\ label \in Setup => pc[x] \in Setup,
           label \in InsertPC \union DeletePC => ops[x] > 0, ops' = ops
    PROVE  /\ pc' \in [Thread -> PC] /\ ops' \in [Thread -> Nat]
           /\ ControlInv'
<1>. USE DEF ThreadInv
<1>1. pc' = [pc EXCEPT ![x] = label] /\ pc \in [Thread -> PC] /\ ops \in [Thread -> Nat]
  BY DEF Goto, TypeOK
<1>2. pc' \in [Thread -> PC] /\ \A y \in Thread : pc'[y] = IF y = x THEN label ELSE pc[y]
  BY <1>1, CodeIsPC
<1>3. Main \in Thread
  BY DEF Thread, Inserters
<1>4. pc'[Main] \in Setup => \A y \in Thread \ {Main} : pc'[y] = "create"
  BY <1>2, <1>3 DEF ControlInv, Waiting
<1>. QED  BY <1>1, <1>2, <1>4 DEF ControlInv

\* The end of an iteration.
LEMMA EndIterationControl ==
    ASSUME ThreadInv, NEW x \in Thread, pc[x] \in InsertPC \union DeletePC, EndIteration(x)
    PROVE  /\ pc' \in [Thread -> PC] /\ ops' \in [Thread -> Nat]
           /\ ControlInv'
           /\ Goto(x, LoopHead(x, ops[x] - 1))
<1>. USE DEF ThreadInv
<1>. DEFINE label == LoopHead(x, ops[x] - 1)
<1>1. pc' = [pc EXCEPT ![x] = label] /\ pc \in [Thread -> PC] /\ ops \in [Thread -> Nat]
  BY DEF Goto, TypeOK, EndIteration
<1>2. ops[x] - 1 \in Nat
  BY <1>1 DEF ControlInv
<1>3. /\ label \in Code(x)
      /\ label \in InsertPC \union DeletePC => ops[x] - 1 > 0
  BY <1>2, LoopHeadCode
<1>4. ops' = [ops EXCEPT ![x] = ops[x] - 1]
  BY DEF EndIteration
<1>. HIDE DEF label
<1>5. pc' \in [Thread -> PC] /\ \A y \in Thread : pc'[y] = IF y = x THEN label ELSE pc[y]
  BY <1>1, <1>3, CodeIsPC
<1>6. ops' \in [Thread -> Nat] /\ \A y \in Thread : ops'[y] = IF y = x THEN ops[x] - 1 ELSE ops[y]
  BY <1>1, <1>2, <1>4
<1>7. pc[x] \notin Waiting /\ (x = Main => pc[x] \in Setup) /\ Main \in Thread
  BY <1>1, UserspaceRcuAssumption
  DEF ControlInv, Code, Waiting, InsertPC, DeletePC, Setup, Thread, Inserters
<1>8. pc'[Main] \in Setup => \A y \in Thread \ {Main} : pc'[y] = "create"
  BY <1>5, <1>7 DEF ControlInv, Waiting
<1>. QED  BY <1>3, <1>5, <1>6, <1>8 DEF ControlInv, EndIteration

\* Ids and counts do not change when nobody registers, enters or leaves.
LEMMA QuietStep ==
    ASSUME ThreadInv, NEW x \in Thread, NEW label, Goto(x, label),
           pc[x] \notin Waiting, label \notin Waiting,
           x \in Readers => (pc[x] \in Section <=> label \in Section),
           UNCHANGED rcuVars
    PROVE  IdsInv' /\ CountsInv'
<1>1. /\ pc' = [pc EXCEPT ![x] = label] /\ pc \in [Thread -> PC]
      /\ UNCHANGED <<reader_counts, rcu_thread_count, tl_rcu_id>>
  BY DEF Goto, TypeOK, ThreadInv, rcuVars
<1>2. \A y \in Thread : pc'[y] = IF y = x THEN label ELSE pc[y]
  BY <1>1
<1>3. Registered' = Registered
  BY <1>1 DEF Registered
<1>4. IdsInv'
  <2>1. \A y \in Thread : tl_rcu_id[y] = -1 <=> pc'[y] \in Waiting
    BY <1>2 DEF ThreadInv, IdsInv
  <2>. QED  BY <1>1, <1>3, <2>1 DEF ThreadInv, IdsInv
<1>5. CountsInv'
  <2>1. \A r \in Readers : pc'[r] \in Section <=> pc[r] \in Section
    BY <1>2 DEF Thread
  <2>. QED  BY <1>1, <1>3, <2>1 DEF ThreadInv, CountsInv
<1>. QED  BY <1>4, <1>5

\* An id is an index of reader_counts, also the one the next thread gets.
LEMMA IdsFit ==
    ASSUME TypeOK, IdsInv
    PROVE  /\ IsFiniteSet(Registered)
           /\ rcu_thread_count <= MAX_THREADS
           /\ \A x \in Registered : tl_rcu_id[x] \in Ids
           /\ \A x \in Thread : pc[x] = "register" => rcu_thread_count \in Ids
<1>1. IsFiniteSet(Thread) /\ Registered \subseteq Thread /\ MAX_THREADS \in Nat
  BY UserspaceRcuAssumption DEF Registered
<1>2. IsFiniteSet(Registered) /\ Cardinality(Registered) <= Cardinality(Thread)
  BY <1>1, FS_Subset
<1>3. Cardinality(Thread) \in Nat /\ Cardinality(Thread) <= MAX_THREADS
  BY <1>1, FS_CardinalityType, UserspaceRcuAssumption
<1>4. rcu_thread_count \in Nat /\ rcu_thread_count <= MAX_THREADS
  BY <1>1, <1>2, <1>3 DEF TypeOK, IdsInv
<1>5. ASSUME NEW x \in Thread, pc[x] = "register"
      PROVE  rcu_thread_count \in Ids
  <2>1. Registered # Thread
    BY <1>5 DEF IdsInv, Registered, Waiting
  <2>2. Cardinality(Registered) # Cardinality(Thread)
    BY <1>1, <2>1, FS_Subset
  <2>. QED  BY <1>1, <1>2, <1>3, <1>4, <2>2 DEF IdsInv, Ids
<1>6. \A x \in Registered : tl_rcu_id[x] \in Ids
  BY <1>1, <1>4 DEF IdsInv, Ids
<1>. QED  BY <1>2, <1>4, <1>5, <1>6

-----------------------------------------------------------------------------
(* Steps and the invariant of the threads.                                 *)

\* What a thread may do to its pc when it inserts or deletes.
UpdateJump(x) ==
    \/ EndIteration(x)
    \/ \E label \in (InsertPC \union DeletePC) \intersect Code(x) : Goto(x, label) /\ ops' = ops

\* A step of rcu_list_insert is one access: the thread goes on in it, or ends
\* the iteration.
LEMMA InsertJump ==
    ASSUME ThreadInv, NEW x \in Inserters, InsertStep(x)
    PROVE  x \in Thread /\ pc[x] \in InsertPC /\ UpdateJump(x) /\ UNCHANGED rcuVars
<1>1. x \in Thread /\ InsertPC \subseteq Code(x)
  BY UserspaceRcuAssumption DEF Code, Setup, Thread, Inserters
<1>2. pc[x] \in InsertPC /\ UNCHANGED rcuVars
  BY DEF InsertStep, Insert, InsertLoad, InsertLink, InsertCas, InsertCasFails, InsertPC
<1>3. EndIteration(x) \/ \E label \in InsertPC : Goto(x, label) /\ ops' = ops
  BY DEF InsertStep, Insert, InsertLoad, InsertLink, InsertCas, InsertCasFails, InsertPC
<1>. QED  BY <1>1, <1>2, <1>3 DEF UpdateJump

\* The same for rcu_list_delete and urcu_synchronize.
LEMMA DeleteJump ==
    ASSUME ThreadInv, NEW d \in Deleters, DeleteStep(d)
    PROVE  d \in Thread /\ pc[d] \in DeletePC /\ UpdateJump(d) /\ UNCHANGED rcuVars
<1>1. d \in Thread /\ DeletePC \subseteq Code(d)
  BY UserspaceRcuAssumption DEF Code, Thread
<1>2. pc[d] \in DeletePC /\ UNCHANGED rcuVars
  BY DEF DeleteStep, DeleteLoad, DeleteKey, DeleteNext, DeleteCas, DeleteCasFails,
         Synchronize, SyncRead, Free, DeletePC
<1>3. EndIteration(d) \/ \E label \in DeletePC : Goto(d, label) /\ ops' = ops
  <2>1. CASE SyncRead(d)
    <3>1. (IF i'[d] < n[d] THEN "sync_read" ELSE "del_free") \in DeletePC
      BY DEF DeletePC
    <3>. QED  BY <2>1, <3>1 DEF SyncRead
  <2>. QED
    BY <2>1 DEF DeleteStep, DeleteLoad, DeleteKey, DeleteNext, DeleteCas, DeleteCasFails,
                Synchronize, Free, DeletePC
<1>. QED  BY <1>1, <1>2, <1>3 DEF UpdateJump

\* Inserting and deleting keep the invariant of the threads.
LEMMA UpdateControl ==
    ASSUME ThreadInv, NEW x \in Thread, pc[x] \in InsertPC \union DeletePC, UpdateJump(x),
           UNCHANGED rcuVars
    PROVE  /\ pc' \in [Thread -> PC] /\ ops' \in [Thread -> Nat]
           /\ ControlInv' /\ IdsInv' /\ CountsInv'
<1>1. /\ pc[x] \notin Waiting /\ (x = Main => pc[x] \in Setup) /\ x \notin Readers
      /\ ops[x] > 0 /\ ops[x] - 1 \in Nat
  BY UserspaceRcuAssumption
  DEF ThreadInv, TypeOK, ControlInv, Code, Waiting, InsertPC, DeletePC, FindPC, Setup, Inserters
<1>2. CASE EndIteration(x)
  <2>1. LoopHead(x, ops[x] - 1) \notin Waiting
    BY <1>1, LoopHeadCode
  <2>. QED  BY <1>1, <1>2, <2>1, EndIterationControl, QuietStep
<1>3. ASSUME NEW label \in (InsertPC \union DeletePC) \intersect Code(x),
             Goto(x, label), ops' = ops
      PROVE  /\ pc' \in [Thread -> PC] /\ ops' \in [Thread -> Nat]
             /\ ControlInv' /\ IdsInv' /\ CountsInv'
  <2>1. label \notin Waiting
    BY DEF Waiting, InsertPC, DeletePC
  <2>. QED  BY <1>1, <1>3, <2>1, GotoControl, QuietStep
<1>. QED  BY <1>2, <1>3 DEF UpdateJump

\* So do the reads of rcu_reader and rcu_list_find.
LEMMA FindControl ==
    ASSUME ThreadInv, NEW r \in Readers,
           CheckStop(r) \/ FindHead(r) \/ FindKey(r) \/ FindNext(r)
    PROVE  /\ pc' \in [Thread -> PC] /\ ops' \in [Thread -> Nat]
           /\ ControlInv' /\ IdsInv' /\ CountsInv'
<1>1. r \in Thread /\ r # Main /\ pc[r] \notin Waiting /\ FindPC \union {"done"} \subseteq Code(r)
  BY UserspaceRcuAssumption
  DEF Thread, Inserters, Code, Waiting, CheckStop, FindHead, FindKey, FindNext
<1>2. PICK label \in FindPC \union {"done"} :
        /\ Goto(r, label) /\ (pc[r] \in Section <=> label \in Section)
        /\ ops' = ops /\ UNCHANGED rcuVars
  <2>1. CASE FindKey(r)
    <3>. DEFINE label == IF p[r] = NULL \/ (p[r] # NULL /\ key[p[r]] = wanted[r])
                           THEN "read_unlock" ELSE "find_next"
    <3>1. label \in FindPC /\ label \in Section
      BY DEF FindPC, Section
    <3>. QED  BY <2>1, <3>1 DEF FindKey, Section
  <2>. QED  BY <2>1 DEF CheckStop, FindHead, FindNext, FindPC, Section
<1>3. label \notin Waiting /\ label \notin InsertPC \union DeletePC
  BY <1>2 DEF FindPC, Waiting, InsertPC, DeletePC
<1>. QED  BY <1>1, <1>2, <1>3, GotoControl, QuietStep

\* rcu_register_thread gives the thread an id that nobody has and whose count
\* is zero.
LEMMA RegisterControl ==
    ASSUME ThreadInv, NEW x \in Thread, Register(x)
    PROVE  /\ pc' \in [Thread -> PC] /\ ops' \in [Thread -> Nat]
           /\ tl_rcu_id' \in [Thread -> Int] /\ rcu_thread_count' \in Nat
           /\ ControlInv' /\ IdsInv' /\ CountsInv'
<1>. USE DEF ThreadInv
<1>. DEFINE label == LoopHead(x, ops[x])
            id == rcu_thread_count
<1>1. /\ pc[x] = "register" /\ pc \in [Thread -> PC] /\ ops \in [Thread -> Nat] /\ ops' = ops
      /\ tl_rcu_id \in [Thread -> Int] /\ id \in Nat /\ reader_counts \in [Ids -> Nat]
      /\ pc' = [pc EXCEPT ![x] = label]
      /\ tl_rcu_id' = [tl_rcu_id EXCEPT ![x] = id]
      /\ rcu_thread_count' = id + 1
      /\ reader_counts' = reader_counts
  BY DEF Register, Goto, TypeOK
<1>2. /\ label \in Code(x) /\ label \notin Waiting
      /\ label \in InsertPC \union DeletePC => ops[x] > 0
      /\ x \in Readers => label = "check_stop"
  BY <1>1, LoopHeadCode
<1>3. Main \in Thread /\ x # Main
  <2>1. Main \in Thread /\ "register" \notin Code(Main)
    BY UserspaceRcuAssumption
    DEF Thread, Inserters, Code, Setup, InsertPC
  <2>. QED  BY <1>1, <2>1 DEF ControlInv
<1>4. pc[Main] \notin Setup
  BY <1>1, <1>3 DEF ControlInv
<1>. HIDE DEF label
<1>5. pc' \in [Thread -> PC] /\ \A y \in Thread : pc'[y] = IF y = x THEN label ELSE pc[y]
  BY <1>1, <1>2, CodeIsPC
<1>6. /\ tl_rcu_id' \in [Thread -> Int]
      /\ \A y \in Thread : tl_rcu_id'[y] = IF y = x THEN id ELSE tl_rcu_id[y]
  BY <1>1
<1>7. ControlInv'
  BY <1>1, <1>2, <1>3, <1>4, <1>5 DEF ControlInv
<1>8. IsFiniteSet(Registered) /\ id \in Ids
  BY <1>1, IdsFit
<1>9. x \notin Registered /\ Registered' = Registered \union {x}
  BY <1>1, <1>6 DEF IdsInv, Waiting, Registered
<1>10. rcu_thread_count' = Cardinality(Registered')
  <2>1. Cardinality(Registered \union {x}) = Cardinality(Registered) + 1
    BY <1>8, <1>9, FS_AddElement
  <2>. QED  BY <1>1, <1>9, <2>1 DEF IdsInv
<1>11. \A y \in Registered : tl_rcu_id'[y] = tl_rcu_id[y] /\ tl_rcu_id[y] \in 0 .. id - 1 /\ y # x
  BY <1>6, <1>9 DEF IdsInv, Registered
<1>12. tl_rcu_id'[x] = id
  BY <1>6
<1>13. IdsInv'
  <2>1. \A y \in Thread : tl_rcu_id'[y] = -1 <=> pc'[y] \in Waiting
    BY <1>1, <1>2, <1>5, <1>6 DEF IdsInv
  <2>2. \A y \in Registered' : tl_rcu_id'[y] \in 0 .. rcu_thread_count' - 1
    BY <1>1, <1>9, <1>11, <1>12
  <2>3. \A y, z \in Registered' : tl_rcu_id'[y] = tl_rcu_id'[z] => y = z
    BY <1>1, <1>9, <1>11, <1>12 DEF IdsInv
  <2>. QED  BY <1>10, <2>1, <2>2, <2>3 DEF IdsInv
<1>14. CountsInv'
  <2>1. \A r \in Readers \intersect Registered : pc'[r] = pc[r]
    BY <1>5, <1>11 DEF Thread
  <2>2. x \in Readers => pc'[x] \notin Section
    BY <1>2, <1>5 DEF Section
  <2>3. reader_counts[id] = 0
    BY <1>1, <1>8 DEF CountsInv
  <2>4. \A r \in Readers \intersect Registered' :
           reader_counts'[tl_rcu_id'[r]] = IF pc'[r] \in Section THEN 1 ELSE 0
    <3>. TAKE r \in Readers \intersect Registered'
    <3>1. CASE r = x
      BY <1>1, <1>12, <2>2, <2>3, <3>1
    <3>2. CASE r # x
      BY <1>1, <1>9, <1>11, <2>1, <3>2 DEF CountsInv
    <3>. QED  BY <3>1, <3>2
  <2>5. \A k \in Ids : k >= rcu_thread_count' => reader_counts'[k] = 0
    BY <1>1, UserspaceRcuAssumption DEF CountsInv, Ids
  <2>. QED  BY <2>4, <2>5 DEF CountsInv
<1>. QED  BY <1>1, <1>5, <1>6, <1>7, <1>13, <1>14

\* A reader that enters or leaves changes its own count and no other.
LEMMA SectionControl ==
    ASSUME ThreadInv, NEW r \in Readers, ReadLock(r) \/ ReadUnlock(r)
    PROVE  /\ pc' \in [Thread -> PC] /\ ops' \in [Thread -> Nat]
           /\ reader_counts' \in [Ids -> Nat]
           /\ ControlInv' /\ IdsInv' /\ CountsInv'
<1>. USE DEF ThreadInv
<1>. DEFINE label == IF ReadLock(r) THEN "find_head" ELSE "check_stop"
            id == tl_rcu_id[r]
<1>1. /\ r \in Thread /\ r # Main
      /\ pc[r] \in {"read_lock", "read_unlock"} /\ pc[r] \notin Waiting /\ ops' = ops
      /\ pc \in [Thread -> PC] /\ reader_counts \in [Ids -> Nat]
      /\ UNCHANGED <<tl_rcu_id, rcu_thread_count>>
  BY UserspaceRcuAssumption DEF Thread, Inserters, ReadLock, ReadUnlock, TypeOK, Waiting
<1>2. /\ Goto(r, label) /\ label \in Code(r)
      /\ label \notin Waiting /\ label \notin InsertPC \union DeletePC
  BY DEF ReadLock, ReadUnlock, Code, FindPC, Waiting, InsertPC, DeletePC
<1>3. /\ ReadLock(r) => reader_counts' = [reader_counts EXCEPT ![id] = @ + 1]
      /\ ~ReadLock(r) => reader_counts' = [reader_counts EXCEPT ![id] = @ - 1]
      /\ ReadLock(r) => pc[r] = "read_lock"
      /\ ~ReadLock(r) => pc[r] = "read_unlock"
  BY DEF ReadLock, ReadUnlock
<1>4. pc' \in [Thread -> PC] /\ ops' \in [Thread -> Nat] /\ ControlInv'
  BY <1>1, <1>2, GotoControl
<1>5. pc' = [pc EXCEPT ![r] = label]
  BY <1>2 DEF Goto
<1>6. \A y \in Thread : pc'[y] = IF y = r THEN label ELSE pc[y]
  BY <1>1, <1>5
<1>7. Registered' = Registered /\ r \in Registered /\ id \in Ids /\ rcu_thread_count \in Nat
  BY <1>1, IdsFit DEF IdsInv, Registered, TypeOK
<1>8. IdsInv'
  <2>1. \A y \in Thread : tl_rcu_id'[y] = -1 <=> pc'[y] \in Waiting
    BY <1>1, <1>2, <1>6 DEF IdsInv
  <2>. QED  BY <1>1, <1>7, <2>1 DEF IdsInv
<1>9. /\ reader_counts[id] = IF ReadLock(r) THEN 0 ELSE 1
      /\ pc'[r] \in Section <=> ReadLock(r)
  BY <1>1, <1>3, <1>6, <1>7 DEF CountsInv, Section
<1>10. /\ reader_counts' \in [Ids -> Nat]
       /\ \A k \in Ids : reader_counts'[k] =
            IF k = id THEN IF ReadLock(r) THEN 1 ELSE 0 ELSE reader_counts[k]
  BY <1>1, <1>3, <1>7, <1>9
<1>11. CountsInv'
  <2>1. \A y \in Readers \intersect Registered' :
           reader_counts'[tl_rcu_id'[y]] = IF pc'[y] \in Section THEN 1 ELSE 0
    <3>. TAKE y \in Readers \intersect Registered'
    <3>1. CASE y = r
      BY <1>1, <1>7, <1>9, <1>10, <3>1
    <3>2. CASE y # r
      <4>1. tl_rcu_id[y] # id /\ tl_rcu_id[y] \in Ids /\ y \in Registered /\ y \in Thread
        BY <1>7, <3>2, IdsFit DEF IdsInv, Thread
      <4>. QED  BY <1>1, <1>6, <1>10, <3>2, <4>1 DEF CountsInv
    <3>. QED  BY <3>1, <3>2
  <2>2. \A k \in Ids : k >= rcu_thread_count' => reader_counts'[k] = 0
    <3>1. id < rcu_thread_count
      BY <1>7 DEF IdsInv
    <3>. QED  BY <1>1, <1>7, <1>10, <3>1 DEF CountsInv, Ids
  <2>. QED  BY <2>1, <2>2 DEF CountsInv
<1>. QED  BY <1>4, <1>8, <1>10, <1>11

\* main starts the threads, which have not registered yet.
LEMMA StartControl ==
    ASSUME ThreadInv, Start
    PROVE  /\ pc' \in [Thread -> PC] /\ ops' \in [Thread -> Nat]
           /\ ControlInv' /\ IdsInv' /\ CountsInv'
<1>. USE DEF ThreadInv
<1>1. /\ pc[Main] \in Setup /\ pc[Main] \notin Waiting /\ ops' = ops /\ ops \in [Thread -> Nat]
      /\ UNCHANGED <<reader_counts, rcu_thread_count, tl_rcu_id>>
      /\ pc' = [x \in Thread |-> IF x = Main THEN "join_writers" ELSE "register"]
  BY DEF Start, Setup, Waiting, rcuVars, TypeOK
<1>2. /\ \A x \in Thread \ {Main} : pc[x] = "create" /\ "register" \in Code(x)
      /\ "join_writers" \in Code(Main)
  <2>1. \A x \in Thread \ {Main} : pc[x] = "create" /\ pc[x] \in Code(x)
    BY <1>1 DEF ControlInv
  <2>2. \A x \in Thread : "create" \in Code(x) => "register" \in Code(x)
    BY DEF Code, Setup, Waiting, InsertPC, FindPC, DeletePC
  <2>3. "join_writers" \in Code(Main)
    BY UserspaceRcuAssumption DEF Code, Inserters
  <2>. QED  BY <2>1, <2>2, <2>3
<1>3. pc' \in [Thread -> PC]
  BY <1>1 DEF PC
<1>4. ControlInv'
  <2>1. \A x \in Thread : pc'[x] = IF x = Main THEN "join_writers" ELSE "register"
    BY <1>1
  <2>2. pc'[Main] \notin Setup
    BY <1>1, <2>1, UserspaceRcuAssumption DEF Setup, InsertPC, Thread, Inserters
  <2>3. \A x \in Thread : pc'[x] \notin InsertPC \union DeletePC
    BY <2>1 DEF InsertPC, DeletePC
  <2>. QED  BY <1>2, <2>1, <2>2, <2>3 DEF ControlInv
<1>5. Registered' = Registered
  BY <1>1 DEF Registered
<1>6. \A x \in Thread : pc'[x] \in Waiting <=> pc[x] \in Waiting
  BY <1>1, <1>2 DEF Waiting
<1>7. \A x \in Readers : pc[x] \notin Section /\ pc'[x] \notin Section
  BY <1>1, <1>2, UserspaceRcuAssumption DEF Section, Thread, Inserters
<1>8. IdsInv'
  BY <1>1, <1>5, <1>6 DEF IdsInv
<1>9. CountsInv'
  BY <1>1, <1>5, <1>7 DEF CountsInv
<1>. QED  BY <1>1, <1>3, <1>4, <1>8, <1>9

\* main goes on when threads have ended.
LEMMA JoinControl ==
    ASSUME ThreadInv, Stop \/ Finish
    PROVE  /\ pc' \in [Thread -> PC] /\ ops' \in [Thread -> Nat]
           /\ ControlInv' /\ IdsInv' /\ CountsInv'
<1>1. /\ Main \in Thread /\ Main \notin Readers
      /\ {"join_readers", "done"} \subseteq Code(Main)
  BY UserspaceRcuAssumption DEF Thread, Inserters, Code
<1>2. PICK label \in {"join_readers", "done"} : Goto(Main, label)
  BY DEF Stop, Finish
<1>3. pc[Main] \notin Waiting /\ ops' = ops /\ UNCHANGED rcuVars
  BY DEF Stop, Finish, Waiting
<1>4. label \notin Waiting /\ label \notin Setup /\ label \notin InsertPC \union DeletePC
  BY DEF Waiting, Setup, InsertPC, DeletePC
<1>. QED  BY <1>1, <1>2, <1>3, <1>4, GotoControl, QuietStep

\* A jump moves one thread.
LEMMA GotoMoves ==
    ASSUME TypeOK, NEW x \in Thread, NEW label, Goto(x, label)
    PROVE  pc'[x] = label /\ \A y \in Thread : y # x => pc'[y] = pc[y]
BY DEF Goto, TypeOK

\* The end of an iteration moves one thread, to where it works on no node.
LEMMA EndIterationMoves ==
    ASSUME TypeOK, NEW x \in Thread, x \notin Readers, EndIteration(x)
    PROVE  /\ pc'[x] \in {"start", "done", "del_load", "insert"}
           /\ \A y \in Thread : y # x => pc'[y] = pc[y]
<1>1. Goto(x, LoopHead(x, ops[x] - 1))
  BY DEF EndIteration
<1>2. LoopHead(x, ops[x] - 1) \in {"start", "done", "del_load", "insert"}
  BY DEF LoopHead
<1>. QED  BY <1>1, <1>2, GotoMoves

\* The variables of an insert keep their types, and the pointers of the others
\* stay what they are.
LEMMA InsertTypes ==
    ASSUME ThreadInv, NEW x \in Inserters, InsertStep(x),
           pc' \in [Thread -> PC], ops' \in [Thread -> Nat]
    PROVE  TypeOK' /\ PointersInv'
<1>1. TypeOK /\ PointersInv
  BY DEF ThreadInv
<1>2. /\ x \in Thread /\ x \notin Readers /\ x \notin Deleters
      /\ Deleters \subseteq Thread /\ Readers \subseteq Thread
  BY UserspaceRcuAssumption DEF Thread
<1>3. \A y \in Thread : y # x => pc'[y] = pc[y]
  BY <1>1, <1>2, GotoMoves, EndIterationMoves
  DEF InsertStep, Insert, InsertLoad, InsertLink, InsertCas, InsertCasFails
<1>4. TypeOK'
  BY <1>1, <1>2
  DEF InsertStep, Insert, InsertLoad, InsertLink, InsertCas, InsertCasFails, TypeOK, Ptr,
      Status, listVars, rcuVars, updateVars, syncVars, findVars
<1>5. PointersInv'
  <2>1. p' = p /\ \A y \in Thread : y # x => old_head'[y] = old_head[y]
    BY <1>1, <1>2
    DEF InsertStep, Insert, InsertLoad, InsertLink, InsertCas, InsertCasFails, TypeOK,
        updateVars, findVars
  <2>. QED  BY <1>1, <1>2, <1>3, <2>1 DEF PointersInv
<1>. QED  BY <1>4, <1>5

\* A delete follows old_head once it has seen that it is no null pointer.
LEMMA DeleteTypes ==
    ASSUME ThreadInv, NEW d \in Deleters, DeleteStep(d),
           pc' \in [Thread -> PC], ops' \in [Thread -> Nat]
    PROVE  TypeOK' /\ PointersInv'
<1>1. TypeOK /\ PointersInv
  BY DEF ThreadInv
<1>2. /\ d \in Thread /\ d \notin Readers
      /\ Deleters \subseteq Thread /\ Readers \subseteq Thread
  BY UserspaceRcuAssumption DEF Thread
<1>3. \A y \in Thread : y # d => pc'[y] = pc[y]
  BY <1>1, <1>2, GotoMoves, EndIterationMoves
  DEF DeleteStep, DeleteLoad, DeleteKey, DeleteNext, DeleteCas, DeleteCasFails, Synchronize,
      SyncRead, Free
<1>4. pc[d] \in DeletePC \ {"del_load"} => old_head[d] \in Addr
  BY <1>1 DEF PointersInv
<1>5. TypeOK'
  <2>1. CASE DeleteLoad(d)
    BY <1>1, <1>2, <2>1
    DEF DeleteLoad, TypeOK, Ptr, listVars, rcuVars, syncVars, findVars
  <2>2. CASE DeleteNext(d)
    BY <1>1, <1>2, <1>4, <2>2
    DEF DeleteNext, DeletePC, TypeOK, Ptr, listVars, rcuVars, syncVars, findVars
  <2>3. CASE DeleteKey(d) \/ DeleteCas(d) \/ DeleteCasFails(d) \/ Free(d)
    BY <1>1, <1>2, <2>3
    DEF DeleteKey, DeleteCas, DeleteCasFails, Free, TypeOK, Ptr, Status, listVars, rcuVars,
        updateVars, syncVars, findVars
  <2>4. CASE Synchronize(d) \/ SyncRead(d)
    BY <1>1, <1>2, <2>4
    DEF Synchronize, SyncRead, TypeOK, listVars, rcuVars, updateVars, syncVars, findVars
  <2>. QED  BY <2>1, <2>2, <2>3, <2>4 DEF DeleteStep
<1>6. pc'[d] \in DeletePC \ {"del_load"} => old_head'[d] \in Addr
  <2>1. CASE DeleteLoad(d)
    <3>1. CASE rcu_list_head = NULL
      BY <1>1, <1>2, <2>1, <3>1, EndIterationMoves DEF DeleteLoad, DeletePC
    <3>2. CASE rcu_list_head # NULL
      BY <1>1, <1>2, <2>1, <3>2 DEF DeleteLoad, TypeOK, Ptr
    <3>. QED  BY <3>1, <3>2
  <2>2. CASE ~DeleteLoad(d)
    BY <1>4, <2>2
    DEF DeleteStep, DeleteKey, DeleteNext, DeleteCas, DeleteCasFails, Synchronize, SyncRead,
        Free, updateVars, DeletePC
  <2>. QED  BY <2>1, <2>2
<1>7. p' = p /\ \A y \in Thread : y # d => old_head'[y] = old_head[y]
  BY <1>1, <1>2
  DEF DeleteStep, DeleteLoad, DeleteKey, DeleteNext, DeleteCas, DeleteCasFails, Synchronize,
      SyncRead, Free, TypeOK, updateVars, findVars
<1>8. PointersInv'
  BY <1>1, <1>2, <1>3, <1>6, <1>7 DEF PointersInv
<1>. QED  BY <1>5, <1>8

\* So does a find.
LEMMA FindTypes ==
    ASSUME ThreadInv, NEW r \in Readers, FindStep(r),
           pc' \in [Thread -> PC], ops' \in [Thread -> Nat],
           reader_counts' \in [Ids -> Nat]
    PROVE  TypeOK' /\ PointersInv'
<1>1. TypeOK /\ PointersInv
  BY DEF ThreadInv
<1>2. /\ r \in Thread /\ r \notin Deleters
      /\ Deleters \subseteq Thread /\ Readers \subseteq Thread
  BY UserspaceRcuAssumption DEF Thread
<1>3. \A y \in Thread : y # r => pc'[y] = pc[y]
  BY <1>1, <1>2, GotoMoves
  DEF FindStep, CheckStop, ReadLock, FindHead, FindKey, FindNext, ReadUnlock
<1>4. pc[r] = "find_next" => p[r] \in Addr
  BY <1>1 DEF PointersInv
<1>5. wanted' \in [Readers -> Key] /\ p' \in [Readers -> Ptr]
  <2>1. Junk \in Key
    BY UserspaceRcuAssumption DEF Junk
  <2>2. next \in [Addr -> Ptr] /\ rcu_list_head \in Ptr /\ p \in [Readers -> Ptr]
        /\ wanted \in [Readers -> Key] /\ NULL \in Ptr
    BY <1>1 DEF TypeOK, Ptr
  <2>3. wanted' \in [Readers -> Key]
    BY <2>1, <2>2
    DEF FindStep, CheckStop, ReadLock, FindHead, FindKey, FindNext, ReadUnlock, findVars
  <2>4. p' \in [Readers -> Ptr]
    BY <1>4, <2>2
    DEF FindStep, CheckStop, ReadLock, FindHead, FindKey, FindNext, ReadUnlock, findVars
  <2>. QED  BY <2>3, <2>4
<1>6. UNCHANGED <<listVars, rcu_thread_count, tl_rcu_id, stop_flag, updateVars, syncVars>>
  BY DEF FindStep, CheckStop, ReadLock, FindHead, FindKey, FindNext, ReadUnlock, rcuVars
<1>7. TypeOK'
  BY <1>1, <1>5, <1>6 DEF TypeOK, listVars, updateVars, syncVars
<1>8. pc'[r] = "find_next" => p'[r] \in Addr
  <2>1. CASE FindKey(r)
    <3>1. pc'[r] = "find_next" => p[r] # NULL
      BY <1>1, <1>2, <2>1, GotoMoves DEF FindKey
    <3>. QED  BY <1>1, <2>1, <3>1 DEF FindKey, findVars, TypeOK, Ptr
  <2>2. CASE ~FindKey(r)
    BY <1>1, <1>2, <2>2, GotoMoves
    DEF FindStep, CheckStop, ReadLock, FindHead, FindNext, ReadUnlock
  <2>. QED  BY <2>1, <2>2
<1>9. \A y \in Readers : y # r => p'[y] = p[y]
  BY <1>1
  DEF FindStep, CheckStop, ReadLock, FindHead, FindKey, FindNext, ReadUnlock, findVars, TypeOK
<1>10. PointersInv'
  BY <1>1, <1>2, <1>3, <1>6, <1>8, <1>9 DEF PointersInv, updateVars
<1>. QED  BY <1>7, <1>10

\* The invariant of the threads holds when the program starts.
LEMMA ThreadInvInit == Init => ThreadInv
<1>. SUFFICES ASSUME Init PROVE ThreadInv
  OBVIOUS
<1>1. /\ Main \in Thread /\ Readers \subseteq Thread /\ MAX_THREADS \in Nat
      /\ INITIAL \in Nat /\ WRITE_OPS \in Nat /\ DELETE_OPS \in Nat
      /\ Main \notin Readers /\ Main \notin Deleters
  BY UserspaceRcuAssumption DEF Thread, Inserters
<1>2. Junk \in Key
  BY UserspaceRcuAssumption DEF Junk
<1>3. \A x \in Thread : pc[x] = IF x # Main THEN "create"
                               ELSE IF INITIAL = 0 THEN "start" ELSE "insert"
  BY DEF Init
<1>4. TypeOK
  <2>1. pc \in [Thread -> PC]
    BY DEF Init, PC, InsertPC
  <2>2. ops \in [Thread -> Nat]
    BY <1>1 DEF Init
  <2>3. /\ reader_counts \in [Ids -> Nat] /\ tl_rcu_id \in [Thread -> Int]
        /\ rcu_thread_count \in Nat
    BY <1>1 DEF Init
  <2>4. /\ n \in [Deleters -> Nat] /\ i \in [Deleters -> Nat]
        /\ wanted \in [Readers -> Key] /\ p \in [Readers -> Ptr]
        /\ key \in [Addr -> Key] /\ next \in [Addr -> Ptr] /\ heap \in [Addr -> Status]
    BY <1>1, <1>2 DEF Init, Ptr, Status
  <2>. QED  BY <1>1, <2>1, <2>2, <2>3, <2>4 DEF Init, TypeOK, Ptr
<1>5. ControlInv
  <2>1. \A x \in Thread : pc[x] \in Code(x)
    BY <1>1, <1>3 DEF Code, Setup, Waiting, InsertPC
  <2>2. \A x \in Thread : pc[x] \in InsertPC \union DeletePC => ops[x] > 0
    BY <1>1, <1>3 DEF Init, InsertPC, DeletePC
  <2>3. \A x \in Thread \ {Main} : pc[x] = "create"
    BY <1>3
  <2>. QED  BY <2>1, <2>2, <2>3 DEF ControlInv
<1>6. \A x \in Thread : tl_rcu_id[x] = IF x = Main THEN 0 ELSE -1
  BY DEF Init
<1>7. Registered = {Main}
  BY <1>1, <1>6 DEF Registered
<1>8. IdsInv
  <2>1. \A x \in Thread : tl_rcu_id[x] = -1 <=> pc[x] \in Waiting
    BY <1>3, <1>6 DEF Waiting
  <2>2. rcu_thread_count = 1 /\ Cardinality(Registered) = 1
    BY <1>7, FS_Singleton DEF Init
  <2>. QED  BY <1>1, <1>6, <1>7, <2>1, <2>2 DEF IdsInv
<1>9. CountsInv
  <2>1. \A id \in Ids : reader_counts[id] = 0
    BY DEF Init
  <2>2. Readers \intersect Registered = {}
    BY <1>1, <1>7
  <2>. QED  BY <2>1, <2>2 DEF CountsInv
<1>10. PointersInv
  BY <1>1, <1>3, UserspaceRcuAssumption DEF PointersInv, DeletePC, Thread, Inserters
<1>. QED  BY <1>4, <1>5, <1>8, <1>9, <1>10 DEF ThreadInv

\* Every step keeps the invariant of the threads.
LEMMA ThreadInvStep == ThreadInv /\ [Next]_vars => ThreadInv'
<1>. SUFFICES ASSUME ThreadInv, [Next]_vars PROVE ThreadInv'
  OBVIOUS
<1>1. ASSUME NEW x \in Inserters, InsertStep(x) PROVE ThreadInv'
  BY <1>1, InsertJump, UpdateControl, InsertTypes DEF ThreadInv
<1>2. ASSUME NEW d \in Deleters, DeleteStep(d) PROVE ThreadInv'
  BY <1>2, DeleteJump, UpdateControl, DeleteTypes DEF ThreadInv
<1>3. ASSUME NEW r \in Readers, FindStep(r) PROVE ThreadInv'
  <2>1. CASE ReadLock(r) \/ ReadUnlock(r)
    BY <1>3, <2>1, SectionControl, FindTypes DEF ThreadInv
  <2>2. CASE CheckStop(r) \/ FindHead(r) \/ FindKey(r) \/ FindNext(r)
    <3>1. reader_counts' = reader_counts
      BY <2>2 DEF CheckStop, FindHead, FindKey, FindNext, rcuVars
    <3>. QED  BY <1>3, <2>2, <3>1, FindControl, FindTypes DEF ThreadInv, TypeOK
  <2>. QED  BY <1>3, <2>1, <2>2 DEF FindStep
<1>4. ASSUME NEW x \in Thread, Register(x) PROVE ThreadInv'
  <2>1. /\ pc' \in [Thread -> PC] /\ ops' \in [Thread -> Nat]
        /\ tl_rcu_id' \in [Thread -> Int] /\ rcu_thread_count' \in Nat
        /\ ControlInv' /\ IdsInv' /\ CountsInv'
    BY <1>4, RegisterControl
  <2>2. TypeOK'
    BY <1>4, <2>1
    DEF Register, ThreadInv, TypeOK, listVars, updateVars, syncVars, findVars
  <2>3. LoopHead(x, ops[x]) \in {"check_stop", "start", "done", "del_load", "insert"}
    BY DEF LoopHead
  <2>4. PointersInv'
    BY <1>4, <2>3, GotoMoves
    DEF Register, ThreadInv, PointersInv, updateVars, findVars, DeletePC, Thread
  <2>. QED  BY <2>1, <2>2, <2>4 DEF ThreadInv
<1>5. ASSUME Start \/ Stop \/ Finish PROVE ThreadInv'
  <2>1. /\ pc' \in [Thread -> PC] /\ ops' \in [Thread -> Nat]
        /\ ControlInv' /\ IdsInv' /\ CountsInv'
    BY <1>5, StartControl, JoinControl
  <2>2. TypeOK'
    BY <1>5, <2>1
    DEF Start, Stop, Finish, ThreadInv, TypeOK, listVars, rcuVars, updateVars, syncVars, findVars
  <2>3. PointersInv'
    <3>1. Main \in Thread /\ Main \notin Readers /\ Main \notin Deleters
      BY UserspaceRcuAssumption DEF Thread, Inserters
    <3>2. \A y \in Readers \union Deleters : pc'[y] = pc[y] \/ pc'[y] = "register"
      <4>1. CASE Start
        BY <3>1, <4>1 DEF Start, Thread
      <4>2. CASE Stop \/ Finish
        BY <3>1, <4>2, GotoMoves DEF Stop, Finish, ThreadInv, Thread
      <4>. QED  BY <1>5, <4>1, <4>2
    <3>. QED
      BY <1>5, <3>2
      DEF Start, Stop, Finish, ThreadInv, PointersInv, updateVars, findVars, DeletePC
  <2>. QED  BY <2>1, <2>2, <2>3 DEF ThreadInv
<1>6. ASSUME UNCHANGED vars PROVE ThreadInv'
  BY <1>6
  DEF vars, listVars, rcuVars, updateVars, syncVars, findVars, ThreadInv, TypeOK, ControlInv,
      IdsInv, CountsInv, PointersInv, Registered
<1>. QED
  BY <1>1, <1>2, <1>3, <1>4, <1>5, <1>6
  DEF Next, ReaderStep, WriterStep, DeleterStep, MainStep, Terminating, Thread, Inserters

\* The variables keep their types: no thread writes outside reader_counts, and
\* no null pointer is followed.
THEOREM TypeCorrect == Spec => []TypeOK
<1>1. ThreadInv => TypeOK
  BY DEF ThreadInv
<1>. QED  BY <1>1, ThreadInvInit, ThreadInvStep, PTL DEF Spec

-----------------------------------------------------------------------------
(* A step is a step of one thread, in the code of its role.                *)

\* What a step leaves alone of the threads of a role: their locals, and where
\* they are in their code, unless they get to a place where they work on no node.
InsertersKept ==
    \A x \in Inserters :
       /\ pc'[x] = pc[x] \/ ~Inserting(x)'
       /\ new_node'[x] = new_node[x] /\ old_head'[x] = old_head[x]

DeletersKept ==
    \A d \in Deleters :
       /\ pc'[d] = pc[d] \/ pc'[d] \notin DeletePC \ {"del_load"}
       /\ old_head'[d] = old_head[d] /\ new_head'[d] = new_head[d]
       /\ n'[d] = n[d] /\ i'[d] = i[d]

ReadersKept ==
    \A r \in Readers :
       /\ \/ pc'[r] = pc[r] /\ tl_rcu_id'[r] = tl_rcu_id[r]
          \/ pc'[r] \notin {"find_key", "find_next"}
       /\ p'[r] = p[r] /\ wanted'[r] = wanted[r]

\* Only the code of a role changes the locals of that role.
LEMMA RoleOfStep ==
    ASSUME ThreadInv, [Next]_vars
    PROVE  \/ \E x \in Inserters : InsertStep(x) /\ DeletersKept /\ ReadersKept
           \/ \E d \in Deleters : DeleteStep(d) /\ InsertersKept /\ ReadersKept
           \/ \E r \in Readers : FindStep(r) /\ InsertersKept /\ DeletersKept
           \/ UNCHANGED listVars /\ InsertersKept /\ DeletersKept /\ ReadersKept
<1>1. /\ TypeOK /\ old_head \in [Thread -> Ptr] /\ new_node \in [Thread -> Ptr]
      /\ new_head \in [Thread -> Ptr]
  BY DEF ThreadInv, TypeOK
<1>2. /\ Inserters \subseteq Thread /\ Deleters \subseteq Thread /\ Readers \subseteq Thread
      /\ Inserters \intersect Readers = {} /\ Inserters \intersect Deleters = {}
      /\ Readers \intersect Deleters = {}
  BY UserspaceRcuAssumption DEF Thread
<1>3. ASSUME NEW x \in Inserters, InsertStep(x) PROVE DeletersKept /\ ReadersKept
  <2>1. \A y \in Thread : y # x => pc'[y] = pc[y] /\ old_head'[y] = old_head[y]
    BY <1>1, <1>2, <1>3, GotoMoves, EndIterationMoves
    DEF InsertStep, Insert, InsertLoad, InsertLink, InsertCas, InsertCasFails, updateVars
  <2>2. UNCHANGED <<new_head, syncVars, findVars, rcuVars>>
    BY <1>3
    DEF InsertStep, Insert, InsertLoad, InsertLink, InsertCas, InsertCasFails, updateVars
  <2>. QED
    BY <1>2, <2>1, <2>2 DEF DeletersKept, ReadersKept, syncVars, findVars, rcuVars
<1>4. ASSUME NEW d \in Deleters, DeleteStep(d) PROVE InsertersKept /\ ReadersKept
  <2>1. \A y \in Thread : y # d => pc'[y] = pc[y] /\ old_head'[y] = old_head[y]
    BY <1>1, <1>2, <1>4, GotoMoves, EndIterationMoves
    DEF DeleteStep, DeleteLoad, DeleteKey, DeleteNext, DeleteCas, DeleteCasFails, Synchronize,
        SyncRead, Free, updateVars
  <2>2. UNCHANGED <<new_node, findVars, rcuVars>>
    BY <1>4
    DEF DeleteStep, DeleteLoad, DeleteKey, DeleteNext, DeleteCas, DeleteCasFails, Synchronize,
        SyncRead, Free, updateVars
  <2>. QED
    BY <1>2, <2>1, <2>2 DEF InsertersKept, ReadersKept, findVars, rcuVars
<1>5. ASSUME NEW r \in Readers, FindStep(r) PROVE InsertersKept /\ DeletersKept
  <2>1. \A y \in Thread : y # r => pc'[y] = pc[y]
    BY <1>1, <1>2, <1>5, GotoMoves
    DEF FindStep, CheckStop, ReadLock, FindHead, FindKey, FindNext, ReadUnlock
  <2>2. UNCHANGED <<updateVars, syncVars>>
    BY <1>5 DEF FindStep, CheckStop, ReadLock, FindHead, FindKey, FindNext, ReadUnlock
  <2>. QED
    BY <1>2, <2>1, <2>2 DEF InsertersKept, DeletersKept, updateVars, syncVars
<1>6. ASSUME NEW x \in Thread, Register(x)
      PROVE  UNCHANGED listVars /\ InsertersKept /\ DeletersKept /\ ReadersKept
  <2>1. LoopHead(x, ops[x]) \in {"check_stop", "start", "done", "del_load", "insert"}
    BY DEF LoopHead
  <2>2. /\ pc'[x] \in {"check_stop", "start", "done", "del_load", "insert"}
        /\ \A y \in Thread : y # x => pc'[y] = pc[y]
    BY <1>1, <1>6, <2>1, GotoMoves DEF Register
  <2>3. \A y \in Thread : y # x => tl_rcu_id'[y] = tl_rcu_id[y]
    BY <1>6 DEF Register, ThreadInv, TypeOK
  <2>. QED
    BY <1>2, <1>6, <2>2, <2>3
    DEF Register, InsertersKept, DeletersKept, ReadersKept, Inserting, DeletePC, updateVars,
        syncVars, findVars
<1>7. ASSUME Start \/ Stop \/ Finish
      PROVE  UNCHANGED listVars /\ InsertersKept /\ DeletersKept /\ ReadersKept
  <2>1. \A y \in Thread :
           pc'[y] = pc[y] \/ pc'[y] \in {"register", "join_writers", "join_readers", "done"}
    <3>1. CASE Start
      BY <3>1 DEF Start
    <3>2. CASE Stop \/ Finish
      BY <1>1, <1>2, <3>2, GotoMoves DEF Stop, Finish, Inserters
    <3>. QED  BY <1>7, <3>1, <3>2
  <2>2. UNCHANGED <<listVars, updateVars, syncVars, findVars, rcuVars>>
    BY <1>7 DEF Start, Stop, Finish
  <2>. QED
    BY <1>2, <2>1, <2>2
    DEF InsertersKept, DeletersKept, ReadersKept, Inserting, DeletePC, updateVars, syncVars,
        findVars, rcuVars
<1>8. ASSUME UNCHANGED vars
      PROVE  UNCHANGED listVars /\ InsertersKept /\ DeletersKept /\ ReadersKept
  BY <1>8
  DEF vars, InsertersKept, DeletersKept, ReadersKept, updateVars, syncVars, findVars, rcuVars
<1>. QED
  BY <1>2, <1>3, <1>4, <1>5, <1>6, <1>7, <1>8
  DEF Next, ReaderStep, WriterStep, DeleterStep, MainStep, Terminating, Inserters

-----------------------------------------------------------------------------
(* Nodes that other threads can see do not change.                         *)

Published == {"list", "unlinked"}

\* What a step leaves alone.
PublishedKept ==
    \A a \in Addr : heap[a] \in Published => next'[a] = next[a] /\ key'[a] = key[a]

\* What insert and delete do to memory, in one place: next, key and heap change
\* at a node that is free or private, but for the two steps that end its life.
LEMMA MemoryStep ==
    ASSUME ThreadInv, [Next]_vars
    PROVE  \/ \E x \in Inserters : Insert(x) \/ InsertLink(x) \/ InsertCas(x)
           \/ \E d \in Deleters : DeleteCas(d) \/ Free(d)
           \/ UNCHANGED listVars
BY DEF Next, ReaderStep, WriterStep, DeleterStep, MainStep, Terminating, InsertStep,
       DeleteStep, FindStep, Register, InsertLoad, InsertCasFails, DeleteLoad, DeleteKey,
       DeleteNext, DeleteCasFails, Synchronize, SyncRead, CheckStop, ReadLock, FindHead,
       FindKey, FindNext, ReadUnlock, Start, Stop, Finish, vars, Inserters

\* No step changes the key or the successor of a node in the list, or of one
\* that a reader may still be at.
LEMMA PublishedStays ==
    ASSUME ThreadInv, InsertInv, [Next]_vars
    PROVE  PublishedKept
<1>. USE DEF Published
<1>1. key \in [Addr -> Key] /\ next \in [Addr -> Ptr]
  BY DEF ThreadInv, TypeOK
<1>2. ASSUME NEW x \in Inserters, Insert(x) PROVE PublishedKept
  <2>1. PICK a \in Addr, k \in Key : heap[a] = "free" /\ key' = [key EXCEPT ![a] = k]
    BY <1>2 DEF Insert
  <2>2. next' = next
    BY <1>2 DEF Insert
  <2>. QED  BY <1>1, <2>1, <2>2 DEF PublishedKept
<1>3. ASSUME NEW x \in Inserters, InsertLink(x) PROVE PublishedKept
  <2>1. /\ heap[new_node[x]] = "private" /\ key' = key
        /\ next' = [next EXCEPT ![new_node[x]] = old_head[x]]
    BY <1>3 DEF InsertLink, InsertInv, Inserting
  <2>. QED  BY <1>1, <2>1 DEF PublishedKept
<1>4. CASE UNCHANGED <<key, next>>
  BY <1>4 DEF PublishedKept
<1>. QED
  BY <1>2, <1>3, <1>4, MemoryStep DEF InsertCas, DeleteCas, Free, listVars

\* next is a link field of the nodes.
LEMMA NextLinks ==
    ASSUME TypeOK
    PROVE  /\ next \in Links(Addr, NULL)
           /\ IsFiniteSet(Addr) /\ NULL \notin Addr
BY UserspaceRcuAssumption DEF TypeOK, Links, Ptr

\* The first node of the list and the rest.
LEMMA FirstNode ==
    ASSUME TypeOK, NEW a \in Addr, Whole(a, Addr, next, NULL)
    PROVE  /\ Whole(next[a], Addr, next, NULL)
           /\ Chain(a, next, NULL) = <<a>> \o Chain(next[a], next, NULL)
           /\ Tail(Chain(a, next, NULL)) = Chain(next[a], next, NULL)
           /\ a \notin Nodes(next[a])
           /\ Nodes(a) = {a} \union Nodes(next[a])
<1>. DEFINE link == next
<1>1. link \in Links(Addr, NULL) /\ IsFiniteSet(Addr) /\ NULL \notin Addr
  BY NextLinks
<1>2. Whole(a, Addr, link, NULL)
  OBVIOUS
<1>. HIDE DEF link
<1>3. /\ Whole(link[a], Addr, link, NULL)
      /\ Chain(a, link, NULL) = <<a>> \o Chain(link[a], link, NULL)
      /\ Tail(Chain(a, link, NULL)) = Chain(link[a], link, NULL)
      /\ a \notin ChainSet(link[a], link, NULL)
      /\ ChainSet(a, link, NULL) = {a} \union ChainSet(link[a], link, NULL)
  BY <1>1, <1>2, FirstOfChain
<1>. QED  BY <1>3 DEF Nodes, link

\* A new node in front of it.
LEMMA PushedNode ==
    ASSUME TypeOK, NEW a \in Addr, Whole(next[a], Addr, next, NULL), a \notin Nodes(next[a])
    PROVE  /\ Whole(a, Addr, next, NULL)
           /\ Chain(a, next, NULL) = <<a>> \o Chain(next[a], next, NULL)
           /\ Nodes(a) = {a} \union Nodes(next[a])
<1>. DEFINE link == next
<1>1. link \in Links(Addr, NULL) /\ IsFiniteSet(Addr) /\ NULL \notin Addr
  BY NextLinks
<1>2. Whole(link[a], Addr, link, NULL) /\ a \notin ChainSet(link[a], link, NULL)
  BY DEF Nodes
<1>. HIDE DEF link
<1>3. /\ Whole(a, Addr, link, NULL)
      /\ Chain(a, link, NULL) = <<a>> \o Chain(link[a], link, NULL)
      /\ ChainSet(a, link, NULL) = {a} \union ChainSet(link[a], link, NULL)
  BY <1>1, <1>2, PushOnChain
<1>. QED  BY <1>3 DEF Nodes, link

\* The empty list.
LEMMA NoNode == ASSUME TypeOK PROVE Whole(NULL, Addr, next, NULL) /\ Nodes(NULL) = {}
BY NextLinks, EmptyChain DEF Nodes

\* So a list of such nodes stays the same list.
LEMMA ListStays ==
    ASSUME TypeOK, TypeOK', PublishedKept, NEW first, Whole(first, Addr, next, NULL),
           \A a \in Nodes(first) : heap[a] \in Published
    PROVE  /\ Whole(first, Addr, next', NULL)
           /\ Chain(first, next', NULL) = Chain(first, next, NULL)
           /\ ChainSet(first, next', NULL) = Nodes(first)
           /\ Nodes(first) \subseteq Addr
<1>1. /\ next \in Links(Addr, NULL) /\ next' \in Links(Addr, NULL)
      /\ IsFiniteSet(Addr) /\ NULL \notin Addr
  BY UserspaceRcuAssumption DEF TypeOK, Links, Ptr
<1>2. ChainSet(first, next, NULL) \subseteq Addr
  BY ChainSetType
<1>3. \A a \in ChainSet(first, next, NULL) : next'[a] = next[a]
  BY <1>2 DEF PublishedKept, Nodes
<1>. QED  BY <1>1, <1>2, <1>3, ChainKept DEF Nodes

-----------------------------------------------------------------------------
(* The parts of the invariant, step by step.                               *)

\* The inserters that a step leaves alone keep their nodes.
LEMMA InsertInvStep ==
    ASSUME ThreadInv, InsertInv, DeleteInv, [Next]_vars
    PROVE  InsertInv'
<1>1. /\ pc \in [Thread -> PC] /\ heap \in [Addr -> Status] /\ next \in [Addr -> Ptr]
      /\ new_node \in [Thread -> Ptr] /\ old_head \in [Thread -> Ptr] /\ TypeOK
      /\ Inserters \subseteq Thread /\ Inserters \intersect (Readers \union Deleters) = {}
  BY UserspaceRcuAssumption DEF ThreadInv, TypeOK, Thread
<1>2. ASSUME NEW x \in Inserters, InsertStep(x) PROVE InsertInv'
  <2>1. /\ \A y \in Inserters : y # x =>
              pc'[y] = pc[y] /\ new_node'[y] = new_node[y] /\ old_head'[y] = old_head[y]
    BY <1>1, <1>2, GotoMoves, EndIterationMoves
    DEF InsertStep, Insert, InsertLoad, InsertLink, InsertCas, InsertCasFails, updateVars
  <2>2. CASE Insert(x)
    <3>1. PICK a \in Addr : /\ heap[a] = "free" /\ heap' = [heap EXCEPT ![a] = "private"]
                            /\ new_node' = [new_node EXCEPT ![x] = a]
      BY <2>2 DEF Insert
    <3>2. pc'[x] = "ins_load" /\ next' = next
      BY <1>1, <2>2, GotoMoves DEF Insert
    <3>3. new_node'[x] = a /\ heap'[a] = "private" /\ \A b \in Addr : b # a => heap'[b] = heap[b]
      BY <1>1, <3>1
    <3>4. \A y \in Inserters : y # x /\ Inserting(y) => new_node[y] # a
      BY <3>1 DEF InsertInv
    <3>. QED  BY <2>1, <3>2, <3>3, <3>4 DEF InsertInv, Inserting
  <2>3. CASE InsertLoad(x)
    <3>1. pc'[x] = "ins_link" /\ pc[x] = "ins_load" /\ UNCHANGED <<next, heap, new_node>>
      BY <1>1, <2>3, GotoMoves DEF InsertLoad, listVars
    <3>. QED  BY <2>1, <3>1 DEF InsertInv, Inserting
  <2>4. CASE InsertLink(x)
    <3>1. /\ pc'[x] = "ins_cas" /\ pc[x] = "ins_link" /\ UNCHANGED <<heap, new_node, old_head>>
          /\ next' = [next EXCEPT ![new_node[x]] = old_head[x]]
      BY <1>1, <2>4, GotoMoves DEF InsertLink, updateVars
    <3>2. new_node[x] \in Addr /\ Inserting(x)
      BY <3>1 DEF InsertInv, Inserting
    <3>3. \A y \in Inserters : y # x /\ Inserting(y) => new_node[y] # new_node[x]
      BY <3>2 DEF InsertInv
    <3>4. \A b \in Addr : next'[b] = IF b = new_node[x] THEN old_head[x] ELSE next[b]
      BY <1>1, <3>1
    <3>. QED  BY <2>1, <3>1, <3>2, <3>3, <3>4 DEF InsertInv, Inserting
  <2>5. CASE InsertCas(x)
    <3>1. /\ ~Inserting(x)' /\ pc[x] = "ins_cas" /\ UNCHANGED <<next, new_node, old_head>>
          /\ heap' = [heap EXCEPT ![new_node[x]] = "list"]
      BY <1>1, <2>5, EndIterationMoves DEF InsertCas, updateVars, Inserting
    <3>2. \A y \in Inserters : y # x /\ Inserting(y) => new_node[y] # new_node[x]
      BY <3>1 DEF InsertInv, Inserting
    <3>3. \A b \in Addr : b # new_node[x] => heap'[b] = heap[b]
      BY <1>1, <3>1
    <3>. QED  BY <2>1, <3>1, <3>2, <3>3 DEF InsertInv, Inserting
  <2>6. CASE InsertCasFails(x)
    <3>1. pc'[x] = "ins_load" /\ pc[x] = "ins_cas" /\ UNCHANGED <<next, heap, new_node>>
      BY <1>1, <2>6, GotoMoves DEF InsertCasFails, listVars, updateVars
    <3>. QED  BY <2>1, <3>1 DEF InsertInv, Inserting
  <2>. QED  BY <1>2, <2>2, <2>3, <2>4, <2>5, <2>6 DEF InsertStep
<1>3. ASSUME InsertersKept, next' = next,
             \A a \in Addr : heap[a] = "private" => heap'[a] = "private"
      PROVE  InsertInv'
  <2>1. \A x \in Inserters : Inserting(x)' =>
           /\ Inserting(x) /\ pc'[x] = pc[x]
           /\ new_node'[x] = new_node[x] /\ old_head'[x] = old_head[x]
    BY <1>3 DEF InsertersKept, Inserting
  <2>2. \A x \in Inserters : Inserting(x)' =>
           /\ new_node'[x] \in Addr /\ heap'[new_node'[x]] = "private"
           /\ pc'[x] = "ins_cas" => next'[new_node'[x]] = old_head'[x]
    BY <1>3, <2>1 DEF InsertInv
  <2>3. \A x, y \in Inserters :
           Inserting(x)' /\ Inserting(y)' /\ new_node'[x] = new_node'[y] => x = y
    BY <2>1 DEF InsertInv
  <2>. QED  BY <2>2, <2>3 DEF InsertInv
<1>4. ASSUME NEW d \in Deleters, DeleteStep(d), InsertersKept PROVE InsertInv'
  <2>1. next' = next
    BY <1>4
    DEF DeleteStep, DeleteLoad, DeleteKey, DeleteNext, DeleteCas, DeleteCasFails, Synchronize,
        SyncRead, Free, listVars
  <2>2. \A a \in Addr : heap[a] = "private" => heap'[a] = "private"
    <3>1. CASE DeleteCas(d) \/ Free(d)
      <4>1. heap[old_head[d]] \in {"list", "unlinked"}
        BY <3>1 DEF DeleteInv, DeleteCas, Free
      <4>. QED  BY <1>1, <3>1, <4>1 DEF DeleteCas, Free
    <3>2. CASE heap' = heap
      BY <3>2
    <3>. QED
      BY <1>4, <3>1, <3>2
      DEF DeleteStep, DeleteLoad, DeleteKey, DeleteNext, DeleteCasFails, Synchronize,
          SyncRead, listVars
  <2>. QED  BY <1>3, <1>4, <2>1, <2>2
<1>5. ASSUME UNCHANGED listVars, InsertersKept PROVE InsertInv'
  BY <1>3, <1>5 DEF listVars
<1>6. ASSUME NEW r \in Readers, FindStep(r) PROVE UNCHANGED listVars
  BY <1>6 DEF FindStep, CheckStop, ReadLock, FindHead, FindKey, FindNext, ReadUnlock
<1>. QED  BY <1>2, <1>4, <1>5, <1>6, RoleOfStep

\* The first node of the list is a node that was inserted and not deleted.
LEMMA HeadIsListed ==
    ASSUME TypeOK, ListInv, rcu_list_head # NULL
    PROVE  rcu_list_head \in Addr /\ heap[rcu_list_head] = "list"
<1>1. rcu_list_head \in Addr /\ Whole(rcu_list_head, Addr, next, NULL)
  BY DEF TypeOK, Ptr, ListInv
<1>2. rcu_list_head \in Nodes(rcu_list_head)
  BY <1>1, FirstNode
<1>. QED  BY <1>1, <1>2 DEF ListInv, ListIsExact

\* With one deleter, the node it works on stays in the list until its own CAS,
\* and its successor stays its successor.
LEMMA DeleteInvStep ==
    ASSUME OneDeleter, ThreadInv, InsertInv, DeleteInv, ListInv, [Next]_vars
    PROVE  DeleteInv'
<1>1. /\ pc \in [Thread -> PC] /\ heap \in [Addr -> Status] /\ next \in [Addr -> Ptr]
      /\ new_head \in [Thread -> Ptr] /\ old_head \in [Thread -> Ptr] /\ TypeOK
      /\ Deleters \subseteq Thread /\ Deleters \intersect Readers = {}
  BY UserspaceRcuAssumption DEF ThreadInv, TypeOK, Thread
<1>2. PublishedKept
  BY PublishedStays
<1>3. \A d \in Deleters : pc[d] \in DeletePC \ {"del_load"} => old_head[d] \in Addr
  BY DEF ThreadInv, PointersInv
<1>4. ASSUME DeletersKept, \A a \in Addr : heap[a] \in Published => heap'[a] = heap[a]
      PROVE  DeleteInv'
  <2>. SUFFICES ASSUME NEW d \in Deleters
                PROVE  /\ pc'[d] \in {"del_key", "del_next", "del_cas"}
                             => heap'[old_head'[d]] = "list"
                       /\ pc'[d] = "del_cas" => new_head'[d] = next'[old_head'[d]]
                       /\ pc'[d] \in {"sync", "sync_read", "del_free"}
                             => heap'[old_head'[d]] = "unlinked"
    BY DEF DeleteInv
  <2>1. /\ pc'[d] \in DeletePC \ {"del_load"} => pc'[d] = pc[d]
        /\ old_head'[d] = old_head[d] /\ new_head'[d] = new_head[d]
    BY <1>4 DEF DeletersKept
  <2>2. CASE pc'[d] \in {"del_key", "del_next", "del_cas"}
    <3>1. pc[d] = pc'[d] /\ old_head[d] \in Addr
      BY <1>3, <2>1, <2>2 DEF DeletePC
    <3>2. heap[old_head[d]] = "list"
      BY <2>2, <3>1 DEF DeleteInv
    <3>3. heap'[old_head[d]] = "list" /\ next'[old_head[d]] = next[old_head[d]]
      BY <1>2, <1>4, <3>1, <3>2 DEF PublishedKept, Published
    <3>. QED  BY <2>1, <2>2, <3>1, <3>3 DEF DeleteInv
  <2>3. CASE pc'[d] \in {"sync", "sync_read", "del_free"}
    <3>1. pc[d] = pc'[d] /\ old_head[d] \in Addr
      BY <1>3, <2>1, <2>3 DEF DeletePC
    <3>2. heap[old_head[d]] = "unlinked"
      BY <2>3, <3>1 DEF DeleteInv
    <3>. QED  BY <1>4, <2>1, <2>3, <3>1, <3>2 DEF Published
  <2>. QED  BY <2>2, <2>3
<1>5. ASSUME NEW x \in Inserters, InsertStep(x), DeletersKept PROVE DeleteInv'
  <2>1. \A a \in Addr : heap[a] \in Published => heap'[a] = heap[a]
    <3>1. CASE Insert(x)
      BY <1>1, <3>1 DEF Insert, Published
    <3>2. CASE InsertCas(x)
      <4>1. heap[new_node[x]] = "private"
        BY <3>2 DEF InsertCas, InsertInv, Inserting
      <4>. QED  BY <1>1, <3>2, <4>1 DEF InsertCas, Published
    <3>3. CASE heap' = heap
      BY <3>3
    <3>. QED
      BY <1>5, <3>1, <3>2, <3>3 DEF InsertStep, InsertLoad, InsertLink, InsertCasFails, listVars
  <2>. QED  BY <1>4, <1>5, <2>1
<1>6. ASSUME UNCHANGED listVars, DeletersKept PROVE DeleteInv'
  BY <1>4, <1>6 DEF listVars
<1>7. ASSUME NEW r \in Readers, FindStep(r) PROVE UNCHANGED listVars
  BY <1>7 DEF FindStep, CheckStop, ReadLock, FindHead, FindKey, FindNext, ReadUnlock
<1>8. ASSUME NEW d \in Deleters, DeleteStep(d) PROVE DeleteInv'
  <2>1. d \in Thread /\ d \notin Readers /\ \A e \in Deleters : e = d
    BY <1>1 DEF OneDeleter
  <2>2. SUFFICES /\ pc'[d] \in {"del_key", "del_next", "del_cas"}
                        => heap'[old_head'[d]] = "list"
                 /\ pc'[d] = "del_cas" => new_head'[d] = next'[old_head'[d]]
                 /\ pc'[d] \in {"sync", "sync_read", "del_free"}
                        => heap'[old_head'[d]] = "unlinked"
    BY <2>1 DEF DeleteInv
  <2>3. CASE DeleteLoad(d)
    <3>1. CASE rcu_list_head = NULL
      BY <1>1, <2>1, <2>3, <3>1, EndIterationMoves DEF DeleteLoad
    <3>2. CASE rcu_list_head # NULL
      <4>1. heap[rcu_list_head] = "list"
        BY <1>1, <3>2, HeadIsListed
      <4>2. pc'[d] = "del_key" /\ old_head'[d] = rcu_list_head /\ heap' = heap
        BY <1>1, <2>1, <2>3, <3>2, GotoMoves DEF DeleteLoad, listVars
      <4>. QED  BY <4>1, <4>2
    <3>. QED  BY <3>1, <3>2
  <2>4. CASE DeleteKey(d)
    <3>1. /\ pc[d] = "del_key" /\ UNCHANGED <<heap, old_head>>
          /\ pc'[d] \in {"start", "done", "del_load", "insert", "del_next"}
      BY <1>1, <2>1, <2>4, GotoMoves, EndIterationMoves DEF DeleteKey, listVars, updateVars
    <3>. QED  BY <3>1 DEF DeleteInv
  <2>5. CASE DeleteNext(d)
    <3>1. /\ pc[d] = "del_next" /\ pc'[d] = "del_cas" /\ UNCHANGED <<heap, next, old_head>>
          /\ new_head'[d] = next[old_head[d]]
      BY <1>1, <2>1, <2>5, GotoMoves DEF DeleteNext, listVars
    <3>. QED  BY <3>1 DEF DeleteInv
  <2>6. CASE DeleteCas(d)
    <3>1. old_head[d] \in Addr
      BY <1>3, <2>6 DEF DeleteCas, DeletePC
    <3>2. pc'[d] = "sync" /\ heap'[old_head[d]] = "unlinked" /\ old_head' = old_head
      BY <1>1, <2>1, <2>6, <3>1, GotoMoves DEF DeleteCas, updateVars
    <3>. QED  BY <3>2
  <2>7. CASE DeleteCasFails(d) \/ Free(d)
    BY <1>1, <2>1, <2>7, EndIterationMoves DEF DeleteCasFails, Free
  <2>8. CASE Synchronize(d) \/ SyncRead(d)
    <3>1. /\ pc[d] \in {"sync", "sync_read"} /\ UNCHANGED <<heap, old_head>>
          /\ pc'[d] \in {"sync_read", "del_free"}
      BY <1>1, <2>1, <2>8, GotoMoves DEF Synchronize, SyncRead, listVars, updateVars
    <3>. QED  BY <3>1 DEF DeleteInv
  <2>. QED  BY <1>8, <2>3, <2>4, <2>5, <2>6, <2>7, <2>8 DEF DeleteStep
<1>. QED  BY <1>5, <1>6, <1>7, <1>8, RoleOfStep

\* The list is changed at its head only: a node is pushed, or the first one is
\* taken off.
LEMMA ListInvStep ==
    ASSUME ThreadInv, ThreadInv', InsertInv, DeleteInv, ListInv, [Next]_vars
    PROVE  ListInv'
<1>1. /\ TypeOK /\ TypeOK' /\ heap \in [Addr -> Status] /\ PublishedKept
      /\ next \in Links(Addr, NULL) /\ next' \in Links(Addr, NULL)
      /\ IsFiniteSet(Addr) /\ NULL \notin Addr
  BY PublishedStays, UserspaceRcuAssumption DEF ThreadInv, TypeOK, Links, Ptr
<1>2. /\ Whole(rcu_list_head, Addr, next, NULL)
      /\ Nodes(rcu_list_head) = {a \in Addr : heap[a] = "list"}
  BY DEF ListInv, ListIsExact
<1>3. /\ Whole(rcu_list_head, Addr, next', NULL)
      /\ ChainSet(rcu_list_head, next', NULL) = {a \in Addr : heap[a] = "list"}
  BY <1>1, <1>2, ListStays DEF Nodes, Published
<1>4. ASSUME rcu_list_head' = rcu_list_head,
             \A a \in Addr : heap[a] = "list" <=> heap'[a] = "list"
      PROVE  ListInv'
  BY <1>3, <1>4 DEF ListInv, ListIsExact, Nodes
<1>5. ASSUME NEW x \in Inserters, Insert(x) PROVE ListInv'
  BY <1>1, <1>4, <1>5 DEF Insert
<1>6. ASSUME NEW x \in Inserters, InsertLink(x) PROVE ListInv'
  BY <1>4, <1>6 DEF InsertLink
<1>7. ASSUME NEW x \in Inserters, InsertCas(x) PROVE ListInv'
  <2>. DEFINE a == new_node[x]
  <2>1. /\ a \in Addr /\ heap[a] = "private" /\ next[a] = old_head[x]
        /\ rcu_list_head = old_head[x] /\ rcu_list_head' = a /\ next' = next
        /\ heap' = [heap EXCEPT ![a] = "list"]
    BY <1>7 DEF InsertCas, InsertInv, Inserting
  <2>2. a \notin Nodes(next[a]) /\ Whole(next[a], Addr, next, NULL)
    BY <1>2, <2>1
  <2>. HIDE DEF a
  <2>3. /\ Whole(a, Addr, next, NULL)
        /\ Nodes(a) = {a} \union Nodes(next[a])
    BY <1>1, <2>1, <2>2, PushedNode
  <2>4. {b \in Addr : heap'[b] = "list"} = {a} \union {b \in Addr : heap[b] = "list"}
    BY <1>1, <2>1
  <2>. QED  BY <1>2, <2>1, <2>3, <2>4 DEF ListInv, ListIsExact, Nodes
<1>8. ASSUME NEW d \in Deleters, DeleteCas(d) PROVE ListInv'
  <2>. DEFINE a == old_head[d]
  <2>1. /\ a \in Addr /\ new_head[d] = next[a]
        /\ rcu_list_head = a /\ rcu_list_head' = new_head[d] /\ next' = next
        /\ heap' = [heap EXCEPT ![a] = "unlinked"]
    BY <1>8 DEF DeleteCas, DeleteInv, ThreadInv, PointersInv, DeletePC
  <2>. HIDE DEF a
  <2>2. /\ Whole(next[a], Addr, next, NULL)
        /\ a \notin Nodes(next[a])
        /\ Nodes(a) = {a} \union Nodes(next[a])
    BY <1>1, <1>2, <2>1, FirstNode
  <2>3. {b \in Addr : heap'[b] = "list"} = {b \in Addr : heap[b] = "list"} \ {a}
    BY <1>1, <2>1
  <2>4. Nodes(next[a]) = Nodes(a) \ {a}
    BY <2>2
  <2>. QED  BY <1>2, <2>1, <2>2, <2>3, <2>4 DEF ListInv, ListIsExact, Nodes
<1>9. ASSUME NEW d \in Deleters, Free(d) PROVE ListInv'
  <2>1. heap[old_head[d]] = "unlinked" /\ heap' = [heap EXCEPT ![old_head[d]] = "free"]
        /\ rcu_list_head' = rcu_list_head
    BY <1>9 DEF Free, DeleteInv
  <2>. QED  BY <1>1, <1>4, <2>1
<1>10. ASSUME UNCHANGED listVars PROVE ListInv'
  BY <1>4, <1>10 DEF listVars
<1>. QED  BY <1>5, <1>6, <1>7, <1>8, <1>9, <1>10, MemoryStep

\* After the grace period no reader arrives at the node that is freed.
LEMMA FreeIsUnseen ==
    ASSUME ThreadInv, GraceInv, NEW d \in Deleters, pc[d] = "del_free",
           NEW r \in Readers, pc[r] \in {"find_key", "find_next"}
    PROVE  old_head[d] \notin Nodes(p[r])
<1>1. i[d] \in Nat /\ n[d] \in Nat /\ tl_rcu_id[r] \in Int /\ i[d] >= n[d]
  BY DEF ThreadInv, TypeOK, GraceInv, Thread
<1>2. Passed(d, tl_rcu_id[r])
  BY <1>1 DEF Passed
<1>. QED  BY <1>2 DEF GraceInv, Grace

\* A reader that stays where it is sees the same nodes, and none of them is
\* freed.
LEMMA ReaderStays ==
    ASSUME ThreadInv, ThreadInv', InsertInv, DeleteInv, FindInv, GraceInv, [Next]_vars,
           NEW r \in Readers, pc[r] \in {"find_key", "find_next"}, pc'[r] = pc[r],
           p'[r] = p[r], wanted'[r] = wanted[r]
    PROVE  SeesAList(r)' /\ Nodes(p[r])' = Nodes(p[r])
<1>1. /\ TypeOK /\ TypeOK' /\ PublishedKept /\ heap \in [Addr -> Status]
  BY PublishedStays DEF ThreadInv, TypeOK
<1>2. /\ Whole(p[r], Addr, next, NULL)
      /\ \A a \in Nodes(p[r]) : heap[a] \in Published
      /\ pc[r] = "find_next" => key[p[r]] # wanted[r]
  BY DEF FindInv, SeesAList, Published
<1>3. /\ Whole(p[r], Addr, next', NULL)
      /\ ChainSet(p[r], next', NULL) = Nodes(p[r])
      /\ Nodes(p[r]) \subseteq Addr
  BY <1>1, <1>2, ListStays
<1>4. \A a \in Nodes(p[r]) : heap'[a] \in Published
  <2>1. ASSUME NEW x \in Inserters, Insert(x) PROVE \A a \in Nodes(p[r]) : heap'[a] = heap[a]
    BY <1>1, <1>2, <1>3, <2>1 DEF Insert, Published
  <2>2. ASSUME NEW x \in Inserters, InsertCas(x)
        PROVE  \A a \in Nodes(p[r]) : heap'[a] = heap[a]
    <3>1. heap[new_node[x]] = "private" /\ heap' = [heap EXCEPT ![new_node[x]] = "list"]
      BY <2>2 DEF InsertCas, InsertInv, Inserting
    <3>. QED  BY <1>1, <1>2, <1>3, <3>1 DEF Published
  <2>3. ASSUME NEW d \in Deleters, DeleteCas(d) PROVE \A a \in Nodes(p[r]) : heap'[a] \in Published
    BY <1>1, <1>2, <1>3, <2>3 DEF DeleteCas, Published
  <2>4. ASSUME NEW d \in Deleters, Free(d) PROVE \A a \in Nodes(p[r]) : heap'[a] = heap[a]
    <3>1. old_head[d] \notin Nodes(p[r])
      BY <2>4, FreeIsUnseen DEF Free
    <3>. QED  BY <1>1, <1>3, <2>4, <3>1 DEF Free
  <2>5. ASSUME heap' = heap PROVE \A a \in Nodes(p[r]) : heap'[a] \in Published
    BY <1>2, <2>5
  <2>. QED
    BY <1>2, <2>1, <2>2, <2>3, <2>4, <2>5, MemoryStep DEF InsertLink, listVars
<1>5. pc[r] = "find_next" => key'[p[r]] = key[p[r]]
  <2>1. SUFFICES ASSUME pc[r] = "find_next" PROVE key'[p[r]] = key[p[r]]
    OBVIOUS
  <2>2. p[r] \in Addr
    BY <2>1 DEF ThreadInv, PointersInv
  <2>3. p[r] \in Nodes(p[r])
    BY <1>1, <1>2, <2>2, FirstNode
  <2>. QED  BY <1>1, <1>2, <2>2, <2>3 DEF PublishedKept
<1>. QED  BY <1>2, <1>3, <1>4, <1>5 DEF SeesAList, Nodes, Published

\* What a step of rcu_list_find does to the reader's view.
LEMMA FindMoves ==
    ASSUME ThreadInv, ListInv, FindInv, NEW r \in Readers, FindStep(r),
           pc'[r] \in {"find_key", "find_next"}
    PROVE  /\ SeesAList(r)'
           /\ \/ FindHead(r) /\ p'[r] = rcu_list_head
              \/ /\ FindKey(r) /\ pc[r] = "find_key" /\ p'[r] = p[r]
                 /\ p[r] \in Addr /\ key[p[r]] # wanted[r]
              \/ /\ FindNext(r) /\ pc[r] = "find_next" /\ p'[r] = next[p[r]]
                 /\ p[r] \in Addr /\ Nodes(p[r]) = {p[r]} \union Nodes(next[p[r]])
           /\ UNCHANGED <<listVars, tl_rcu_id>>
           /\ \A q \in Readers : q # r =>
                 pc'[q] = pc[q] /\ p'[q] = p[q] /\ wanted'[q] = wanted[q]
<1>1. /\ TypeOK /\ r \in Thread /\ Readers \subseteq Thread /\ p \in [Readers -> Ptr]
      /\ wanted \in [Readers -> Key]
  BY DEF ThreadInv, TypeOK, Thread
<1>2. UNCHANGED <<listVars, tl_rcu_id>>
  BY DEF FindStep, CheckStop, ReadLock, FindHead, FindKey, FindNext, ReadUnlock, rcuVars
<1>3. \A q \in Readers : q # r =>
         pc'[q] = pc[q] /\ p'[q] = p[q] /\ wanted'[q] = wanted[q]
  BY <1>1, GotoMoves
  DEF FindStep, CheckStop, ReadLock, FindHead, FindKey, FindNext, ReadUnlock, findVars
<1>4. FindHead(r) \/ FindKey(r) \/ FindNext(r)
  BY <1>1, GotoMoves DEF FindStep, CheckStop, ReadLock, ReadUnlock
<1>5. UNCHANGED <<next, heap, key, rcu_list_head>>
  BY <1>2 DEF listVars
<1>6. ASSUME FindHead(r) PROVE SeesAList(r)' /\ p'[r] = rcu_list_head
  <2>1. p'[r] = rcu_list_head /\ pc'[r] = "find_key"
    BY <1>1, <1>6, GotoMoves DEF FindHead
  <2>2. /\ Whole(rcu_list_head, Addr, next, NULL)
        /\ \A a \in Nodes(rcu_list_head) : heap[a] = "list"
    BY DEF ListInv, ListIsExact
  <2>. QED  BY <1>5, <2>1, <2>2 DEF SeesAList, Nodes
<1>7. ASSUME FindKey(r)
      PROVE  /\ SeesAList(r)' /\ pc[r] = "find_key" /\ p'[r] = p[r]
             /\ p[r] \in Addr /\ key[p[r]] # wanted[r]
  <2>1. pc[r] = "find_key" /\ p'[r] = p[r] /\ wanted'[r] = wanted[r]
    BY <1>7 DEF FindKey, findVars
  <2>2. p[r] # NULL /\ key[p[r]] # wanted[r]
    BY <1>1, <1>7, GotoMoves DEF FindKey
  <2>3. SeesAList(r)
    BY <2>1 DEF FindInv
  <2>. QED  BY <1>1, <1>5, <2>1, <2>2, <2>3 DEF SeesAList, Nodes, Ptr
<1>8. ASSUME FindNext(r)
      PROVE  /\ SeesAList(r)' /\ pc[r] = "find_next" /\ p'[r] = next[p[r]]
             /\ p[r] \in Addr /\ Nodes(p[r]) = {p[r]} \union Nodes(next[p[r]])
  <2>1. pc[r] = "find_next" /\ p'[r] = next[p[r]] /\ pc'[r] = "find_key"
    BY <1>1, <1>8, GotoMoves DEF FindNext
  <2>2. SeesAList(r) /\ p[r] \in Addr
    BY <2>1 DEF FindInv, ThreadInv, PointersInv
  <2>3. /\ Whole(next[p[r]], Addr, next, NULL)
        /\ Nodes(p[r]) = {p[r]} \union Nodes(next[p[r]])
    BY <1>1, <2>2, FirstNode DEF SeesAList
  <2>. QED  BY <1>5, <2>1, <2>2, <2>3 DEF SeesAList, Nodes
<1>. QED  BY <1>2, <1>3, <1>4, <1>6, <1>7, <1>8

\* A reader in its section sees whole lists of nodes that are not freed.
LEMMA FindInvStep ==
    ASSUME ThreadInv, ThreadInv', InsertInv, DeleteInv, ListInv, FindInv, GraceInv, [Next]_vars
    PROVE  FindInv'
<1>1. SUFFICES ASSUME NEW r \in Readers, pc'[r] \in {"find_key", "find_next"}
               PROVE  SeesAList(r)'
  BY DEF FindInv
<1>2. CASE ReadersKept
  BY <1>1, <1>2, ReaderStays DEF ReadersKept
<1>3. ASSUME NEW q \in Readers, FindStep(q) PROVE SeesAList(r)'
  <2>1. CASE q = r
    BY <1>1, <1>3, <2>1, FindMoves
  <2>2. CASE q # r
    <3>1. pc'[r] = pc[r] /\ p'[r] = p[r] /\ wanted'[r] = wanted[r]
      BY <1>3, <2>2, GotoMoves
      DEF FindStep, CheckStop, ReadLock, FindHead, FindKey, FindNext, ReadUnlock, findVars,
          ThreadInv, TypeOK, Thread
    <3>. QED  BY <1>1, <3>1, ReaderStays
  <2>. QED  BY <2>1, <2>2
<1>. QED  BY <1>2, <1>3, RoleOfStep

\* A reader in its section has an id, and its count says so.
LEMMA ReaderIsCounted ==
    ASSUME ThreadInv, NEW r \in Readers, pc[r] \in {"find_key", "find_next"}
    PROVE  /\ tl_rcu_id[r] \in 0 .. rcu_thread_count - 1 /\ rcu_thread_count \in Nat
           /\ reader_counts[tl_rcu_id[r]] = 1
<1>1. r \in Registered
  BY DEF ThreadInv, IdsInv, Registered, Waiting, Thread
<1>. QED  BY <1>1 DEF ThreadInv, TypeOK, IdsInv, CountsInv, Section

\* urcu_synchronize passes a reader when its count is zero.  A reader that
\* begins later starts from the head, and does not see the unlinked node.
LEMMA GraceInvStep ==
    ASSUME ThreadInv, ThreadInv', InsertInv, DeleteInv, ListInv, FindInv, GraceInv, [Next]_vars
    PROVE  GraceInv'
<1>1. /\ TypeOK /\ Deleters \subseteq Thread /\ Deleters \intersect Readers = {}
      /\ n \in [Deleters -> Nat] /\ i \in [Deleters -> Nat]
      /\ \A r \in Readers : tl_rcu_id[r] \in Int
  BY UserspaceRcuAssumption DEF ThreadInv, TypeOK, Thread
<1>2. ASSUME NEW d \in Deleters, NEW r \in Readers, pc'[d] = pc[d], old_head'[d] = old_head[d],
             n'[d] = n[d], i'[d] = i[d],
             pc'[r] \in {"find_key", "find_next"} =>
                pc[r] = pc'[r] /\ p'[r] = p[r] /\ wanted'[r] = wanted[r]
                /\ tl_rcu_id'[r] = tl_rcu_id[r]
      PROVE  Grace(d, r)'
  <2>1. SUFFICES ASSUME pc'[d] \in {"sync_read", "del_free"},
                        pc'[r] \in {"find_key", "find_next"}, Passed(d, tl_rcu_id[r])'
                 PROVE  old_head'[d] \notin Nodes(p[r])'
    BY DEF Grace
  <2>2. Nodes(p[r])' = Nodes(p[r])
    BY <1>2, <2>1, ReaderStays
  <2>3. Passed(d, tl_rcu_id[r])
    BY <1>2, <2>1 DEF Passed
  <2>4. old_head[d] \notin Nodes(p[r])
    BY <1>2, <2>1, <2>3 DEF GraceInv, Grace
  <2>. QED  BY <1>2, <2>2, <2>4
<1>3. ASSUME NEW d \in Deleters, NEW r \in Readers, DeletersKept, ReadersKept PROVE Grace(d, r)'
  <2>1. CASE pc'[d] \in {"sync_read", "del_free"}
    BY <1>2, <1>3, <2>1 DEF DeletersKept, ReadersKept, DeletePC
  <2>2. CASE pc'[d] \notin {"sync_read", "del_free"}
    BY <2>2 DEF Grace
  <2>. QED  BY <2>1, <2>2
<1>4. ASSUME DeletersKept, NEW d \in Deleters, pc'[d] = "del_free" PROVE i'[d] >= n'[d]
  BY <1>4 DEF DeletersKept, DeletePC, GraceInv
<1>5. ASSUME NEW q \in Readers, FindStep(q), DeletersKept,
             NEW d \in Deleters, NEW r \in Readers
      PROVE  Grace(d, r)'
  <2>1. SUFFICES ASSUME pc'[d] \in {"sync_read", "del_free"},
                        pc'[r] \in {"find_key", "find_next"}
                 PROVE  Grace(d, r)'
    BY DEF Grace
  <2>2. pc'[d] = pc[d] /\ old_head'[d] = old_head[d] /\ n'[d] = n[d] /\ i'[d] = i[d]
    BY <1>5, <2>1 DEF DeletersKept, DeletePC
  <2>3. tl_rcu_id' = tl_rcu_id
    BY <1>5
    DEF FindStep, CheckStop, ReadLock, FindHead, FindKey, FindNext, ReadUnlock, rcuVars
  <2>4. CASE q # r
    <3>1. pc'[r] = pc[r] /\ p'[r] = p[r] /\ wanted'[r] = wanted[r]
      BY <1>5, <2>4, GotoMoves
      DEF FindStep, CheckStop, ReadLock, FindHead, FindKey, FindNext, ReadUnlock, findVars,
          ThreadInv, TypeOK, Thread
    <3>. QED  BY <1>2, <2>2, <2>3, <3>1
  <2>5. CASE q = r
    <3>1. SUFFICES ASSUME Passed(d, tl_rcu_id[r]) PROVE old_head[d] \notin Nodes(p[r])'
      BY <2>2, <2>3 DEF Grace, Passed
    <3>2. next' = next
      BY <1>5, <2>1, <2>5, FindMoves DEF listVars
    <3>3. CASE FindHead(r) /\ p'[r] = rcu_list_head
      <4>1. heap[old_head[d]] = "unlinked"
        BY <2>1, <2>2 DEF DeleteInv
      <4>2. old_head[d] \notin Nodes(rcu_list_head)
        BY <4>1 DEF ListInv, ListIsExact
      <4>. QED  BY <3>2, <3>3, <4>2 DEF Nodes
    <3>4. CASE pc[r] = "find_key" /\ p'[r] = p[r]
      <4>1. old_head[d] \notin Nodes(p[r])
        BY <2>1, <2>2, <3>1, <3>4 DEF GraceInv, Grace
      <4>. QED  BY <3>2, <3>4, <4>1 DEF Nodes
    <3>5. CASE /\ pc[r] = "find_next" /\ p'[r] = next[p[r]]
               /\ Nodes(p[r]) = {p[r]} \union Nodes(next[p[r]])
      <4>1. old_head[d] \notin Nodes(p[r])
        BY <2>1, <2>2, <3>1, <3>5 DEF GraceInv, Grace
      <4>2. old_head[d] \notin Nodes(next[p[r]])
        BY <3>5, <4>1
      <4>. QED  BY <3>2, <3>5, <4>2 DEF Nodes
    <3>. QED  BY <1>5, <2>1, <2>5, <3>3, <3>4, <3>5, FindMoves
  <2>. QED  BY <2>4, <2>5
<1>6. ASSUME NEW e \in Deleters, DeleteStep(e), ReadersKept, NEW d \in Deleters
      PROVE  /\ pc'[d] = "del_free" => i'[d] >= n'[d]
             /\ \A r \in Readers : Grace(d, r)'
  <2>1. CASE d # e
    <3>1. pc'[d] = pc[d] /\ old_head'[d] = old_head[d] /\ n'[d] = n[d] /\ i'[d] = i[d]
      BY <1>1, <1>6, <2>1, GotoMoves, EndIterationMoves
      DEF DeleteStep, DeleteLoad, DeleteKey, DeleteNext, DeleteCas, DeleteCasFails,
          Synchronize, SyncRead, Free, updateVars, syncVars, ThreadInv, TypeOK
    <3>. QED  BY <1>2, <1>6, <3>1 DEF ReadersKept, GraceInv
  <2>2. CASE d = e /\ Synchronize(d)
    <3>1. /\ pc'[d] = "sync_read" /\ n'[d] = rcu_thread_count /\ i'[d] = 0
          /\ tl_rcu_id' = tl_rcu_id /\ rcu_thread_count \in Nat
      BY <1>1, <2>2, GotoMoves DEF Synchronize, rcuVars, ThreadInv, TypeOK
    <3>2. ASSUME NEW r \in Readers, pc'[r] \in {"find_key", "find_next"}
          PROVE  ~Passed(d, tl_rcu_id[r])'
      <4>1. pc[r] \in {"find_key", "find_next"}
        BY <1>6, <3>2 DEF ReadersKept
      <4>2. tl_rcu_id[r] \in 0 .. rcu_thread_count - 1
        BY <4>1, ReaderIsCounted
      <4>. QED  BY <3>1, <4>2 DEF Passed
    <3>. QED  BY <3>1, <3>2 DEF Grace
  <2>3. CASE d = e /\ SyncRead(d)
    <3>1. /\ pc[d] = "sync_read" /\ n' = n /\ old_head' = old_head /\ next' = next
          /\ i' = [i EXCEPT ![d] = IF reader_counts[i[d]] > 0 THEN 0 ELSE @ + 1]
          /\ Goto(d, IF i'[d] < n[d] THEN "sync_read" ELSE "del_free")
          /\ tl_rcu_id' = tl_rcu_id
      BY <2>3 DEF SyncRead, updateVars, listVars, rcuVars
    <3>2. i'[d] = IF reader_counts[i[d]] > 0 THEN 0 ELSE i[d] + 1
      BY <1>1, <3>1
    <3>3. pc'[d] = "del_free" => i'[d] >= n'[d]
      <4>1. pc'[d] = IF i'[d] < n[d] THEN "sync_read" ELSE "del_free"
        BY <1>1, <3>1, GotoMoves
      <4>2. i'[d] \in Nat /\ n[d] \in Nat
        BY <1>1, <3>2
      <4>. QED  BY <3>1, <4>1, <4>2
    <3>4. ASSUME NEW r \in Readers, pc'[r] \in {"find_key", "find_next"},
                 Passed(d, tl_rcu_id[r])'
          PROVE  old_head'[d] \notin Nodes(p[r])'
      <4>1. pc[r] = pc'[r] /\ p'[r] = p[r]
        BY <1>6, <3>4 DEF ReadersKept
      <4>2. /\ tl_rcu_id[r] \in Nat /\ reader_counts[tl_rcu_id[r]] = 1
        BY <3>4, <4>1, ReaderIsCounted
      <4>3. i[d] = tl_rcu_id[r] => i'[d] = 0
        BY <3>2, <4>2
      <4>4. Passed(d, tl_rcu_id[r])
        BY <1>1, <3>1, <3>2, <3>4, <4>2, <4>3 DEF Passed
      <4>5. old_head[d] \notin Nodes(p[r])
        BY <3>1, <3>4, <4>1, <4>4 DEF GraceInv, Grace
      <4>. QED  BY <3>1, <4>1, <4>5 DEF Nodes
    <3>. QED  BY <3>3, <3>4 DEF Grace
  <2>4. CASE d = e /\ ~Synchronize(d) /\ ~SyncRead(d)
    <3>1. pc'[d] \notin {"sync_read", "del_free"}
      BY <1>1, <1>6, <2>4, GotoMoves, EndIterationMoves
      DEF DeleteStep, DeleteLoad, DeleteKey, DeleteNext, DeleteCas, DeleteCasFails, Free
    <3>. QED  BY <3>1 DEF Grace
  <2>. QED  BY <2>1, <2>2, <2>3, <2>4
<1>. QED
  <2>1. CASE DeletersKept /\ ReadersKept
    BY <1>3, <1>4, <2>1 DEF GraceInv
  <2>2. ASSUME NEW q \in Readers, FindStep(q), DeletersKept PROVE GraceInv'
    BY <1>4, <1>5, <2>2 DEF GraceInv
  <2>3. ASSUME NEW e \in Deleters, DeleteStep(e), ReadersKept PROVE GraceInv'
    BY <1>6, <2>3 DEF GraceInv
  <2>. QED  BY <2>1, <2>2, <2>3, RoleOfStep

-----------------------------------------------------------------------------
(* The theorems.                                                           *)

\* Before any thread runs, the list is empty and nobody works on a node.
LEMMA MemoryInvInit == Init => MemoryInv
<1>. SUFFICES ASSUME Init PROVE MemoryInv
  OBVIOUS
<1>1. TypeOK
  BY ThreadInvInit DEF ThreadInv
<1>2. \A x \in Thread : pc[x] \in {"create", "start", "insert"}
  BY DEF Init
<1>3. rcu_list_head = NULL /\ \A a \in Addr : heap[a] = "free"
  BY DEF Init
<1>4. ListInv
  BY <1>1, <1>3, NoNode DEF ListInv, ListIsExact
<1>5. InsertInv
  BY <1>2 DEF InsertInv, Inserting, Thread
<1>6. DeleteInv
  BY <1>2 DEF DeleteInv, Thread
<1>7. FindInv
  BY <1>2 DEF FindInv, Thread
<1>8. GraceInv
  BY <1>2 DEF GraceInv, Grace, Thread
<1>. QED  BY <1>4, <1>5, <1>6, <1>7, <1>8 DEF MemoryInv

\* The whole invariant is inductive when at most one thread deletes.
LEMMA IInvStep == ASSUME OneDeleter, IInv, [Next]_vars PROVE IInv'
<1>1. /\ ThreadInv /\ InsertInv /\ DeleteInv /\ ListInv /\ FindInv /\ GraceInv
  BY DEF IInv, MemoryInv
<1>2. ThreadInv'
  BY <1>1, ThreadInvStep
<1>3. InsertInv' /\ DeleteInv' /\ ListInv'
  BY <1>1, <1>2, InsertInvStep, DeleteInvStep, ListInvStep
<1>4. FindInv' /\ GraceInv'
  BY <1>1, <1>2, FindInvStep, GraceInvStep
<1>. QED  BY <1>2, <1>3, <1>4 DEF IInv, MemoryInv

\* The invariant holds in every reachable state.
LEMMA Invariance == ASSUME OneDeleter PROVE Spec => []IInv
<1>1. Init => IInv
  BY ThreadInvInit, MemoryInvInit DEF IInv
<1>2. IInv /\ [Next]_vars => IInv'
  BY IInvStep
<1>. QED  BY <1>1, <1>2, PTL DEF Spec

\* No thread reads from a node that was given to free().
THEOREM NodesAreNotUsedAfterFree == ASSUME OneDeleter PROVE Spec => []NoUseAfterFree
<1>1. IInv => NoUseAfterFree
  <2>. SUFFICES ASSUME IInv PROVE NoUseAfterFree
    OBVIOUS
  <2>1. ASSUME NEW r \in Readers, Reading(r) PROVE heap[p[r]] \in {"list", "unlinked"}
    <3>1. TypeOK /\ p[r] \in Addr
      BY <2>1 DEF IInv, ThreadInv, TypeOK, Reading, Ptr
    <3>2. Whole(p[r], Addr, next, NULL) /\ \A a \in Nodes(p[r]) : heap[a] \in {"list", "unlinked"}
      BY <2>1 DEF IInv, MemoryInv, FindInv, SeesAList, Reading
    <3>. QED  BY <3>1, <3>2, FirstNode
  <2>2. ASSUME NEW d \in Deleters, Deleting(d) PROVE heap[old_head[d]] \in {"list", "unlinked"}
    BY <2>2 DEF IInv, MemoryInv, DeleteInv, Deleting
  <2>. QED  BY <2>1, <2>2 DEF NoUseAfterFree
<1>. QED  BY <1>1, Invariance, PTL

\* When urcu_synchronize has returned, no reader is on its way to the node.
THEOREM GracePeriodProtects == ASSUME OneDeleter PROVE Spec => []GracePeriod
<1>1. IInv => GracePeriod
  <2>. SUFFICES ASSUME IInv, NEW d \in Deleters, NEW r \in Readers, pc[d] = "del_free", Reading(r)
                PROVE  old_head[d] \notin Nodes(p[r])
    BY DEF GracePeriod
  <2>. QED  BY FreeIsUnseen DEF IInv, MemoryInv, Reading
<1>. QED  BY <1>1, Invariance, PTL

\* No insert is lost and no deleted node comes back, although the CAS of a
\* delete compares addresses only.
THEOREM ListIsRight == ASSUME OneDeleter PROVE Spec => []ListIsExact
<1>1. IInv => ListIsExact
  BY DEF IInv, MemoryInv, ListInv
<1>. QED  BY <1>1, Invariance, PTL

-----------------------------------------------------------------------------
(* What a find returns.                                                    *)

\* The places in c of the nodes with key k, and the first of them.
Hits(c, keys, k) == {j \in DOMAIN c : keys[c[j]] = k}
Least(H) == CHOOSE j \in H : \A l \in H : j <= l
FirstHit(c, keys, k) == IF Hits(c, keys, k) = {} THEN NULL ELSE c[Least(Hits(c, keys, k))]

\* Found looks for the first node with the key in the chain.
LEMMA FoundIsFirstHit ==
    ASSUME NEW r, NEW first
    PROVE  Found(r, first) = FirstHit(Chain(first, next, NULL), key, wanted[r])
BY DEF Found, FirstHit, Hits, Least

\* A set of natural numbers that is not empty has one least element.
LEMMA LeastExists ==
    ASSUME NEW H \in SUBSET Nat, H # {}
    PROVE  Least(H) \in H /\ \A l \in H : Least(H) <= l
<1>1. IsWellFoundedOn(OpToRel(<, Nat), Nat)
  BY NatLessThanWellFounded
<1>2. \E m \in H : \A l \in H : ~ (<<l, m>> \in OpToRel(<, Nat))
  BY <1>1, WFMin
<1>3. \E m \in H : \A l \in H : ~ (l < m)
  BY <1>2 DEF OpToRel
<1>4. \E j \in H : \A l \in H : j <= l
  BY <1>3
<1>. QED  BY <1>4, Zenon DEF Least

\* A node without the key may be left out.
LEMMA FirstHitOfTail ==
    ASSUME NEW D, NEW a \in D, NEW t \in Seq(D), NEW keys, NEW k, keys[a] # k
    PROVE  FirstHit(<<a>> \o t, keys, k) = FirstHit(t, keys, k)
<1>. DEFINE c == <<a>> \o t
            H == Hits(c, keys, k)
            G == Hits(t, keys, k)
            m == Len(t)
<1>1. /\ c \in Seq(D) /\ m \in Nat /\ DOMAIN c = 1 .. m + 1 /\ DOMAIN t = 1 .. m
      /\ c[1] = a /\ \A j \in 1 .. m : c[j + 1] = t[j]
  OBVIOUS
<1>. HIDE DEF c, m
<1>2. \A j \in 1 .. m : j + 1 \in H <=> j \in G
  BY <1>1 DEF Hits
<1>3. 1 \notin H /\ H \subseteq 1 .. m + 1 /\ G \subseteq 1 .. m
  BY <1>1 DEF Hits
<1>. HIDE DEF H, G
<1>4. \A j \in H : j - 1 \in G /\ j - 1 \in 1 .. m /\ j = (j - 1) + 1
  BY <1>1, <1>2, <1>3
<1>5. CASE G = {}
  <2>1. H = {}
    BY <1>4, <1>5
  <2>. QED  BY <1>5, <2>1 DEF FirstHit, c, H, G
<1>6. CASE G # {}
  <2>1. PICK g \in G : g + 1 \in H
    BY <1>2, <1>3, <1>6
  <2>2. H # {} /\ H \in SUBSET Nat /\ G \in SUBSET Nat
    BY <1>1, <1>3, <2>1
  <2>3. /\ Least(G) \in G /\ \A l \in G : Least(G) <= l
        /\ Least(H) \in H /\ \A l \in H : Least(H) <= l
    BY <1>6, <2>2, LeastExists
  <2>4. Least(G) + 1 \in H /\ Least(H) - 1 \in G
    BY <1>2, <1>3, <1>4, <2>3
  <2>5. Least(H) = Least(G) + 1
    <3>1. Least(G) <= Least(H) - 1 /\ Least(H) <= Least(G) + 1
      BY <2>3, <2>4
    <3>2. Least(G) \in Nat /\ Least(H) \in Nat
      BY <2>2, <2>3
    <3>. QED  BY <3>1, <3>2
  <2>6. c[Least(H)] = t[Least(G)]
    BY <1>1, <1>3, <2>3, <2>5
  <2>. QED  BY <1>6, <2>2, <2>6 DEF FirstHit, c, H, G
<1>. QED  BY <1>5, <1>6

\* A step on which the reader stays, or goes on from a node without the key,
\* does not change what is to be found.
LEMMA FoundStays ==
    ASSUME OneDeleter, IInv, [Next]_vars,
           NEW r \in Readers, pc[r] \in {"find_key", "find_next"},
           pc'[r] \in {"find_key", "find_next"}
    PROVE  Found(r, p[r])' = Found(r, p[r])
<1>. DEFINE c == Chain(p[r], next, NULL)
<1>1. /\ ThreadInv /\ ThreadInv' /\ InsertInv /\ DeleteInv /\ ListInv /\ FindInv /\ GraceInv
  BY IInvStep DEF IInv, MemoryInv
<1>2. TypeOK /\ TypeOK' /\ PublishedKept
  BY <1>1, PublishedStays DEF ThreadInv
<1>3. /\ Whole(p[r], Addr, next, NULL)
      /\ \A a \in Nodes(p[r]) : heap[a] \in Published
      /\ pc[r] = "find_next" => p[r] \in Addr /\ key[p[r]] # wanted[r]
  BY <1>1 DEF FindInv, SeesAList, Published, ThreadInv, PointersInv
<1>4. c \in Seq(Addr) /\ \A j \in DOMAIN c : c[j] \in Nodes(p[r])
  BY <1>3 DEF Whole, IsChain, Nodes, ChainSet
<1>5. Chain(p[r], next', NULL) = c /\ Nodes(p[r]) \subseteq Addr
  BY <1>2, <1>3, ListStays
<1>6. \A j \in DOMAIN c : key'[c[j]] = key[c[j]]
  BY <1>2, <1>3, <1>4, <1>5 DEF PublishedKept
<1>7. Found(r, p[r]) = FirstHit(c, key, wanted[r])
  BY FoundIsFirstHit
<1>8. Found(r, p[r])' = FirstHit(Chain(p'[r], next', NULL), key', wanted'[r])
  BY DEF Found, FirstHit, Hits, Least
<1>. HIDE DEF c
<1>9. FirstHit(c, key', wanted[r]) = FirstHit(c, key, wanted[r])
  <2>1. Hits(c, key', wanted[r]) = Hits(c, key, wanted[r])
    BY <1>6 DEF Hits
  <2>. QED  BY <2>1 DEF FirstHit
<1>10. CASE p'[r] = p[r] /\ wanted'[r] = wanted[r]
  BY <1>5, <1>7, <1>8, <1>9, <1>10
<1>11. CASE FindNext(r)
  <2>1. /\ pc[r] = "find_next" /\ p'[r] = next[p[r]] /\ wanted' = wanted /\ UNCHANGED <<next, key>>
    BY <1>2, <1>11 DEF FindNext, listVars, TypeOK
  <2>. DEFINE t == Chain(next[p[r]], next, NULL)
  <2>2. c = <<p[r]>> \o t /\ Whole(next[p[r]], Addr, next, NULL)
    BY <1>2, <1>3, <2>1, FirstNode DEF c
  <2>3. t \in Seq(Addr)
    BY <2>2 DEF Whole, IsChain
  <2>. HIDE DEF t
  <2>4. FirstHit(<<p[r]>> \o t, key, wanted[r]) = FirstHit(t, key, wanted[r])
    BY <1>3, <2>1, <2>3, FirstHitOfTail
  <2>5. Found(r, p[r])' = FirstHit(t, key, wanted[r])
    BY <1>8, <2>1 DEF t
  <2>. QED  BY <1>7, <2>2, <2>4, <2>5
<1>12. ASSUME NEW q \in Readers, FindStep(q)
       PROVE  (p'[r] = p[r] /\ wanted'[r] = wanted[r]) \/ FindNext(r)
  <2>1. CASE q # r
    BY <1>2, <1>12, <2>1
    DEF FindStep, CheckStop, ReadLock, FindHead, FindKey, FindNext, ReadUnlock, findVars, TypeOK
  <2>2. CASE q = r
    BY <1>12, <2>2
    DEF FindStep, CheckStop, ReadLock, FindHead, FindKey, ReadUnlock, findVars
  <2>. QED  BY <2>1, <2>2
<1>13. CASE ReadersKept
  BY <1>10, <1>13 DEF ReadersKept
<1>. QED  BY <1>1, <1>10, <1>11, <1>12, <1>13, RoleOfStep

\* rcu_list_find answers from the list as it was when the reader read its head,
\* whatever is inserted and deleted while it traverses.
THEOREM FindAnswersFromOneList == ASSUME OneDeleter PROVE Spec => FindSeesOneList
<1>1. IInv /\ [Next]_vars =>
        [\A r \in Readers :
            pc[r] \in {"find_key", "find_next"} /\ pc'[r] \in {"find_key", "find_next"} =>
                Found(r, p[r])' = Found(r, p[r])]_vars
  BY FoundStays
<1>. QED  BY <1>1, Invariance, PTL DEF Spec, FindSeesOneList

=============================================================================
