------------------------ MODULE LockFreeQueueProofs -------------------------
(***************************************************************************)
(* The Michael-Scott queue for every number of threads and iterations,     *)
(* with an allocator that hands out freed nodes again.  The types hold in  *)
(* every state; that the queue is intact, that an answer NULL is true and  *)
(* the refinement hold up to the step with which malloc hands out a node   *)
(* that some worker still uses: EnqueuedIsKept shows what happens then.    *)
(***************************************************************************)
EXTENDS LockFreeQueue, ChainTheorems

-----------------------------------------------------------------------------
(* What holds whatever malloc hands out.                                   *)

\* The workers have iterations left until they are done.
LoopInv == \A x \in Thread : pc[x] = "done" <=> ops[x] = 0

\* A dequeuer owns the old sentinel that it took off until it has freed it.
Taking(c) == pc[c] \in {"deq_store", "free"}

\* The pointers a worker is about to follow or to store are no null pointers.
EnqPointers(p) ==
    /\ pc[p] \notin {"malloc", "done"} => node[p] # NULL
    /\ pc[p] \in {"enq_next", "enq_check", "enq_link", "enq_help", "enq_swing"}
          => old_tail[p] # NULL
    /\ pc[p] = "enq_help" => nxt[p] # NULL

DeqPointers(c) ==
    /\ pc[c] \in {"deq_tail", "deq_next", "deq_check", "deq_help", "deq_value",
                  "deq_cas", "deq_store"} => old_head[c] # NULL
    /\ pc[c] \in {"deq_help", "deq_cas"} => nxt[c] # NULL
    /\ Taking(c) => node[c] # NULL

PointerInv ==
    /\ \A p \in Enqueuers : EnqPointers(p)
    /\ \A c \in Dequeuers : DeqPointers(c)

BaseInv == TypeOK /\ LoopInv /\ PointerInv

-----------------------------------------------------------------------------
(* The inductive invariant, by topic.                                      *)

\* The nodes that were linked since malloc handed them out.
Past == {a \in Addr : heap[a] \in {"linked", "dequeued", "freed"}}
Linked == {a \in Addr : heap[a] = "linked"}

\* The linked nodes are those from head on; tail is the last of them or the one
\* before it.  What was taken off still has a next.
QueueInv ==
    /\ Whole(head, Addr, next, NULL)
    /\ ChainSet(head, next, NULL) = Linked
    /\ tail \in Linked
    /\ next[tail] # NULL => next[next[tail]] = NULL
    /\ \A a \in Past \ Linked : next[a] # NULL
    /\ \A a \in Addr : next[a] # NULL => value[next[a]] \in Value

\* A node of its own that an enqueuer has not linked yet.
Owning(p) == pc[p] \in {"enq_clear", "enq_tail", "enq_next", "enq_check", "enq_link", "enq_help"}

OwnInv ==
    /\ \A p \in Enqueuers : Owning(p) =>
          /\ heap[node[p]] = "private" /\ value[node[p]] \in Value
          /\ pc[p] # "enq_clear" => next[node[p]] = NULL
    /\ \A p, q \in Enqueuers : Owning(p) /\ Owning(q) /\ node[p] = node[q] => p = q

TakenInv ==
    /\ \A c \in Dequeuers : Taking(c) => heap[node[c]] = "dequeued"
    /\ \A c \in Dequeuers : pc[c] = "deq_store" => node[c] = old_head[c]
    /\ \A c, d \in Dequeuers : Taking(c) /\ Taking(d) /\ node[c] = node[d] => c = d

\* An old tail is a node that was linked: the tail, if it is the last.  Its next,
\* once set, stays.
HasTail(p) == pc[p] \in {"enq_next", "enq_check", "enq_link", "enq_help", "enq_swing"}

EnqOk(p) ==
    /\ HasTail(p) => old_tail[p] \in Past /\ (next[old_tail[p]] = NULL => old_tail[p] = tail)
    /\ pc[p] \in {"enq_check", "enq_help"} /\ nxt[p] # NULL => nxt[p] = next[old_tail[p]]
    /\ pc[p] = "enq_swing" => node[p] = next[old_tail[p]]

\* An old head is a node that was linked: the head, if it still is.  If the old
\* tail is another, then the old head has a next, and the head is not the tail
\* if it is the old head.  The value is that of the next node if the CAS is to
\* succeed.
HasHead(c) ==
    pc[c] \in {"deq_tail", "deq_next", "deq_check", "deq_help", "deq_value", "deq_cas"}

DeqOk(c) ==
    /\ HasHead(c) => old_head[c] \in Past /\ (old_head[c] \in Linked => old_head[c] = head)
    /\ pc[c] \in {"deq_next", "deq_check", "deq_value", "deq_cas"} /\ old_head[c] # old_tail[c] =>
          /\ next[old_head[c]] # NULL
          /\ old_head[c] = head => head # tail
    /\ pc[c] \in {"deq_check", "deq_help", "deq_value", "deq_cas"} =>
          /\ old_head[c] # old_tail[c] => nxt[c] # NULL
          /\ nxt[c] # NULL => nxt[c] = next[old_head[c]]
    /\ pc[c] = "deq_help" => old_head[c] = old_tail[c]
    /\ pc[c] \in {"deq_value", "deq_cas"} => old_head[c] # old_tail[c]
    /\ pc[c] \in {"deq_cas", "deq_store"} => val[c] \in Value
    /\ pc[c] = "deq_cas" /\ old_head[c] = head => val[c] = value[nxt[c]]

SafeInv ==
    /\ QueueInv
    /\ OwnInv
    /\ TakenInv
    /\ \A p \in Enqueuers : EnqOk(p)
    /\ \A c \in Dequeuers : DeqOk(c)

\* A NULL was read in next of the old head when that was the only node.
EmptyInv ==
    \A c \in Dequeuers : pc[c] = "deq_check" /\ nxt[c] = NULL => sawEmpty[c]

IInv ==
    /\ BaseInv
    /\ ~ stale => SafeInv /\ EmptyInv

-----------------------------------------------------------------------------
\* Addresses and values are numbers, NULL and -1 are neither.
LEMMA AddrFacts ==
    ASSUME LockFreeQueueAssumption
    PROVE  /\ IsFiniteSet(Addr) /\ Addr \subseteq Nat /\ 0 \in Addr
           /\ NULL \notin Addr /\ NULL \notin Value /\ NULL # -1
           /\ Value \subseteq Nat /\ -1 \notin Value /\ OPS \in Nat
<1>. USE DEF LockFreeQueueAssumption
<1>1. Enqueuers \in SUBSET Thread
  BY DEF Thread
<1>2. IsFiniteSet(Enqueuers)
  BY <1>1, FS_Subset
<1>3. Cardinality(Enqueuers) \in Nat
  BY <1>2, FS_CardinalityType
<1>4. Cardinality(Enqueuers) * OPS \in Nat
  BY <1>3
<1>5. IsFiniteSet(Addr)
  BY <1>4, FS_Interval DEF Addr
<1>6. Addr \subseteq Nat /\ 0 \in Addr /\ NULL \notin Addr
  BY <1>4 DEF Addr
<1>7. Value \subseteq Nat
  BY DEF Value
<1>8. -1 \notin Nat /\ NULL \notin Nat /\ NULL # -1
  OBVIOUS
<1>. QED  BY <1>5, <1>6, <1>7, <1>8

\* What worker p puts in the queue is one of the values.
LEMMA ValueOfIteration ==
    ASSUME LockFreeQueueAssumption, NEW p \in Enqueuers, NEW k \in 1 .. OPS
    PROVE  p * OPS + (OPS - k) \in Value
<1>1. OPS - k \in 0 .. OPS - 1
  BY DEF LockFreeQueueAssumption
<1>. QED  BY <1>1 DEF Value

\* A step of one worker leaves the locals of the others alone.
Alone(x) ==
    \A y \in Thread \ {x} :
        /\ pc'[y] = pc[y] /\ ops'[y] = ops[y] /\ node'[y] = node[y]
        /\ old_head'[y] = old_head[y] /\ old_tail'[y] = old_tail[y]
        /\ nxt'[y] = nxt[y] /\ val'[y] = val[y]

LEMMA EnqueuerAlone ==
    ASSUME TypeOK, NEW p \in Enqueuers, EnqueuerStep(p)
    PROVE  Alone(p)
<1>. USE DEF TypeOK, localVars, nodeVars
<1>1. CASE Malloc(p)
  BY <1>1 DEF Malloc, Goto, Alone
<1>2. CASE EnqClear(p)
  BY <1>2 DEF EnqClear, Goto, Alone
<1>3. CASE EnqTail(p)
  BY <1>3 DEF EnqTail, Goto, Alone
<1>4. CASE EnqNext(p)
  BY <1>4 DEF EnqNext, Goto, Alone
<1>5. CASE EnqCheck(p)
  BY <1>5 DEF EnqCheck, Goto, Alone
<1>6. CASE EnqLink(p)
  BY <1>6 DEF EnqLink, Goto, Alone
<1>7. CASE EnqLinkFails(p)
  BY <1>7 DEF EnqLinkFails, Goto, Alone
<1>8. CASE EnqHelp(p)
  BY <1>8 DEF EnqHelp, Goto, Alone
<1>9. CASE EnqSwing(p)
  BY <1>9 DEF EnqSwing, EndIteration, Goto, Alone
<1>. QED
  BY <1>1, <1>2, <1>3, <1>4, <1>5, <1>6, <1>7, <1>8, <1>9 DEF EnqueuerStep

LEMMA DequeuerAlone ==
    ASSUME TypeOK, NEW c \in Dequeuers, DequeuerStep(c)
    PROVE  Alone(c)
<1>. USE DEF TypeOK, localVars, nodeVars
<1>1. CASE DeqHead(c)
  BY <1>1 DEF DeqHead, Goto, Alone
<1>2. CASE DeqTail(c)
  BY <1>2 DEF DeqTail, Goto, Alone
<1>3. CASE DeqNext(c)
  BY <1>3 DEF DeqNext, Goto, Alone
<1>4. CASE DeqCheck(c)
  BY <1>4 DEF DeqCheck, Goto, Alone
<1>5. CASE DeqHelp(c)
  BY <1>5 DEF DeqHelp, Goto, Alone
<1>6. CASE DeqValue(c)
  BY <1>6 DEF DeqValue, Goto, Alone
<1>7. CASE DeqCas(c)
  BY <1>7 DEF DeqCas, Goto, Alone
<1>8. CASE DeqCasFails(c)
  BY <1>8 DEF DeqCasFails, Goto, Alone
<1>9. CASE DeqStore(c)
  BY <1>9 DEF DeqStore, Goto, Alone
<1>10. CASE Free(c)
  BY <1>10 DEF Free, EndIteration, Goto, Alone
<1>. QED
  BY <1>1, <1>2, <1>3, <1>4, <1>5, <1>6, <1>7, <1>8, <1>9, <1>10 DEF DequeuerStep

\* Where an iteration ends, a worker is in its own code.
LEMMA LoopHeadPlace ==
    ASSUME LockFreeQueueAssumption, NEW x \in Thread, NEW k \in Nat
    PROVE  /\ x \in Enqueuers => LoopHead(x, k) \in {"malloc", "done"}
           /\ x \in Dequeuers => LoopHead(x, k) \in {"deq_head", "done"}
           /\ LoopHead(x, k) = "done" <=> k = 0
BY DEF LoopHead, LockFreeQueueAssumption

-----------------------------------------------------------------------------
(* Types.                                                                  *)

\* The pointers a worker is about to follow or to store are addresses.
LEMMA Pointers ==
    ASSUME LockFreeQueueAssumption, BaseInv
    PROVE  /\ \A p \in Enqueuers :
                 /\ pc[p] \notin {"malloc", "done"} => node[p] \in Addr
                 /\ pc[p] \in {"enq_next", "enq_check", "enq_link", "enq_help", "enq_swing"}
                       => old_tail[p] \in Addr
                 /\ pc[p] = "enq_help" => nxt[p] \in Addr
           /\ \A c \in Dequeuers :
                 /\ pc[c] \in {"deq_tail", "deq_next", "deq_check", "deq_help", "deq_value",
                               "deq_cas", "deq_store"} => old_head[c] \in Addr
                 /\ pc[c] \in {"deq_help", "deq_cas"} => nxt[c] \in Addr
                 /\ Taking(c) => node[c] \in Addr
           /\ \A x \in Thread : pc[x] # "done" => ops[x] \in 1 .. OPS
<1>1. \A x \in Thread :
         /\ node[x] = NULL \/ node[x] \in Addr
         /\ old_head[x] = NULL \/ old_head[x] \in Addr
         /\ old_tail[x] = NULL \/ old_tail[x] \in Addr
         /\ nxt[x] = NULL \/ nxt[x] \in Addr
  BY DEF BaseInv, TypeOK, Ptr
<1>2. \A x \in Thread : pc[x] # "done" => ops[x] \in 1 .. OPS
  BY AddrFacts DEF BaseInv, LoopInv, TypeOK
<1>. QED  BY <1>1, <1>2 DEF BaseInv, PointerInv, EnqPointers, DeqPointers, Thread

\* The swing of tail gives it a node.
LEMMA SwingType ==
    ASSUME tail \in Addr, NEW x \in Thread, NEW a \in Addr, SwingTail(x, a)
    PROVE  tail' \in Addr
BY DEF SwingTail

\* The end of an iteration.
LEMMA EndType ==
    ASSUME LockFreeQueueAssumption, TypeOK, NEW x \in Thread, ops[x] \in 1 .. OPS, EndIteration(x)
    PROVE  /\ ops' \in [Thread -> 0 .. OPS]
           /\ pc' = [pc EXCEPT ![x] = LoopHead(x, ops[x] - 1)]
           /\ LoopHead(x, ops[x] - 1) = "done" <=> ops'[x] = 0
           /\ x \in Enqueuers => LoopHead(x, ops[x] - 1) \in {"malloc", "done"}
           /\ x \in Dequeuers => LoopHead(x, ops[x] - 1) \in {"deq_head", "done"}
<1>1. ops[x] - 1 \in 0 .. OPS /\ ops[x] - 1 \in Nat
  BY AddrFacts
<1>2. ops' = [ops EXCEPT ![x] = ops[x] - 1] /\ pc' = [pc EXCEPT ![x] = LoopHead(x, ops[x] - 1)]
  BY DEF EndIteration, Goto
<1>3. ops' \in [Thread -> 0 .. OPS] /\ ops'[x] = ops[x] - 1
  BY <1>1, <1>2 DEF TypeOK
<1>. QED  BY <1>1, <1>2, <1>3, LoopHeadPlace

\* A jump keeps every worker in its code.
LEMMA JumpType ==
    ASSUME LockFreeQueueAssumption, TypeOK, NEW x \in Thread, NEW label, pc' = [pc EXCEPT ![x] = label],
           x \in Enqueuers => label \in EnqueuerPC,
           x \in Dequeuers => label \in DequeuerPC
    PROVE  /\ pc' \in [Thread -> EnqueuerPC \union DequeuerPC]
           /\ \A p \in Enqueuers : pc'[p] \in EnqueuerPC
           /\ \A c \in Dequeuers : pc'[c] \in DequeuerPC
<1>1. x \in Enqueuers \/ x \in Dequeuers
  BY DEF Thread
<1>2. pc \in [Thread -> EnqueuerPC \union DequeuerPC]
      /\ (\A p \in Enqueuers : pc[p] \in EnqueuerPC /\ p \in Thread)
      /\ \A c \in Dequeuers : pc[c] \in DequeuerPC /\ c \in Thread
  BY DEF TypeOK, Thread
<1>3. label \in EnqueuerPC \union DequeuerPC
  BY <1>1
<1>. HIDE DEF EnqueuerPC, DequeuerPC
<1>. QED  BY <1>2, <1>3

LEMMA EnqueuerTypes ==
    ASSUME LockFreeQueueAssumption, BaseInv, NEW p \in Enqueuers, EnqueuerStep(p)
    PROVE  TypeOK'
<1>. USE DEF localVars, nodeVars
<1>1. /\ p \in Thread /\ p \notin Dequeuers /\ TypeOK
      /\ pc[p] \notin {"malloc", "done"} => node[p] \in Addr
      /\ pc[p] = "enq_help" => nxt[p] \in Addr
      /\ pc[p] \in {"enq_next", "enq_check", "enq_link", "enq_help", "enq_swing"}
            => old_tail[p] \in Addr
      /\ pc[p] # "done" => ops[p] \in 1 .. OPS
  BY Pointers DEF BaseInv, Thread, LockFreeQueueAssumption
<1>2. ASSUME NEW label, pc' = [pc EXCEPT ![p] = label], label \in EnqueuerPC
      PROVE  /\ pc' \in [Thread -> EnqueuerPC \union DequeuerPC]
             /\ \A q \in Enqueuers : pc'[q] \in EnqueuerPC
             /\ \A c \in Dequeuers : pc'[c] \in DequeuerPC
  BY <1>1, <1>2, JumpType
<1>3. CASE Malloc(p)
  <2>1. PICK a \in Addr :
           /\ heap' = [heap EXCEPT ![a] = "private"]
           /\ value' = [value EXCEPT ![a] = p * OPS + (OPS - ops[p])]
           /\ \E left \in {next[a], NULL} : next' = [next EXCEPT ![a] = left]
           /\ node' = [node EXCEPT ![p] = a]
    BY <1>3 DEF Malloc
  <2>2. p * OPS + (OPS - ops[p]) \in Value
    BY <1>1, <1>3, ValueOfIteration DEF Malloc
  <2>3. value' \in [Addr -> Value \union {-1}]
    BY <1>1, <2>1, <2>2 DEF TypeOK
  <2>4. next' \in [Addr -> Ptr] /\ node' \in [Thread -> Ptr] /\ heap' \in [Addr -> Status]
    BY <1>1, <2>1 DEF TypeOK, Ptr, Status
  <2>5. pc' = [pc EXCEPT ![p] = "enq_clear"] /\ "enq_clear" \in EnqueuerPC
    BY <1>3 DEF Malloc, Goto, EnqueuerPC
  <2>6. UNCHANGED <<head, tail, ops, old_head, old_tail, nxt, val>>
    BY <1>3 DEF Malloc
  <2>. QED  BY <1>1, <1>2, <2>3, <2>4, <2>5, <2>6 DEF TypeOK
<1>4. CASE EnqClear(p)
  <2>1. pc' = [pc EXCEPT ![p] = "enq_tail"] /\ "enq_tail" \in EnqueuerPC
    BY <1>4 DEF EnqClear, Goto, EnqueuerPC
  <2>. QED  BY <1>1, <1>2, <1>4, <2>1 DEF EnqClear, TypeOK, Ptr
<1>5. CASE EnqTail(p)
  <2>1. pc' = [pc EXCEPT ![p] = "enq_next"] /\ "enq_next" \in EnqueuerPC
    BY <1>5 DEF EnqTail, Goto, EnqueuerPC
  <2>. QED  BY <1>1, <1>2, <1>5, <2>1 DEF EnqTail, TypeOK, Ptr
<1>6. CASE EnqNext(p)
  <2>1. pc' = [pc EXCEPT ![p] = "enq_check"] /\ "enq_check" \in EnqueuerPC
    BY <1>6 DEF EnqNext, Goto, EnqueuerPC
  <2>. QED  BY <1>1, <1>2, <1>6, <2>1 DEF EnqNext, TypeOK, Ptr
<1>7. CASE EnqCheck(p)
  <2>1. PICK label \in {"enq_tail", "enq_link", "enq_help"} : pc' = [pc EXCEPT ![p] = label]
    BY <1>7 DEF EnqCheck, Goto
  <2>2. label \in EnqueuerPC
    BY DEF EnqueuerPC
  <2>. QED  BY <1>1, <1>2, <1>7, <2>1, <2>2 DEF EnqCheck, TypeOK
<1>8. CASE EnqLink(p)
  <2>1. pc' = [pc EXCEPT ![p] = "enq_swing"] /\ "enq_swing" \in EnqueuerPC
    BY <1>8 DEF EnqLink, Goto, EnqueuerPC
  <2>. QED  BY <1>1, <1>2, <1>8, <2>1 DEF EnqLink, TypeOK, Ptr, Status
<1>9. CASE EnqLinkFails(p)
  <2>1. pc' = [pc EXCEPT ![p] = "enq_tail"] /\ "enq_tail" \in EnqueuerPC
    BY <1>9 DEF EnqLinkFails, Goto, EnqueuerPC
  <2>. QED  BY <1>1, <1>2, <1>9, <2>1 DEF EnqLinkFails, TypeOK
<1>10. CASE EnqHelp(p)
  <2>1. pc' = [pc EXCEPT ![p] = "enq_tail"] /\ "enq_tail" \in EnqueuerPC
    BY <1>10 DEF EnqHelp, Goto, EnqueuerPC
  <2>2. tail' \in Addr
    BY <1>1, <1>10, SwingType DEF EnqHelp, TypeOK
  <2>. QED  BY <1>1, <1>2, <1>10, <2>1, <2>2 DEF EnqHelp, TypeOK
<1>11. CASE EnqSwing(p)
  <2>1. /\ ops' \in [Thread -> 0 .. OPS]
        /\ pc' = [pc EXCEPT ![p] = LoopHead(p, ops[p] - 1)]
        /\ LoopHead(p, ops[p] - 1) = "done" <=> ops'[p] = 0
        /\ p \in Enqueuers => LoopHead(p, ops[p] - 1) \in {"malloc", "done"}
        /\ p \in Dequeuers => LoopHead(p, ops[p] - 1) \in {"deq_head", "done"}
    BY <1>1, <1>11, EndType DEF EnqSwing
  <2>2. LoopHead(p, ops[p] - 1) \in EnqueuerPC
    BY <2>1 DEF EnqueuerPC
  <2>3. tail' \in Addr
    BY <1>1, <1>11, SwingType DEF EnqSwing, TypeOK
  <2>. QED  BY <1>1, <1>2, <1>11, <2>1, <2>2, <2>3 DEF EnqSwing, TypeOK
<1>. QED
  BY <1>3, <1>4, <1>5, <1>6, <1>7, <1>8, <1>9, <1>10, <1>11 DEF EnqueuerStep

LEMMA DequeuerTypes ==
    ASSUME LockFreeQueueAssumption, BaseInv, NEW c \in Dequeuers, DequeuerStep(c)
    PROVE  TypeOK'
<1>. USE DEF localVars, nodeVars
<1>1. /\ c \in Thread /\ c \notin Enqueuers /\ TypeOK
      /\ pc[c] \in {"deq_tail", "deq_next", "deq_check", "deq_help", "deq_value",
                    "deq_cas", "deq_store"} => old_head[c] \in Addr
      /\ pc[c] \in {"deq_help", "deq_cas"} => nxt[c] \in Addr
      /\ pc[c] \in {"deq_store", "free"} => node[c] \in Addr
      /\ pc[c] # "done" => ops[c] \in 1 .. OPS
  BY Pointers DEF BaseInv, Thread, LockFreeQueueAssumption, Taking
<1>2. ASSUME NEW label, pc' = [pc EXCEPT ![c] = label], label \in DequeuerPC
      PROVE  /\ pc' \in [Thread -> EnqueuerPC \union DequeuerPC]
             /\ \A q \in Enqueuers : pc'[q] \in EnqueuerPC
             /\ \A d \in Dequeuers : pc'[d] \in DequeuerPC
  BY <1>1, <1>2, JumpType
<1>3. CASE DeqHead(c)
  <2>1. pc' = [pc EXCEPT ![c] = "deq_tail"] /\ "deq_tail" \in DequeuerPC
    BY <1>3 DEF DeqHead, Goto, DequeuerPC
  <2>. QED  BY <1>1, <1>2, <1>3, <2>1 DEF DeqHead, TypeOK, Ptr
<1>4. CASE DeqTail(c)
  <2>1. pc' = [pc EXCEPT ![c] = "deq_next"] /\ "deq_next" \in DequeuerPC
    BY <1>4 DEF DeqTail, Goto, DequeuerPC
  <2>. QED  BY <1>1, <1>2, <1>4, <2>1 DEF DeqTail, TypeOK, Ptr
<1>5. CASE DeqNext(c)
  <2>1. pc' = [pc EXCEPT ![c] = "deq_check"] /\ "deq_check" \in DequeuerPC
    BY <1>5 DEF DeqNext, Goto, DequeuerPC
  <2>. QED  BY <1>1, <1>2, <1>5, <2>1 DEF DeqNext, TypeOK, Ptr
<1>6. CASE DeqCheck(c)
  <2>1. PICK label \in {"deq_head", "deq_value", "deq_help"} : pc' = [pc EXCEPT ![c] = label]
    BY <1>6 DEF DeqCheck, Goto
  <2>2. label \in DequeuerPC
    BY DEF DequeuerPC
  <2>. QED  BY <1>1, <1>2, <1>6, <2>1, <2>2 DEF DeqCheck, TypeOK
<1>7. CASE DeqHelp(c)
  <2>1. pc' = [pc EXCEPT ![c] = "deq_head"] /\ "deq_head" \in DequeuerPC
    BY <1>7 DEF DeqHelp, Goto, DequeuerPC
  <2>2. tail' \in Addr
    BY <1>1, <1>7, SwingType DEF DeqHelp, TypeOK
  <2>. QED  BY <1>1, <1>2, <1>7, <2>1, <2>2 DEF DeqHelp, TypeOK
<1>8. CASE DeqValue(c)
  <2>1. pc' = [pc EXCEPT ![c] = "deq_cas"] /\ "deq_cas" \in DequeuerPC
    BY <1>8 DEF DeqValue, Goto, DequeuerPC
  <2>2. nxt[c] \in Addr
    BY <1>1, <1>8 DEF DeqValue, TypeOK, Ptr
  <2>3. val' \in [Thread -> Value \union {-1}]
    BY <1>1, <1>8, <2>2 DEF DeqValue, TypeOK
  <2>. QED  BY <1>1, <1>2, <1>8, <2>1, <2>3 DEF DeqValue, TypeOK
<1>9. CASE DeqCas(c)
  <2>1. pc' = [pc EXCEPT ![c] = "deq_store"] /\ "deq_store" \in DequeuerPC
    BY <1>9 DEF DeqCas, Goto, DequeuerPC
  <2>2. node' \in [Thread -> Ptr] /\ heap' \in [Addr -> Status] /\ head' \in Addr
    BY <1>1, <1>9 DEF DeqCas, TypeOK, Ptr, Status
  <2>. QED  BY <1>1, <1>2, <1>9, <2>1, <2>2 DEF DeqCas, TypeOK
<1>10. CASE DeqCasFails(c)
  <2>1. pc' = [pc EXCEPT ![c] = "deq_head"] /\ "deq_head" \in DequeuerPC
    BY <1>10 DEF DeqCasFails, Goto, DequeuerPC
  <2>. QED  BY <1>1, <1>2, <1>10, <2>1 DEF DeqCasFails, TypeOK
<1>11. CASE DeqStore(c)
  <2>1. pc' = [pc EXCEPT ![c] = "free"] /\ "free" \in DequeuerPC
    BY <1>11 DEF DeqStore, Goto, DequeuerPC
  <2>. QED  BY <1>1, <1>2, <1>11, <2>1 DEF DeqStore, TypeOK
<1>12. CASE Free(c)
  <2>1. /\ ops' \in [Thread -> 0 .. OPS]
        /\ pc' = [pc EXCEPT ![c] = LoopHead(c, ops[c] - 1)]
        /\ LoopHead(c, ops[c] - 1) = "done" <=> ops'[c] = 0
        /\ c \in Enqueuers => LoopHead(c, ops[c] - 1) \in {"malloc", "done"}
        /\ c \in Dequeuers => LoopHead(c, ops[c] - 1) \in {"deq_head", "done"}
    BY <1>1, <1>12, EndType DEF Free
  <2>2. LoopHead(c, ops[c] - 1) \in DequeuerPC
    BY <2>1 DEF DequeuerPC
  <2>3. heap' \in [Addr -> Status]
    BY <1>1, <1>12 DEF Free, TypeOK, Status
  <2>. QED  BY <1>1, <1>2, <1>12, <2>1, <2>2, <2>3 DEF Free, TypeOK
<1>. QED
  BY <1>3, <1>4, <1>5, <1>6, <1>7, <1>8, <1>9, <1>10, <1>11, <1>12 DEF DequeuerStep

\* Every step keeps the types.
LEMMA TypeOKStep ==
    ASSUME LockFreeQueueAssumption, BaseInv, [Next]_vars
    PROVE  TypeOK'
<1>1. CASE UNCHANGED vars
  BY <1>1 DEF BaseInv, TypeOK, vars, localVars, nodeVars
<1>. QED  BY <1>1, EnqueuerTypes, DequeuerTypes DEF Next, Terminating

\* A worker is done when it has made its iterations.
LEMMA LoopInvStep ==
    ASSUME LockFreeQueueAssumption, BaseInv, [Next]_vars
    PROVE  LoopInv'
<1>. USE DEF localVars, nodeVars
<1>1. TypeOK /\ LoopInv
  BY DEF BaseInv
<1>2. ASSUME NEW x \in Thread, Alone(x), pc'[x] = "done" <=> ops'[x] = 0
      PROVE  LoopInv'
  BY <1>1, <1>2 DEF LoopInv, Alone
<1>3. ASSUME NEW x \in Thread, NEW label, label # "done", Goto(x, label), ops' = ops, pc[x] # "done"
      PROVE  pc'[x] = "done" <=> ops'[x] = 0
  BY <1>1, <1>3 DEF LoopInv, Goto, TypeOK
<1>4. ASSUME NEW x \in Thread, EndIteration(x), pc[x] # "done"
      PROVE  pc'[x] = "done" <=> ops'[x] = 0
  <2>1. ops[x] \in 1 .. OPS
    BY <1>4, Pointers
  <2>2. /\ ops' \in [Thread -> 0 .. OPS]
        /\ pc' = [pc EXCEPT ![x] = LoopHead(x, ops[x] - 1)]
        /\ LoopHead(x, ops[x] - 1) = "done" <=> ops'[x] = 0
        /\ x \in Enqueuers => LoopHead(x, ops[x] - 1) \in {"malloc", "done"}
        /\ x \in Dequeuers => LoopHead(x, ops[x] - 1) \in {"deq_head", "done"}
    BY <1>1, <1>4, <2>1, EndType
  <2>. QED  BY <1>1, <2>2 DEF TypeOK
<1>5. ASSUME NEW p \in Enqueuers, EnqueuerStep(p) PROVE LoopInv'
  <2>1. p \in Thread /\ Alone(p)
    BY <1>1, <1>5, EnqueuerAlone DEF Thread
  <2>2. pc'[p] = "done" <=> ops'[p] = 0
    <3>1. CASE EnqSwing(p)
      BY <1>4, <2>1, <3>1 DEF EnqSwing
    <3>2. CASE ~ EnqSwing(p)
      <4>1. ops' = ops /\ pc[p] # "done"
        BY <1>5, <3>2 DEF EnqueuerStep, Malloc, EnqClear, EnqTail, EnqNext, EnqCheck, EnqLink,
                          EnqLinkFails, EnqHelp
      <4>2. \E label : label # "done" /\ Goto(p, label)
        BY <1>5, <3>2 DEF EnqueuerStep, Malloc, EnqClear, EnqTail, EnqNext, EnqCheck, EnqLink,
                          EnqLinkFails, EnqHelp
      <4>. QED  BY <1>3, <2>1, <4>1, <4>2
    <3>. QED  BY <3>1, <3>2
  <2>. QED  BY <1>2, <2>1, <2>2
<1>6. ASSUME NEW c \in Dequeuers, DequeuerStep(c) PROVE LoopInv'
  <2>1. c \in Thread /\ Alone(c)
    BY <1>1, <1>6, DequeuerAlone DEF Thread
  <2>2. pc'[c] = "done" <=> ops'[c] = 0
    <3>1. CASE Free(c)
      BY <1>4, <2>1, <3>1 DEF Free
    <3>2. CASE ~ Free(c)
      <4>1. ops' = ops /\ pc[c] # "done"
        BY <1>6, <3>2 DEF DequeuerStep, DeqHead, DeqTail, DeqNext, DeqCheck, DeqHelp, DeqValue,
                          DeqCas, DeqCasFails, DeqStore
      <4>2. \E label : label # "done" /\ Goto(c, label)
        BY <1>6, <3>2 DEF DequeuerStep, DeqHead, DeqTail, DeqNext, DeqCheck, DeqHelp, DeqValue,
                          DeqCas, DeqCasFails, DeqStore
      <4>. QED  BY <1>3, <2>1, <4>1, <4>2
    <3>. QED  BY <3>1, <3>2
  <2>. QED  BY <1>2, <2>1, <2>2
<1>7. CASE UNCHANGED vars
  BY <1>1, <1>7 DEF LoopInv, vars
<1>. QED  BY <1>5, <1>6, <1>7 DEF Next, Terminating

\* The last step of an iteration leads to the next one, or to the end.
LEMMA IterationEnds ==
    ASSUME LockFreeQueueAssumption, BaseInv
    PROVE  /\ \A p \in Enqueuers : EnqSwing(p) => pc'[p] \in {"malloc", "done"}
           /\ \A c \in Dequeuers : Free(c) => pc'[c] \in {"deq_head", "done"}
<1>1. ASSUME NEW x \in Thread, pc[x] # "done", EndIteration(x)
      PROVE  /\ x \in Enqueuers => pc'[x] \in {"malloc", "done"}
             /\ x \in Dequeuers => pc'[x] \in {"deq_head", "done"}
  <2>1. ops[x] \in 1 .. OPS /\ TypeOK
    BY <1>1, Pointers DEF BaseInv
  <2>2. /\ ops' \in [Thread -> 0 .. OPS]
        /\ pc' = [pc EXCEPT ![x] = LoopHead(x, ops[x] - 1)]
        /\ LoopHead(x, ops[x] - 1) = "done" <=> ops'[x] = 0
        /\ x \in Enqueuers => LoopHead(x, ops[x] - 1) \in {"malloc", "done"}
        /\ x \in Dequeuers => LoopHead(x, ops[x] - 1) \in {"deq_head", "done"}
    BY <1>1, <2>1, EndType
  <2>. QED  BY <2>1, <2>2 DEF TypeOK
<1>. QED  BY <1>1 DEF EnqSwing, Free, Thread

\* No worker gets to where it follows a pointer without having one.
LEMMA PointerInvStep ==
    ASSUME LockFreeQueueAssumption, BaseInv, [Next]_vars
    PROVE  PointerInv'
<1>1. /\ TypeOK /\ PointerInv /\ NULL \notin Addr
      /\ \A p \in Enqueuers : p \in Thread /\ p \notin Dequeuers
      /\ \A c \in Dequeuers : c \in Thread
  BY AddrFacts DEF BaseInv, Thread, LockFreeQueueAssumption
<1>2. ASSUME NEW p \in Enqueuers, EnqueuerStep(p) PROVE PointerInv'
  <2>1. Alone(p)
    BY <1>1, <1>2, EnqueuerAlone
  <2>2. EnqPointers(p) /\ head # NULL /\ tail # NULL
    BY <1>1 DEF PointerInv, TypeOK
  <2>3. EnqPointers(p)'
    <3>1. CASE Malloc(p)
      <4>1. pc'[p] = "enq_clear" /\ node'[p] \in Addr
        BY <1>1, <3>1 DEF Malloc, Goto, TypeOK
      <4>. QED  BY <1>1, <4>1 DEF EnqPointers
    <3>2. CASE EnqSwing(p)
      BY <3>2, IterationEnds DEF EnqPointers
    <3>3. CASE ~ Malloc(p) /\ ~ EnqSwing(p)
      BY <1>1, <1>2, <2>2, <3>3 DEF EnqueuerStep, EnqClear, EnqTail, EnqNext, EnqCheck, EnqLink,
            EnqLinkFails, EnqHelp, Goto, TypeOK, localVars, EnqPointers
    <3>. QED  BY <3>1, <3>2, <3>3
  <2>4. ASSUME NEW q \in Enqueuers, q # p PROVE EnqPointers(q)'
    BY <1>1, <2>1, <2>4 DEF Alone, PointerInv, EnqPointers
  <2>5. ASSUME NEW c \in Dequeuers PROVE DeqPointers(c)'
    BY <1>1, <2>1, <2>5 DEF Alone, PointerInv, DeqPointers, Taking
  <2>. QED  BY <2>3, <2>4, <2>5 DEF PointerInv
<1>3. ASSUME NEW c \in Dequeuers, DequeuerStep(c) PROVE PointerInv'
  <2>1. Alone(c)
    BY <1>1, <1>3, DequeuerAlone
  <2>2. DeqPointers(c) /\ head # NULL /\ tail # NULL
    BY <1>1 DEF PointerInv, TypeOK
  <2>3. DeqPointers(c)'
    <3>1. CASE Free(c)
      BY <3>1, IterationEnds DEF DeqPointers, Taking
    <3>2. CASE ~ Free(c)
      BY <1>1, <1>3, <2>2, <3>2 DEF DequeuerStep, DeqHead, DeqTail, DeqNext, DeqCheck, DeqHelp,
            DeqValue, DeqCas, DeqCasFails, DeqStore, Goto, TypeOK, localVars, DeqPointers, Taking
    <3>. QED  BY <3>1, <3>2
  <2>4. ASSUME NEW d \in Dequeuers, d # c PROVE DeqPointers(d)'
    BY <1>1, <2>1, <2>4 DEF Alone, PointerInv, DeqPointers, Taking
  <2>5. ASSUME NEW q \in Enqueuers PROVE EnqPointers(q)'
    BY <1>1, <2>1, <2>5 DEF Alone, PointerInv, EnqPointers
  <2>. QED  BY <2>3, <2>4, <2>5 DEF PointerInv
<1>4. CASE UNCHANGED vars
  BY <1>1, <1>4 DEF vars, localVars, PointerInv, EnqPointers, DeqPointers, Taking
<1>. QED  BY <1>2, <1>3, <1>4 DEF Next, Terminating

\* Every step keeps what holds whatever malloc hands out.
LEMMA BaseInvStep ==
    ASSUME LockFreeQueueAssumption, BaseInv, [Next]_vars
    PROVE  BaseInv'
BY TypeOKStep, LoopInvStep, PointerInvStep DEF BaseInv

-----------------------------------------------------------------------------
(* Memory and the list.                                                    *)

\* malloc does not hand out a freed node that some worker still uses.
NoneReused == \A a \in Addr : heap[a] = "freed" /\ heap'[a] = "private" => ~ InUse(a)

\* What the proofs of the steps assume.
Premise == LockFreeQueueAssumption /\ BaseInv /\ SafeInv /\ [Next]_vars /\ NoneReused

\* The node that malloc hands out is not linked, and no worker uses it.
LEMMA MallocGives ==
    ASSUME Premise, NEW p \in Enqueuers, Malloc(p)
    PROVE  \E b \in Addr :
              /\ heap[b] \in {"unused", "freed"} /\ ~ (b \in Past /\ InUse(b))
              /\ heap' = [heap EXCEPT ![b] = "private"]
              /\ value' = [value EXCEPT ![b] = p * OPS + (OPS - ops[p])]
              /\ \E left \in {next[b], NULL} : next' = [next EXCEPT ![b] = left]
              /\ node' = [node EXCEPT ![p] = b]
              /\ p * OPS + (OPS - ops[p]) \in Value
<1>1. PICK b \in Addr :
         /\ heap[b] \in {"unused", "freed"}
         /\ heap' = [heap EXCEPT ![b] = "private"]
         /\ value' = [value EXCEPT ![b] = p * OPS + (OPS - ops[p])]
         /\ \E left \in {next[b], NULL} : next' = [next EXCEPT ![b] = left]
         /\ node' = [node EXCEPT ![p] = b]
  BY DEF Malloc, Allocatable
<1>2. heap \in [Addr -> Status] /\ p \in Thread /\ pc[p] # "done"
  BY DEF Premise, BaseInv, TypeOK, Thread, Malloc
<1>3. ~ (b \in Past /\ InUse(b))
  BY <1>1, <1>2 DEF Premise, NoneReused, Past
<1>4. p * OPS + (OPS - ops[p]) \in Value
  BY <1>2, Pointers, ValueOfIteration DEF Premise
<1>. QED  BY <1>1, <1>3, <1>4

\* Who writes to memory.
LEMMA MemoryStays ==
    ASSUME [Next]_vars,
           \A p \in Enqueuers : ~ Malloc(p) /\ ~ EnqClear(p) /\ ~ EnqLink(p),
           \A c \in Dequeuers : ~ DeqCas(c) /\ ~ DeqStore(c) /\ ~ Free(c)
    PROVE  next' = next /\ heap' = heap /\ value' = value /\ head' = head
<1>1. ASSUME NEW p \in Enqueuers, EnqueuerStep(p)
      PROVE  next' = next /\ heap' = heap /\ value' = value /\ head' = head
  BY <1>1 DEF EnqueuerStep, EnqTail, EnqNext, EnqCheck, EnqLinkFails, EnqHelp, EnqSwing, nodeVars
<1>2. ASSUME NEW c \in Dequeuers, DequeuerStep(c)
      PROVE  next' = next /\ heap' = heap /\ value' = value /\ head' = head
  BY <1>2 DEF DequeuerStep, DeqHead, DeqTail, DeqNext, DeqCheck, DeqHelp, DeqValue, DeqCasFails,
              nodeVars
<1>3. CASE UNCHANGED vars
  BY <1>3 DEF vars, nodeVars
<1>. QED  BY <1>1, <1>2, <1>3 DEF Next, Terminating

\* What the workers have in their hands.
LEMMA Hands ==
    ASSUME Premise
    PROVE  /\ next \in [Addr -> Ptr] /\ heap \in [Addr -> Status] /\ NULL \notin Addr
           /\ value \in [Addr -> Value \union {-1}] /\ Linked \subseteq Past /\ Past \subseteq Addr
           /\ \A p \in Enqueuers : EnqClear(p) \/ EnqLink(p) =>
                 Owning(p) /\ node[p] \in Addr /\ heap[node[p]] = "private"
           /\ \A p \in Enqueuers : EnqLink(p) => next[node[p]] = NULL /\ value[node[p]] \in Value
           /\ \A p \in Enqueuers : Owning(p) => node[p] \in Addr /\ heap[node[p]] = "private"
           /\ \A p, q \in Enqueuers : Owning(p) /\ Owning(q) /\ node[p] = node[q] => p = q
           /\ \A c \in Dequeuers : DeqStore(c) =>
                 old_head[c] \in Addr /\ heap[old_head[c]] = "dequeued" /\ val[c] \in Value
           /\ \A c \in Dequeuers : Free(c) => node[c] \in Addr /\ heap[node[c]] = "dequeued"
<1>1. /\ next \in [Addr -> Ptr] /\ heap \in [Addr -> Status] /\ NULL \notin Addr
      /\ value \in [Addr -> Value \union {-1}] /\ Linked \subseteq Past /\ Past \subseteq Addr
  BY AddrFacts DEF Premise, BaseInv, TypeOK, Past, Linked
<1>2. ASSUME NEW p \in Enqueuers, Owning(p)
      PROVE  node[p] \in Addr /\ heap[node[p]] = "private" /\ value[node[p]] \in Value
             /\ (pc[p] # "enq_clear" => next[node[p]] = NULL)
  BY <1>2, Pointers DEF Premise, SafeInv, OwnInv, Owning
<1>3. \A p \in Enqueuers : EnqClear(p) \/ EnqLink(p) =>
                 Owning(p) /\ node[p] \in Addr /\ heap[node[p]] = "private"
  BY <1>2 DEF EnqClear, EnqLink, Owning
<1>4. \A p \in Enqueuers : EnqLink(p) => next[node[p]] = NULL /\ value[node[p]] \in Value
  BY <1>2 DEF EnqLink, Owning
<1>5. \A p, q \in Enqueuers : Owning(p) /\ Owning(q) /\ node[p] = node[q] => p = q
  BY DEF Premise, SafeInv, OwnInv
<1>6. \A c \in Dequeuers : DeqStore(c) =>
                 old_head[c] \in Addr /\ heap[old_head[c]] = "dequeued" /\ val[c] \in Value
  BY Pointers DEF Premise, SafeInv, TakenInv, DeqOk, DeqStore, Taking
<1>7. \A c \in Dequeuers : Free(c) => node[c] \in Addr /\ heap[node[c]] = "dequeued"
  BY Pointers DEF Premise, SafeInv, TakenInv, Free, Taking
<1>. QED  BY <1>1, <1>2, <1>3, <1>4, <1>5, <1>6, <1>7

\* The linked nodes, as a list: the head is its first node, only the last one has
\* no next, and no next leads back to the head.
LEMMA ListFacts ==
    ASSUME LockFreeQueueAssumption, BaseInv, QueueInv
    PROVE  /\ head \in Linked
           /\ \A a \in Linked : next[a] # NULL => next[a] \in Linked /\ next[a] # head
           /\ \A a, b \in Linked : next[a] = NULL /\ next[b] = NULL => a = b
           /\ next[head] = NULL => Linked = {head}
<1>1. /\ IsFiniteSet(Addr) /\ NULL \notin Addr /\ next \in Links(Addr, NULL) /\ head \in Addr
      /\ Whole(head, Addr, next, NULL) /\ ChainSet(head, next, NULL) = Linked
  BY AddrFacts DEF BaseInv, TypeOK, Links, Ptr, QueueInv
<1> DEFINE s == Chain(head, next, NULL)
           f == Places(head, next, NULL)
<1>2. ArePlaces(f, Linked, s, head, Addr, next, NULL)
  BY <1>1, PlacesOfChain
<1>. HIDE DEF s, f
<1>3. /\ f \in [Linked -> 1 .. Len(s)] /\ Len(s) \in Nat /\ Linked \subseteq Addr
      /\ \A a \in Linked : s[f[a]] = a
      /\ head \in Linked /\ f[head] = 1
      /\ \A a \in Linked : IF f[a] = Len(s) THEN next[a] = NULL
                           ELSE next[a] \in Linked /\ f[next[a]] = f[a] + 1
  BY <1>2 DEF ArePlaces
<1>4. \A a \in Linked : next[a] # NULL => next[a] \in Linked /\ next[a] # head
  BY <1>3
<1>5. \A a \in Linked : next[a] = NULL => f[a] = Len(s)
  BY <1>1, <1>3
<1>6. \A a, b \in Linked : next[a] = NULL /\ next[b] = NULL => a = b
  <2>1. ASSUME NEW a \in Linked, NEW b \in Linked, next[a] = NULL, next[b] = NULL PROVE a = b
    <3>1. f[a] = f[b]
      BY <1>5, <2>1
    <3>. QED  BY <1>3, <3>1
  <2>. QED  BY <2>1
<1>7. ASSUME next[head] = NULL PROVE Linked = {head}
  <2>1. Len(s) = 1
    BY <1>3, <1>5, <1>7
  <2>2. \A a \in Linked : f[a] = 1
    BY <1>3, <2>1
  <2>3. \A a \in Linked : a = head
    BY <1>3, <2>2
  <2>. QED  BY <1>3, <2>3
<1>. QED  BY <1>3, <1>4, <1>6, <1>7

\* What a step does to memory: the nodes that some worker uses, or that are not
\* freed, stay what they are, and a link that is set stays.
Keeps(a) ==
    /\ a \in Past'
    /\ next[a] # NULL => next'[a] = next[a]
    /\ a \in Linked' => a \in Linked

LEMMA KeepsMemory ==
    ASSUME Premise, NEW a \in Past, heap[a] # "freed" \/ InUse(a)
    PROVE  Keeps(a)
<1>1. /\ next \in [Addr -> Ptr] /\ heap \in [Addr -> Status] /\ NULL \notin Addr
      /\ a \in Addr /\ heap[a] \in {"linked", "dequeued", "freed"}
      /\ \A p \in Enqueuers : EnqClear(p) \/ EnqLink(p) =>
            node[p] \in Addr /\ heap[node[p]] = "private"
  BY Hands DEF Past
<1>2. ASSUME next'[a] = next[a] \/ next[a] = NULL, heap'[a] = heap[a] \/ heap'[a] \in {"dequeued", "freed"}
      PROVE  Keeps(a)
  BY <1>1, <1>2 DEF Keeps, Past, Linked
<1>3. ASSUME NEW p \in Enqueuers, Malloc(p) PROVE Keeps(a)
  <2>1. PICK b \in Addr : /\ heap[b] \in {"unused", "freed"} /\ ~ (b \in Past /\ InUse(b))
                          /\ heap' = [heap EXCEPT ![b] = "private"]
                          /\ \E left \in {next[b], NULL} : next' = [next EXCEPT ![b] = left]
    BY <1>3, MallocGives
  <2>2. a # b
    BY <1>1, <2>1
  <2>. QED  BY <1>1, <1>2, <2>1, <2>2
<1>4. ASSUME NEW p \in Enqueuers, EnqClear(p) PROVE Keeps(a)
  <2>1. next' = [next EXCEPT ![node[p]] = NULL] /\ heap' = heap
    BY <1>4 DEF EnqClear
  <2>. QED  BY <1>1, <1>2, <1>4, <2>1
<1>5. ASSUME NEW p \in Enqueuers, EnqLink(p) PROVE Keeps(a)
  <2>1. /\ next[old_tail[p]] = NULL /\ next' = [next EXCEPT ![old_tail[p]] = node[p]]
        /\ heap' = [heap EXCEPT ![node[p]] = "linked"]
    BY <1>5 DEF EnqLink
  <2>2. heap'[a] = heap[a]
    BY <1>1, <1>5, <2>1
  <2>. QED  BY <1>1, <1>2, <2>1, <2>2
<1>6. ASSUME NEW c \in Dequeuers, DeqCas(c) \/ Free(c) PROVE Keeps(a)
  <2>1. /\ next' = next
        /\ \/ heap' = [heap EXCEPT ![old_head[c]] = "dequeued"]
           \/ heap' = [heap EXCEPT ![node[c]] = "freed"]
    BY <1>6 DEF DeqCas, Free
  <2>. QED  BY <1>1, <1>2, <2>1
<1>7. ASSUME NEW c \in Dequeuers, DeqStore(c) PROVE Keeps(a)
  BY <1>2, <1>7 DEF DeqStore
<1>. QED  BY <1>2, <1>3, <1>4, <1>5, <1>6, <1>7, MemoryStays DEF Premise

\* The nodes that are not in the list: those the enqueuers own, and those the
\* dequeuers took off.  Values are written to no other nodes.
LEMMA KeepsNodes ==
    ASSUME Premise
    PROVE  /\ \A q \in Enqueuers : Owning(q) /\ ~ EnqLink(q) =>
                 /\ heap'[node[q]] = "private" /\ value'[node[q]] = value[node[q]]
                 /\ next[node[q]] = NULL => next'[node[q]] = NULL
           /\ \A c \in Dequeuers : Taking(c) /\ ~ Free(c) => heap'[node[c]] = "dequeued"
           /\ \A c \in Dequeuers : Taking(c) /\ ~ DeqStore(c) => value'[node[c]] = value[node[c]]
           /\ \A a \in Linked : value'[a] = value[a]
           /\ \A a \in Addr : value'[a] = value[a] \/ value'[a] \in Value
<1> DEFINE Goal == 
           /\ \A q \in Enqueuers : Owning(q) /\ ~ EnqLink(q) =>
                 /\ heap'[node[q]] = "private" /\ value'[node[q]] = value[node[q]]
                 /\ next[node[q]] = NULL => next'[node[q]] = NULL
           /\ \A c \in Dequeuers : Taking(c) /\ ~ Free(c) => heap'[node[c]] = "dequeued"
           /\ \A c \in Dequeuers : Taking(c) /\ ~ DeqStore(c) => value'[node[c]] = value[node[c]]
           /\ \A a \in Linked : value'[a] = value[a]
           /\ \A a \in Addr : value'[a] = value[a] \/ value'[a] \in Value
<1>1. /\ next \in [Addr -> Ptr] /\ heap \in [Addr -> Status] /\ NULL \notin Addr
      /\ value \in [Addr -> Value \union {-1}] /\ Linked \subseteq Addr
      /\ \A a \in Linked : heap[a] = "linked"
      /\ \A p \in Enqueuers : EnqClear(p) \/ EnqLink(p) => Owning(p)
      /\ \A p \in Enqueuers : Owning(p) => node[p] \in Addr /\ heap[node[p]] = "private"
      /\ \A p, q \in Enqueuers : Owning(p) /\ Owning(q) /\ node[p] = node[q] => p = q
      /\ \A c \in Dequeuers : DeqStore(c) => Taking(c) /\ node[c] = old_head[c] /\ val[c] \in Value
      /\ \A c \in Dequeuers : Free(c) => Taking(c)
      /\ \A c \in Dequeuers : Taking(c) => node[c] \in Addr /\ heap[node[c]] = "dequeued"
      /\ \A c, d \in Dequeuers : Taking(c) /\ Taking(d) /\ node[c] = node[d] => c = d
  <2>1. \A c \in Dequeuers : DeqStore(c) => Taking(c) /\ node[c] = old_head[c] /\ val[c] \in Value
    BY Hands DEF Premise, SafeInv, TakenInv, DeqStore, Taking
  <2>2. \A c \in Dequeuers : Taking(c) => node[c] \in Addr /\ heap[node[c]] = "dequeued"
    BY Pointers DEF Premise, SafeInv, TakenInv
  <2>3. \A c, d \in Dequeuers : Taking(c) /\ Taking(d) /\ node[c] = node[d] => c = d
    BY DEF Premise, SafeInv, TakenInv
  <2>. QED  BY Hands, <2>1, <2>2, <2>3 DEF Linked, Free, Taking
<1>. SUFFICES Goal
  BY DEF Goal
<1>2. ASSUME next' = next, heap' = heap, value' = value PROVE Goal
  BY <1>1, <1>2
<1>3. ASSUME NEW p \in Enqueuers, Malloc(p) PROVE Goal
  <2>1. PICK b \in Addr : /\ heap[b] \in {"unused", "freed"}
                          /\ heap' = [heap EXCEPT ![b] = "private"]
                          /\ value' = [value EXCEPT ![b] = p * OPS + (OPS - ops[p])]
                          /\ \E left \in {next[b], NULL} : next' = [next EXCEPT ![b] = left]
                          /\ p * OPS + (OPS - ops[p]) \in Value
    BY <1>3, MallocGives
  <2>2. \A a \in Addr : a # b => heap'[a] = heap[a] /\ value'[a] = value[a] /\ next'[a] = next[a]
    BY <1>1, <2>1
  <2>3. value'[b] \in Value
    BY <1>1, <2>1
  <2>4. heap[b] \notin {"private", "linked", "dequeued"}
    BY <2>1
  <2>. HIDE DEF Value
  <2>. QED  BY <1>1, <2>2, <2>3, <2>4
<1>4. ASSUME NEW p \in Enqueuers, EnqClear(p) PROVE Goal
  <2>1. next' = [next EXCEPT ![node[p]] = NULL] /\ heap' = heap /\ value' = value
    BY <1>4 DEF EnqClear
  <2>. QED  BY <1>1, <1>4, <2>1
<1>5. ASSUME NEW p \in Enqueuers, EnqLink(p) PROVE Goal
  <2>1. /\ next[old_tail[p]] = NULL /\ next' = [next EXCEPT ![old_tail[p]] = node[p]]
        /\ heap' = [heap EXCEPT ![node[p]] = "linked"] /\ value' = value
    BY <1>5 DEF EnqLink
  <2>2. old_tail[p] \in Past
    BY <1>5 DEF Premise, SafeInv, EnqOk, EnqLink, HasTail
  <2>3. \A a \in Addr : a # node[p] => heap'[a] = heap[a]
    BY <1>1, <1>5, <2>1
  <2>4. \A q \in Enqueuers : Owning(q) => next'[node[q]] = next[node[q]]
    BY <1>1, <2>1, <2>2 DEF Past
  <2>. QED  BY <1>1, <1>5, <2>1, <2>3, <2>4
<1>6. ASSUME NEW c \in Dequeuers, DeqCas(c) PROVE Goal
  <2>1. heap' = [heap EXCEPT ![head] = "dequeued"] /\ next' = next /\ value' = value
    BY <1>6 DEF DeqCas
  <2>2. heap[head] = "linked"
    BY ListFacts DEF Premise, SafeInv, Linked
  <2>. QED  BY <1>1, <2>1, <2>2
<1>7. ASSUME NEW c \in Dequeuers, DeqStore(c) PROVE Goal
  <2>1. value' = [value EXCEPT ![node[c]] = val[c]] /\ next' = next /\ heap' = heap
    BY <1>1, <1>7 DEF DeqStore
  <2>2. \A a \in Addr : a # node[c] => value'[a] = value[a]
    BY <1>1, <2>1
  <2>3. node[c] \in Addr /\ heap[node[c]] = "dequeued" /\ value'[node[c]] \in Value
    BY <1>1, <1>7, <2>1
  <2>. HIDE DEF Value
  <2>. QED  BY <1>1, <1>7, <2>1, <2>2, <2>3
<1>8. ASSUME NEW c \in Dequeuers, Free(c) PROVE Goal
  <2>1. heap' = [heap EXCEPT ![node[c]] = "freed"] /\ next' = next /\ value' = value
    BY <1>8 DEF Free
  <2>. QED  BY <1>1, <1>8, <2>1
<1>. HIDE DEF Goal
<1>. QED  BY <1>2, <1>3, <1>4, <1>5, <1>6, <1>7, <1>8, MemoryStays DEF Premise

\* The list from head on is whole, and its nodes are those that are linked.
ListInv == Whole(head, Addr, next, NULL) /\ ChainSet(head, next, NULL) = Linked

\* What the lemmas about lists ask for.
LEMMA ListPremise ==
    ASSUME Premise
    PROVE  /\ IsFiniteSet(Addr) /\ NULL \notin Addr /\ NULL = NULL
           /\ next \in Links(Addr, NULL) /\ next' \in Links(Addr, NULL)
           /\ head \in Addr /\ head' \in Addr /\ head \in Linked /\ tail \in Linked
           /\ Linked \subseteq Addr
           /\ Whole(head, Addr, next, NULL) /\ ChainSet(head, next, NULL) = Linked
<1>1. TypeOK'
  BY TypeOKStep DEF Premise
<1>. QED
  BY <1>1, AddrFacts, ListFacts DEF Premise, SafeInv, QueueInv, BaseInv, TypeOK, Links, Ptr, Linked

\* Only the CAS of line 89 moves head.
LEMMA HeadStays ==
    ASSUME [Next]_vars, \A c \in Dequeuers : ~ DeqCas(c)
    PROVE  head' = head
<1>1. ASSUME NEW p \in Enqueuers, EnqueuerStep(p) PROVE head' = head
  BY <1>1 DEF EnqueuerStep, Malloc, EnqClear, EnqTail, EnqNext, EnqCheck, EnqLink, EnqLinkFails,
              EnqHelp, EnqSwing
<1>2. ASSUME NEW c \in Dequeuers, DequeuerStep(c) PROVE head' = head
  BY <1>2 DEF DequeuerStep, DeqHead, DeqTail, DeqNext, DeqCheck, DeqHelp, DeqValue, DeqCasFails,
              DeqStore, Free
<1>3. CASE UNCHANGED vars
  BY <1>3 DEF vars
<1>. QED  BY <1>1, <1>2, <1>3 DEF Next, Terminating

\* All other steps leave the list alone.
LEMMA ListStays ==
    ASSUME Premise,
           \A p \in Enqueuers : ~ EnqLink(p),
           \A c \in Dequeuers : ~ DeqCas(c)
    PROVE  /\ head' = head /\ Nodes' = Nodes /\ Linked' = Linked /\ ListInv'
           /\ \A a \in Linked : next'[a] = next[a]
<1>1. /\ IsFiniteSet(Addr) /\ NULL \notin Addr /\ NULL = NULL
      /\ next \in Links(Addr, NULL) /\ next' \in Links(Addr, NULL)
      /\ head \in Addr /\ head' \in Addr /\ head \in Linked /\ tail \in Linked
      /\ Linked \subseteq Addr
      /\ Whole(head, Addr, next, NULL) /\ ChainSet(head, next, NULL) = Linked
  BY ListPremise
<1>2. head' = head
  BY HeadStays DEF Premise
<1>3. /\ \A a \in Addr : heap'[a] = "linked" <=> heap[a] = "linked"
      /\ \A a \in Linked : next'[a] = next[a]
  <2>1. /\ next \in [Addr -> Ptr] /\ heap \in [Addr -> Status]
        /\ \A p \in Enqueuers : EnqClear(p) => node[p] \in Addr /\ heap[node[p]] = "private"
        /\ \A c \in Dequeuers : Free(c) => node[c] \in Addr /\ heap[node[c]] = "dequeued"
    BY Hands
  <2>2. CASE next' = next /\ heap' = heap
    BY <2>2
  <2>3. ASSUME NEW p \in Enqueuers, Malloc(p)
        PROVE  /\ \A a \in Addr : heap'[a] = "linked" <=> heap[a] = "linked"
               /\ \A a \in Linked : next'[a] = next[a]
    <3>1. PICK b \in Addr : /\ heap[b] \in {"unused", "freed"}
                            /\ heap' = [heap EXCEPT ![b] = "private"]
                            /\ \E left \in {next[b], NULL} : next' = [next EXCEPT ![b] = left]
      BY <2>3, MallocGives
    <3>. QED  BY <2>1, <3>1 DEF Linked
  <2>4. ASSUME NEW p \in Enqueuers, EnqClear(p)
        PROVE  /\ \A a \in Addr : heap'[a] = "linked" <=> heap[a] = "linked"
               /\ \A a \in Linked : next'[a] = next[a]
    <3>1. next' = [next EXCEPT ![node[p]] = NULL] /\ heap' = heap
      BY <2>4 DEF EnqClear
    <3>. QED  BY <2>1, <2>4, <3>1 DEF Linked
  <2>5. ASSUME NEW c \in Dequeuers, Free(c)
        PROVE  /\ \A a \in Addr : heap'[a] = "linked" <=> heap[a] = "linked"
               /\ \A a \in Linked : next'[a] = next[a]
    <3>1. heap' = [heap EXCEPT ![node[c]] = "freed"] /\ next' = next
      BY <2>5 DEF Free
    <3>. QED  BY <2>1, <2>5, <3>1
  <2>6. ASSUME NEW c \in Dequeuers, DeqStore(c) PROVE next' = next /\ heap' = heap
    BY <2>6 DEF DeqStore
  <2>. QED  BY <2>2, <2>3, <2>4, <2>5, <2>6, MemoryStays DEF Premise
<1>4. Linked' = Linked
  BY <1>3 DEF Linked
<1>5. /\ Chain(head, next', NULL) = Chain(head, next, NULL)
      /\ Whole(head, Addr, next', NULL)
      /\ ChainSet(head, next', NULL) = ChainSet(head, next, NULL)
  BY <1>1, <1>3, ChainKept
<1>. QED  BY <1>1, <1>2, <1>3, <1>4, <1>5 DEF Nodes, ListInv

\* The CAS of line 46 appends the node to the list: old_tail is its last node.
LEMMA LinkAppends ==
    ASSUME Premise, NEW p \in Enqueuers, EnqLink(p)
    PROVE  /\ head' = head /\ Nodes' = Append(Nodes, node[p]) /\ Len(Nodes') = Len(Nodes) + 1
           /\ Linked' = Linked \union {node[p]} /\ node[p] \notin Linked /\ ListInv'
           /\ node[p] \in Addr /\ old_tail[p] = tail /\ next[tail] = NULL
           /\ next'[tail] = node[p] /\ next'[node[p]] = NULL
           /\ \A a \in Linked \ {tail} : next'[a] = next[a]
<1>1. /\ IsFiniteSet(Addr) /\ NULL \notin Addr /\ NULL = NULL
      /\ next \in Links(Addr, NULL) /\ next' \in Links(Addr, NULL)
      /\ head \in Addr /\ head' \in Addr /\ head \in Linked /\ tail \in Linked
      /\ Linked \subseteq Addr
      /\ Whole(head, Addr, next, NULL) /\ ChainSet(head, next, NULL) = Linked
  BY ListPremise
<1>2. /\ next[old_tail[p]] = NULL /\ next' = [next EXCEPT ![old_tail[p]] = node[p]]
      /\ heap' = [heap EXCEPT ![node[p]] = "linked"] /\ head' = head
  BY DEF EnqLink
<1>3. old_tail[p] = tail
  BY <1>2 DEF Premise, SafeInv, EnqOk, EnqLink, HasTail
<1>4. /\ node[p] \in Addr /\ heap[node[p]] = "private" /\ next[node[p]] = NULL
      /\ heap \in [Addr -> Status]
  BY Hands
<1>5. node[p] \notin Linked /\ node[p] # tail
  BY <1>1, <1>4 DEF Linked
<1>6. /\ next'[tail] = node[p] /\ next[tail] = NULL
      /\ \A a \in Addr \ {tail} : next'[a] = next[a]
  BY <1>1, <1>2, <1>3 DEF Links
<1>7. Linked' = Linked \union {node[p]}
  BY <1>2, <1>4 DEF Linked
<1>8. /\ Whole(head, Addr, next', NULL)
      /\ Chain(head, next', NULL) = Append(Chain(head, next, NULL), node[p])
      /\ Len(Chain(head, next', NULL)) = Len(Chain(head, next, NULL)) + 1
      /\ ChainSet(head, next', NULL) = ChainSet(head, next, NULL) \union {node[p]}
  BY <1>1, <1>4, <1>5, <1>6, AppendToChain
<1>. QED  BY <1>1, <1>2, <1>3, <1>4, <1>5, <1>6, <1>7, <1>8 DEF Nodes, ListInv

\* The CAS of line 89 takes the first node off the list: it is not the last one.
LEMMA CasShortens ==
    ASSUME Premise, NEW c \in Dequeuers, DeqCas(c)
    PROVE  /\ old_head[c] = head /\ head' = next[head] /\ next[head] # NULL /\ nxt[c] = next[head]
           /\ head # tail /\ Nodes' = Tail(Nodes) /\ Nodes = <<head>> \o Nodes'
           /\ Linked' = Linked \ {head} /\ ListInv'
           /\ next' = next /\ value' = value
           /\ heap' = [heap EXCEPT ![head] = "dequeued"]
           /\ val[c] \in Value /\ val[c] = value[next[head]]
<1>1. /\ IsFiniteSet(Addr) /\ NULL \notin Addr /\ NULL = NULL
      /\ next \in Links(Addr, NULL) /\ next' \in Links(Addr, NULL)
      /\ head \in Addr /\ head' \in Addr /\ head \in Linked /\ tail \in Linked
      /\ Linked \subseteq Addr
      /\ Whole(head, Addr, next, NULL) /\ ChainSet(head, next, NULL) = Linked
  BY ListPremise
<1>2. /\ head = old_head[c] /\ head' = nxt[c] /\ next' = next /\ value' = value
      /\ heap' = [heap EXCEPT ![head] = "dequeued"] /\ pc[c] = "deq_cas"
  BY DEF DeqCas
<1>3. DeqOk(c) /\ heap \in [Addr -> Status]
  BY Hands DEF Premise, SafeInv
<1>4. /\ old_head[c] # old_tail[c] /\ next[head] # NULL /\ head # tail
      /\ nxt[c] = next[head] /\ val[c] \in Value /\ val[c] = value[nxt[c]]
  BY <1>2, <1>3 DEF DeqOk
<1>5. Linked' = Linked \ {head}
  BY <1>1, <1>2, <1>3 DEF Linked
<1>6. /\ Whole(next[head], Addr, next, NULL)
      /\ Chain(head, next, NULL) = <<head>> \o Chain(next[head], next, NULL)
      /\ Tail(Chain(head, next, NULL)) = Chain(next[head], next, NULL)
      /\ head \notin ChainSet(next[head], next, NULL)
      /\ ChainSet(head, next, NULL) = {head} \union ChainSet(next[head], next, NULL)
  BY <1>1, FirstOfChain
<1>7. ChainSet(next[head], next, NULL) = Linked \ {head}
  BY <1>1, <1>6
<1>8. head' = next[head] /\ next' = next
  BY <1>2, <1>4
<1>9. Nodes' = Chain(next[head], next, NULL) /\ ListInv'
  <2>1. Nodes' = Chain(next[head], next, NULL)
    BY <1>8 DEF Nodes
  <2>2. ListInv' <=> /\ Whole(next[head], Addr, next, NULL)
                     /\ ChainSet(next[head], next, NULL) = Linked'
    BY <1>8 DEF ListInv
  <2>. QED  BY <1>5, <1>6, <1>7, <2>1, <2>2
<1>. QED  BY <1>1, <1>2, <1>4, <1>5, <1>6, <1>8, <1>9 DEF Nodes

\* tail only moves to the next node: what a worker swings it to is the next of the
\* tail that it read.
LEMMA TailMoves ==
    ASSUME Premise
    PROVE  tail' = tail \/ (next[tail] # NULL /\ tail' = next[tail] /\ \A p \in Enqueuers : ~ EnqLink(p))
<1>1. \A p, q \in Enqueuers : EnqHelp(p) \/ EnqSwing(p) => ~ EnqLink(q)
  <2>1. ASSUME NEW p \in Enqueuers, NEW q \in Enqueuers, EnqHelp(p) \/ EnqSwing(p), EnqLink(q)
        PROVE  FALSE
    <3>1. heap \in [Addr -> Status] /\ node[q] \in Addr /\ heap[node[q]] = "private"
      BY <2>1, Hands
    <3>. QED  BY <2>1, <3>1 DEF EnqHelp, EnqSwing, EnqLink, nodeVars
  <2>. QED  BY <2>1
<1>2. ASSUME NEW c \in Dequeuers, NEW q \in Enqueuers, DeqHelp(c), EnqLink(q)
      PROVE  FALSE
  <2>1. heap \in [Addr -> Status] /\ node[q] \in Addr /\ heap[node[q]] = "private"
    BY <1>2, Hands
  <2>. QED  BY <1>2, <2>1 DEF DeqHelp, EnqLink, nodeVars
<1>3. ASSUME NEW p \in Enqueuers, EnqueuerStep(p), tail' # tail
      PROVE  (EnqHelp(p) \/ EnqSwing(p)) /\ next[tail] # NULL /\ tail' = next[tail]
  <2>1. EnqHelp(p) \/ EnqSwing(p)
    BY <1>3 DEF EnqueuerStep, Malloc, EnqClear, EnqTail, EnqNext, EnqCheck, EnqLink, EnqLinkFails
  <2>2. EnqOk(p) /\ EnqPointers(p)
    BY DEF Premise, SafeInv, BaseInv, PointerInv
  <2>. QED  BY <1>3, <2>1, <2>2 DEF EnqHelp, EnqSwing, SwingTail, EnqOk, EnqPointers
<1>4. ASSUME NEW c \in Dequeuers, DequeuerStep(c), tail' # tail
      PROVE  DeqHelp(c) /\ next[tail] # NULL /\ tail' = next[tail]
  <2>1. DeqHelp(c)
    BY <1>4 DEF DequeuerStep, DeqHead, DeqTail, DeqNext, DeqCheck, DeqValue, DeqCas, DeqCasFails,
                DeqStore, Free
  <2>2. DeqOk(c) /\ DeqPointers(c)
    BY DEF Premise, SafeInv, BaseInv, PointerInv
  <2>. QED  BY <1>4, <2>1, <2>2 DEF DeqHelp, SwingTail, DeqOk, DeqPointers
<1>5. CASE UNCHANGED vars
  BY <1>5 DEF vars
<1>. QED  BY <1>1, <1>2, <1>3, <1>4, <1>5 DEF Premise, Next, Terminating

-----------------------------------------------------------------------------
(* Every step keeps every part of the invariant.                           *)

\* What was taken off keeps its next.
LEMMA PastStep ==
    ASSUME Premise, NEW a \in Addr, heap'[a] \in {"dequeued", "freed"}
    PROVE  next'[a] # NULL
<1>1. /\ next \in [Addr -> Ptr] /\ heap \in [Addr -> Status] /\ NULL \notin Addr
      /\ \A b \in Past : b \notin Linked => next[b] # NULL
      /\ \A p \in Enqueuers : EnqClear(p) \/ EnqLink(p) =>
            node[p] \in Addr /\ heap[node[p]] = "private"
      /\ \A c \in Dequeuers : Free(c) => node[c] \in Addr /\ heap[node[c]] = "dequeued"
  BY Hands DEF Premise, SafeInv, QueueInv, Past, Linked
<1>2. ASSUME next'[a] = next[a] \/ (next[a] = NULL /\ next'[a] # NULL),
             heap[a] \in {"dequeued", "freed"}
      PROVE  next'[a] # NULL
  BY <1>1, <1>2 DEF Past, Linked
<1>3. ASSUME NEW p \in Enqueuers, Malloc(p) PROVE next'[a] # NULL
  <2>1. PICK b \in Addr : /\ heap' = [heap EXCEPT ![b] = "private"]
                          /\ \E left \in {next[b], NULL} : next' = [next EXCEPT ![b] = left]
    BY <1>3, MallocGives
  <2>2. a # b
    BY <1>1, <2>1
  <2>. QED  BY <1>1, <1>2, <2>1, <2>2
<1>4. ASSUME NEW p \in Enqueuers, EnqClear(p) PROVE next'[a] # NULL
  <2>1. next' = [next EXCEPT ![node[p]] = NULL] /\ heap' = heap
    BY <1>4 DEF EnqClear
  <2>2. a # node[p]
    BY <1>1, <1>4, <2>1
  <2>. QED  BY <1>1, <1>2, <2>1, <2>2
<1>5. ASSUME NEW p \in Enqueuers, EnqLink(p) PROVE next'[a] # NULL
  <2>1. /\ next' = [next EXCEPT ![old_tail[p]] = node[p]]
        /\ heap' = [heap EXCEPT ![node[p]] = "linked"]
    BY <1>5 DEF EnqLink
  <2>. QED  BY <1>1, <1>2, <1>5, <2>1
<1>6. ASSUME NEW c \in Dequeuers, DeqCas(c) PROVE next'[a] # NULL
  <2>1. heap' = [heap EXCEPT ![head] = "dequeued"] /\ next' = next /\ next[head] # NULL
    BY <1>6, CasShortens
  <2>. QED  BY <1>1, <1>2, <2>1
<1>7. ASSUME NEW c \in Dequeuers, Free(c) PROVE next'[a] # NULL
  <2>1. heap' = [heap EXCEPT ![node[c]] = "freed"] /\ next' = next
    BY <1>7 DEF Free
  <2>. QED  BY <1>1, <1>2, <1>7, <2>1
<1>8. ASSUME NEW c \in Dequeuers, DeqStore(c) PROVE next' = next /\ heap' = heap
  BY <1>8 DEF DeqStore
<1>. QED  BY <1>1, <1>2, <1>3, <1>4, <1>5, <1>6, <1>7, <1>8, MemoryStays DEF Premise

\* A next leads to a node with a value.
LEMMA ValueStep ==
    ASSUME Premise, NEW a \in Addr, next'[a] # NULL
    PROVE  value'[next'[a]] \in Value
<1>1. /\ next \in [Addr -> Ptr] /\ NULL \notin Addr
      /\ next[a] # NULL => value[next[a]] \in Value
      /\ \A b \in Addr : value'[b] = value[b] \/ value'[b] \in Value
      /\ \A p \in Enqueuers : EnqLink(p) => node[p] \in Addr /\ value[node[p]] \in Value
  BY Hands, KeepsNodes DEF Premise, SafeInv, QueueInv
<1>2. next'[a] \in {next[a], NULL} \/ \E p \in Enqueuers : EnqLink(p) /\ next'[a] = node[p]
  <2>1. ASSUME NEW p \in Enqueuers, Malloc(p) PROVE next'[a] \in {next[a], NULL}
    <3>1. \E b \in Addr : \E left \in {next[b], NULL} : next' = [next EXCEPT ![b] = left]
      BY <2>1, MallocGives
    <3>. QED  BY <1>1, <3>1
  <2>2. ASSUME NEW p \in Enqueuers, EnqClear(p) PROVE next'[a] \in {next[a], NULL}
    BY <1>1, <2>2 DEF EnqClear
  <2>3. ASSUME NEW p \in Enqueuers, EnqLink(p) PROVE next'[a] = next[a] \/ next'[a] = node[p]
    BY <1>1, <2>3 DEF EnqLink
  <2>4. ASSUME NEW c \in Dequeuers, DeqCas(c) \/ DeqStore(c) \/ Free(c) PROVE next'[a] = next[a]
    BY <2>4 DEF DeqCas, DeqStore, Free
  <2>. QED  BY <2>1, <2>2, <2>3, <2>4, MemoryStays DEF Premise
<1>3. next[a] # NULL => next[a] \in Addr
  BY <1>1 DEF Ptr
<1>. HIDE DEF Value
<1>. QED  BY <1>1, <1>2, <1>3

LEMMA QueueInvStep ==
    ASSUME Premise
    PROVE  QueueInv'
<1>1. /\ NULL \notin Addr /\ head \in Linked /\ tail \in Linked /\ Linked \subseteq Addr
      /\ next[tail] # NULL => next[tail] \in Linked /\ next[next[tail]] = NULL
      /\ next[tail] # NULL => next[tail] # head
  BY ListPremise, ListFacts DEF Premise, SafeInv, QueueInv
<1>2. /\ tail' \in Linked
      /\ \/ tail' = tail
         \/ next[tail] # NULL /\ tail' = next[tail] /\ \A p \in Enqueuers : ~ EnqLink(p)
  BY <1>1, TailMoves
<1>3. ListInv' /\ tail' \in Linked' /\ (next'[tail'] # NULL => next'[next'[tail']] = NULL)
  <2>1. CASE (\A p \in Enqueuers : ~ EnqLink(p)) /\ (\A c \in Dequeuers : ~ DeqCas(c))
    <3>1. Linked' = Linked /\ ListInv' /\ \A a \in Linked : next'[a] = next[a]
      BY <2>1, ListStays
    <3>. QED  BY <1>1, <1>2, <3>1
  <2>2. ASSUME NEW p \in Enqueuers, EnqLink(p)
        PROVE  ListInv' /\ tail' \in Linked' /\ (next'[tail'] # NULL => next'[next'[tail']] = NULL)
    <3>1. /\ Linked' = Linked \union {node[p]} /\ ListInv'
          /\ next'[tail] = node[p] /\ next'[node[p]] = NULL
      BY <2>2, LinkAppends
    <3>. QED  BY <1>1, <1>2, <2>2, <3>1
  <2>3. ASSUME NEW c \in Dequeuers, DeqCas(c)
        PROVE  ListInv' /\ tail' \in Linked' /\ (next'[tail'] # NULL => next'[next'[tail']] = NULL)
    <3>1. head # tail /\ Linked' = Linked \ {head} /\ ListInv' /\ next' = next
      BY <2>3, CasShortens
    <3>. QED  BY <1>1, <1>2, <3>1
  <2>. QED  BY <2>1, <2>2, <2>3
<1>4. \A a \in Past' \ Linked' : next'[a] # NULL
  BY PastStep DEF Past, Linked
<1>5. \A a \in Addr : next'[a] # NULL => value'[next'[a]] \in Value
  BY ValueStep
<1>. HIDE DEF Value
<1>. QED  BY <1>3, <1>4, <1>5 DEF QueueInv, ListInv

LEMMA OwnInvStep ==
    ASSUME Premise
    PROVE  OwnInv'
<1>1. /\ TypeOK
      /\ \A q \in Enqueuers : Owning(q) =>
            /\ node[q] \in Addr /\ heap[node[q]] = "private" /\ value[node[q]] \in Value
            /\ pc[q] # "enq_clear" => next[node[q]] = NULL
      /\ \A p, q \in Enqueuers : Owning(p) /\ Owning(q) /\ node[p] = node[q] => p = q
      /\ \A q \in Enqueuers : q \in Thread /\ q \notin Dequeuers
      /\ NULL \notin Addr /\ [Next]_vars
  BY Hands DEF Premise, BaseInv, SafeInv, OwnInv, Thread, LockFreeQueueAssumption
<1>. HIDE DEF Value
<1>2. ASSUME NEW q \in Enqueuers, Owning(q), ~ EnqLink(q), node'[q] = node[q],
             pc[q] # "enq_clear" \/ pc'[q] = "enq_clear"
      PROVE  /\ heap'[node'[q]] = "private" /\ value'[node'[q]] \in Value
             /\ pc'[q] # "enq_clear" => next'[node'[q]] = NULL
  BY <1>1, <1>2, KeepsNodes
<1>3. ASSUME NEW x \in Thread, Alone(x), NEW q \in Enqueuers, q # x
      PROVE  /\ Owning(q)' <=> Owning(q)
             /\ node'[q] = node[q] /\ pc'[q] = pc[q]
             /\ ~ EnqLink(q)
  <2>1. pc'[q] = pc[q] /\ node'[q] = node[q]
    BY <1>1, <1>3 DEF Alone
  <2>2. ~ EnqLink(q)
    BY <1>1, <2>1 DEF EnqLink, Goto, TypeOK
  <2>. QED  BY <2>1, <2>2 DEF Owning
<1>4. ASSUME NEW p \in Enqueuers, EnqueuerStep(p) PROVE OwnInv'
  <2>1. Alone(p)
    BY <1>1, <1>4, EnqueuerAlone
  <2>2. Owning(p)' =>
            /\ heap'[node'[p]] = "private" /\ value'[node'[p]] \in Value
            /\ pc'[p] # "enq_clear" => next'[node'[p]] = NULL
            /\ \A q \in Enqueuers : q # p /\ Owning(q) => node[q] # node'[p]
    <3>1. CASE Malloc(p)
      <4>1. PICK b \in Addr : /\ heap[b] \in {"unused", "freed"}
                              /\ heap' = [heap EXCEPT ![b] = "private"]
                              /\ value' = [value EXCEPT ![b] = p * OPS + (OPS - ops[p])]
                              /\ node' = [node EXCEPT ![p] = b]
                              /\ p * OPS + (OPS - ops[p]) \in Value
        BY <3>1, MallocGives
      <4>2. pc'[p] = "enq_clear" /\ node'[p] = b /\ heap'[b] = "private" /\ value'[b] \in Value
        BY <1>1, <3>1, <4>1 DEF Malloc, Goto, TypeOK
      <4>3. \A q \in Enqueuers : Owning(q) => node[q] # b
        BY <1>1, <4>1
      <4>. QED  BY <4>2, <4>3
    <3>2. CASE EnqClear(p)
      <4>1. /\ pc[p] = "enq_clear" /\ Owning(p) /\ node' = node /\ heap' = heap /\ value' = value
            /\ next' = [next EXCEPT ![node[p]] = NULL]
        BY <3>2 DEF EnqClear, Owning
      <4>2. next'[node[p]] = NULL
        BY <1>1, <4>1 DEF TypeOK
      <4>. QED  BY <1>1, <4>1, <4>2
    <3>3. CASE EnqLink(p)
      <4>1. pc'[p] = "enq_swing"
        BY <1>1, <3>3 DEF EnqLink, Goto, TypeOK
      <4>. QED  BY <4>1 DEF Owning
    <3>4. CASE EnqSwing(p)
      <4>1. pc'[p] \in {"malloc", "done"}
        BY <3>4, IterationEnds DEF Premise
      <4>. QED  BY <4>1 DEF Owning
    <3>5. CASE ~ Malloc(p) /\ ~ EnqClear(p) /\ ~ EnqLink(p) /\ ~ EnqSwing(p)
      <4>1. Owning(p) /\ pc[p] # "enq_clear" /\ node' = node
        BY <1>4, <3>5 DEF EnqueuerStep, EnqTail, EnqNext, EnqCheck, EnqLinkFails, EnqHelp, Owning
      <4>2. node'[p] = node[p]
        BY <4>1
      <4>3. /\ heap'[node'[p]] = "private" /\ value'[node'[p]] \in Value
            /\ pc'[p] # "enq_clear" => next'[node'[p]] = NULL
        BY <1>2, <3>5, <4>1, <4>2
      <4>. QED  BY <1>1, <4>1, <4>2, <4>3
    <3>. QED  BY <3>1, <3>2, <3>3, <3>4, <3>5
  <2>3. ASSUME NEW q \in Enqueuers, q # p
        PROVE  /\ Owning(q)' <=> Owning(q)
               /\ node'[q] = node[q]
               /\ Owning(q) =>
                    /\ heap'[node'[q]] = "private" /\ value'[node'[q]] \in Value
                    /\ pc'[q] # "enq_clear" => next'[node'[q]] = NULL
    <3>1. /\ Owning(q)' <=> Owning(q)
          /\ node'[q] = node[q] /\ pc'[q] = pc[q] /\ ~ EnqLink(q)
      BY <1>1, <1>3, <2>1, <2>3
    <3>2. pc[q] # "enq_clear" \/ pc'[q] = "enq_clear"
      BY <3>1
    <3>. QED  BY <1>2, <3>1, <3>2
  <2>4. ASSUME NEW q \in Enqueuers, Owning(q)'
        PROVE  /\ heap'[node'[q]] = "private" /\ value'[node'[q]] \in Value
               /\ pc'[q] # "enq_clear" => next'[node'[q]] = NULL
    BY <2>2, <2>3, <2>4
  <2>5. ASSUME NEW q \in Enqueuers, NEW r \in Enqueuers, Owning(q)', Owning(r)', node'[q] = node'[r]
        PROVE  q = r
    BY <1>1, <2>2, <2>3, <2>5
  <2>. QED  BY <2>4, <2>5 DEF OwnInv, Owning
<1>5. ASSUME \A q \in Enqueuers :
                /\ Owning(q)' <=> Owning(q)
                /\ node'[q] = node[q] /\ pc'[q] = pc[q] /\ ~ EnqLink(q)
      PROVE  OwnInv'
  <2>1. ASSUME NEW q \in Enqueuers, Owning(q)'
        PROVE  /\ heap'[node'[q]] = "private" /\ value'[node'[q]] \in Value
               /\ pc'[q] # "enq_clear" => next'[node'[q]] = NULL
    <3>1. Owning(q) /\ node'[q] = node[q] /\ pc'[q] = pc[q] /\ ~ EnqLink(q)
      BY <1>5, <2>1
    <3>. QED  BY <1>2, <3>1
  <2>2. ASSUME NEW q \in Enqueuers, NEW r \in Enqueuers, Owning(q)', Owning(r)', node'[q] = node'[r]
        PROVE  q = r
    BY <1>1, <1>5, <2>2
  <2>. QED  BY <2>1, <2>2 DEF OwnInv, Owning
<1>6. ASSUME NEW c \in Dequeuers, DequeuerStep(c) PROVE OwnInv'
  BY <1>1, <1>3, <1>5, <1>6, DequeuerAlone DEF Thread
<1>7. CASE UNCHANGED vars
  <2>1. pc' = pc /\ node' = node
    BY <1>7 DEF vars
  <2>2. \A q \in Enqueuers : ~ EnqLink(q)
    BY <1>1, <2>1 DEF EnqLink, Goto, TypeOK
  <2>. QED  BY <1>5, <2>1, <2>2 DEF Owning
<1>. QED  BY <1>1, <1>4, <1>6, <1>7 DEF Next, Terminating

\* What an enqueuer remembers stays right while others move.
LEMMA EnqOkKept ==
    ASSUME Premise, NEW p \in Enqueuers,
           pc'[p] = pc[p], node'[p] = node[p], old_tail'[p] = old_tail[p], nxt'[p] = nxt[p]
    PROVE  EnqOk(p)'
<1>1. EnqOk(p) /\ (pc[p] = "enq_swing" => node[p] # NULL)
  BY DEF Premise, SafeInv, BaseInv, PointerInv, EnqPointers
<1>2. HasTail(p) =>
         /\ old_tail[p] \in Past'
         /\ next[old_tail[p]] # NULL => next'[old_tail[p]] = next[old_tail[p]]
  <2>1. ASSUME HasTail(p)
        PROVE  /\ old_tail[p] \in Past'
               /\ next[old_tail[p]] # NULL => next'[old_tail[p]] = next[old_tail[p]]
    <3>1. old_tail[p] \in Past /\ InUse(old_tail[p])
      BY <1>1, <2>1 DEF EnqOk, HasTail, InUse
    <3>. QED  BY <3>1, KeepsMemory DEF Keeps
  <2>. QED  BY <2>1
<1>3. next[tail] = NULL => tail' = tail
  BY TailMoves
<1>. QED  BY <1>1, <1>2, <1>3 DEF EnqOk, HasTail

\* The enqueuer's own step, by what it reads.
LEMMA EnqOkStep ==
    ASSUME Premise, NEW p \in Enqueuers
    PROVE  EnqOk(p)'
<1>1. /\ EnqOk(p) /\ EnqPointers(p) /\ TypeOK /\ p \in Thread /\ p \notin Dequeuers
      /\ tail \in Linked /\ Linked \subseteq Past /\ [Next]_vars
      /\ \A a \in Past \ Linked : next[a] # NULL
      /\ \A a, b \in Linked : next[a] = NULL /\ next[b] = NULL => a = b
  BY ListFacts, Hands DEF Premise, BaseInv, PointerInv, SafeInv, QueueInv, Thread,
                          LockFreeQueueAssumption
<1>2. ASSUME NEW x \in Thread, Alone(x), x # p PROVE EnqOk(p)'
  BY <1>1, <1>2, EnqOkKept DEF Alone
<1>3. CASE UNCHANGED vars
  BY <1>3, EnqOkKept DEF vars, localVars
<1>4. ASSUME NEW q \in Enqueuers, q # p, EnqueuerStep(q) PROVE EnqOk(p)'
  BY <1>1, <1>2, <1>4, EnqueuerAlone DEF Thread
<1>5. ASSUME NEW c \in Dequeuers, DequeuerStep(c) PROVE EnqOk(p)'
  BY <1>1, <1>2, <1>5, DequeuerAlone DEF Thread
<1>6. ASSUME pc'[p] \in {"malloc", "done", "enq_clear", "enq_tail"} PROVE EnqOk(p)'
  BY <1>6 DEF EnqOk, HasTail
<1>7. ASSUME EnqueuerStep(p) PROVE EnqOk(p)'
  <2>1. CASE Malloc(p) \/ EnqClear(p) \/ EnqLinkFails(p) \/ EnqHelp(p)
    <3>1. pc'[p] \in {"enq_clear", "enq_tail"}
      BY <1>1, <2>1 DEF Malloc, EnqClear, EnqLinkFails, EnqHelp, Goto, TypeOK
    <3>. QED  BY <1>6, <3>1
  <2>2. CASE EnqSwing(p)
    BY <1>6, <2>2, IterationEnds DEF Premise
  <2>3. CASE EnqTail(p)
    <3>1. /\ pc'[p] = "enq_next" /\ old_tail'[p] = tail /\ tail' = tail
          /\ next' = next /\ heap' = heap
      BY <1>1, <2>3 DEF EnqTail, Goto, TypeOK, nodeVars
    <3>. QED  BY <1>1, <3>1 DEF EnqOk, HasTail, Past
  <2>4. CASE EnqNext(p)
    <3>1. /\ pc[p] = "enq_next" /\ pc'[p] = "enq_check" /\ nxt'[p] = next[old_tail[p]]
          /\ old_tail' = old_tail /\ tail' = tail /\ next' = next /\ heap' = heap
      BY <1>1, <2>4 DEF EnqNext, Goto, TypeOK, nodeVars
    <3>. QED  BY <1>1, <3>1 DEF EnqOk, HasTail, Past
  <2>5. CASE EnqCheck(p)
    <3>1. /\ pc[p] = "enq_check" /\ pc'[p] \in {"enq_tail", "enq_link", "enq_help"}
          /\ nxt' = nxt /\ old_tail' = old_tail /\ tail' = tail /\ next' = next /\ heap' = heap
      BY <1>1, <2>5 DEF EnqCheck, Goto, TypeOK, localVars, nodeVars
    <3>. QED  BY <1>1, <3>1 DEF EnqOk, HasTail, Past
  <2>6. CASE EnqLink(p)
    <3>1. /\ pc'[p] = "enq_swing" /\ node' = node /\ old_tail' = old_tail /\ tail' = tail
      BY <1>1, <2>6 DEF EnqLink, Goto, TypeOK, localVars
    <3>2. /\ old_tail[p] = tail /\ next'[tail] = node[p] /\ node[p] \in Addr
          /\ Linked' = Linked \union {node[p]}
      BY <2>6, LinkAppends
    <3>3. NULL \notin Addr /\ tail \in Linked' /\ Linked' \subseteq Past'
      BY <1>1, <3>2, AddrFacts DEF Premise, Linked, Past
    <3>. QED  BY <3>1, <3>2, <3>3 DEF EnqOk, HasTail
  <2>. QED  BY <1>7, <2>1, <2>2, <2>3, <2>4, <2>5, <2>6 DEF EnqueuerStep
<1>. QED  BY <1>1, <1>3, <1>4, <1>5, <1>7 DEF Next, Terminating

\* What a dequeuer remembers stays right while others move.
LEMMA DeqOkKept ==
    ASSUME Premise, NEW c \in Dequeuers,
           pc'[c] = pc[c], old_head'[c] = old_head[c], old_tail'[c] = old_tail[c],
           nxt'[c] = nxt[c], val'[c] = val[c]
    PROVE  DeqOk(c)'
<1>1. DeqOk(c) /\ head \in Linked /\ tail \in Linked
  BY ListPremise DEF Premise, SafeInv
<1>2. \A b \in Linked' : (b \in Linked => head' = head) \/ b # old_head[c] \/ ~ HasHead(c)
  <2>1. CASE \A d \in Dequeuers : ~ DeqCas(d)
    BY <2>1, HeadStays DEF Premise
  <2>2. ASSUME NEW d \in Dequeuers, DeqCas(d), HasHead(c), old_head[c] \in Linked, old_head[c] \in Linked'
        PROVE  FALSE
    <3>1. Linked' = Linked \ {head}
      BY <2>2, CasShortens
    <3>. QED  BY <1>1, <2>2, <3>1 DEF DeqOk
  <2>. QED  BY <2>1, <2>2
<1>3. HasHead(c) =>
         /\ old_head[c] \in Past'
         /\ old_head[c] \in Linked' => old_head[c] = head /\ head' = head
         /\ next[old_head[c]] # NULL => next'[old_head[c]] = next[old_head[c]]
  <2>1. ASSUME HasHead(c)
        PROVE  /\ old_head[c] \in Past'
               /\ old_head[c] \in Linked' => old_head[c] = head /\ head' = head
               /\ next[old_head[c]] # NULL => next'[old_head[c]] = next[old_head[c]]
    <3>1. old_head[c] \in Past /\ InUse(old_head[c])
      BY <1>1, <2>1 DEF DeqOk, HasHead, InUse
    <3>2. /\ old_head[c] \in Past'
          /\ next[old_head[c]] # NULL => next'[old_head[c]] = next[old_head[c]]
          /\ old_head[c] \in Linked' => old_head[c] \in Linked
      BY <3>1, KeepsMemory DEF Keeps
    <3>. QED  BY <1>1, <1>2, <2>1, <3>2 DEF DeqOk
  <2>. QED  BY <2>1
<1>4. head' \in Linked'
  <2>1. CASE (\A p \in Enqueuers : ~ EnqLink(p)) /\ (\A d \in Dequeuers : ~ DeqCas(d))
    BY <1>1, <2>1, ListStays
  <2>2. ASSUME NEW p \in Enqueuers, EnqLink(p) PROVE head' \in Linked'
    BY <1>1, <2>2, LinkAppends
  <2>3. ASSUME NEW d \in Dequeuers, DeqCas(d) PROVE head' \in Linked'
    BY <1>1, <2>3, CasShortens, ListFacts DEF Premise, SafeInv
  <2>. QED  BY <2>1, <2>2, <2>3
<1>5. HasHead(c) /\ old_head[c] = head' => old_head[c] = head /\ head' = head
  BY <1>3, <1>4
<1>6. head' = head /\ head # tail => head # tail'
  <2>1. next[tail] # NULL => next[tail] # head
    BY <1>1, ListFacts DEF Premise, SafeInv
  <2>. QED  BY <2>1, TailMoves
<1>7. next[head] # NULL => value'[next[head]] = value[next[head]]
  BY <1>1, ListFacts, KeepsNodes DEF Premise, SafeInv
<1>8. pc[c] \in {"deq_next", "deq_check", "deq_value", "deq_cas"} /\ old_head[c] # old_tail[c] =>
          /\ next'[old_head[c]] # NULL
          /\ old_head[c] = head' => head' # tail'
  BY <1>1, <1>3, <1>5, <1>6 DEF DeqOk, HasHead
<1>9. pc[c] \in {"deq_check", "deq_help", "deq_value", "deq_cas"} =>
          /\ old_head[c] # old_tail[c] => nxt[c] # NULL
          /\ nxt[c] # NULL => nxt[c] = next'[old_head[c]]
  BY <1>1, <1>3 DEF DeqOk, HasHead
<1>10. pc[c] = "deq_cas" /\ old_head[c] = head' => val[c] = value'[nxt[c]]
  BY <1>1, <1>5, <1>7 DEF DeqOk, HasHead
<1>. HIDE DEF Value
<1>. QED
  BY <1>1, <1>3, <1>8, <1>9, <1>10 DEF DeqOk, HasHead

\* The dequeuer's own step, by what it reads.
LEMMA DeqOkStep ==
    ASSUME Premise, NEW c \in Dequeuers
    PROVE  DeqOk(c)'
<1>1. /\ DeqOk(c) /\ DeqPointers(c) /\ TypeOK /\ c \in Thread /\ c \notin Enqueuers
      /\ head \in Linked /\ tail \in Linked /\ Linked \subseteq Past /\ [Next]_vars
      /\ \A a \in Past \ Linked : next[a] # NULL
      /\ \A a \in Addr : next[a] # NULL => value[next[a]] \in Value
      /\ Past \subseteq Addr
      /\ next[head] = NULL => Linked = {head}
  BY ListFacts, ListPremise, Hands DEF Premise, BaseInv, PointerInv, SafeInv, QueueInv, Thread,
                                       LockFreeQueueAssumption
<1>. HIDE DEF Value
<1>2. ASSUME NEW x \in Thread, Alone(x), x # c PROVE DeqOk(c)'
  BY <1>1, <1>2, DeqOkKept DEF Alone
<1>3. CASE UNCHANGED vars
  BY <1>3, DeqOkKept DEF vars, localVars
<1>4. ASSUME NEW p \in Enqueuers, EnqueuerStep(p) PROVE DeqOk(c)'
  BY <1>1, <1>2, <1>4, EnqueuerAlone DEF Thread
<1>5. ASSUME NEW d \in Dequeuers, d # c, DequeuerStep(d) PROVE DeqOk(c)'
  BY <1>1, <1>2, <1>5, DequeuerAlone DEF Thread
<1>6. ASSUME pc'[c] \in {"deq_head", "free", "done"} PROVE DeqOk(c)'
  BY <1>6 DEF DeqOk, HasHead
<1>7. ASSUME DequeuerStep(c) PROVE DeqOk(c)'
  <2>1. CASE DeqHelp(c) \/ DeqCasFails(c) \/ DeqStore(c)
    <3>1. pc'[c] \in {"deq_head", "free"}
      BY <1>1, <2>1 DEF DeqHelp, DeqCasFails, DeqStore, Goto, TypeOK
    <3>. QED  BY <1>6, <3>1
  <2>2. CASE Free(c)
    BY <1>6, <2>2, IterationEnds DEF Premise
  <2>3. CASE DeqHead(c)
    <3>1. pc'[c] = "deq_tail" /\ old_head'[c] = head /\ head' = head /\ heap' = heap
      BY <1>1, <2>3 DEF DeqHead, Goto, TypeOK, nodeVars
    <3>. QED  BY <1>1, <3>1 DEF DeqOk, HasHead, Past, Linked
  <2>4. CASE DeqTail(c)
    <3>1. /\ pc[c] = "deq_tail" /\ pc'[c] = "deq_next" /\ old_tail'[c] = tail
          /\ old_head' = old_head /\ head' = head /\ tail' = tail /\ heap' = heap /\ next' = next
      BY <1>1, <2>4 DEF DeqTail, Goto, TypeOK, nodeVars
    <3>2. old_head[c] \in Past /\ (old_head[c] \in Linked => old_head[c] = head)
      BY <1>1, <3>1 DEF DeqOk, HasHead
    <3>3. old_head[c] # tail => next[old_head[c]] # NULL
      BY <1>1, <3>2
    <3>. QED  BY <3>1, <3>2, <3>3 DEF DeqOk, HasHead, Past, Linked
  <2>5. CASE DeqNext(c)
    <3>1. /\ pc[c] = "deq_next" /\ pc'[c] = "deq_check" /\ nxt'[c] = next[old_head[c]]
          /\ old_head' = old_head /\ old_tail' = old_tail
          /\ head' = head /\ tail' = tail /\ heap' = heap /\ next' = next
      BY <1>1, <2>5 DEF DeqNext, Goto, TypeOK, nodeVars
    <3>. QED  BY <1>1, <3>1 DEF DeqOk, HasHead, Past, Linked
  <2>6. CASE DeqCheck(c)
    <3>1. /\ pc[c] = "deq_check" /\ pc'[c] \in {"deq_head", "deq_value", "deq_help"}
          /\ pc'[c] = "deq_value" => old_head[c] # old_tail[c]
          /\ pc'[c] = "deq_help" => old_head[c] = old_tail[c]
          /\ UNCHANGED <<old_head, old_tail, nxt, head, tail, heap, next>>
      BY <1>1, <2>6 DEF DeqCheck, Goto, TypeOK, nodeVars, localVars
    <3>. QED  BY <1>1, <3>1 DEF DeqOk, HasHead, Past, Linked
  <2>7. CASE DeqValue(c)
    <3>1. /\ pc[c] = "deq_value" /\ pc'[c] = "deq_cas" /\ val'[c] = value[nxt[c]]
          /\ UNCHANGED <<old_head, old_tail, nxt, head, tail, heap, next, value>>
      BY <1>1, <2>7 DEF DeqValue, Goto, TypeOK, nodeVars
    <3>2. /\ old_head[c] \in Past /\ (old_head[c] \in Linked => old_head[c] = head)
          /\ old_head[c] # old_tail[c] /\ next[old_head[c]] # NULL
          /\ old_head[c] = head => head # tail
          /\ nxt[c] # NULL /\ nxt[c] = next[old_head[c]]
      BY <1>1, <3>1 DEF DeqOk, HasHead
    <3>3. val'[c] \in Value /\ val'[c] = value'[nxt[c]]
      BY <1>1, <3>1, <3>2
    <3>. QED  BY <3>1, <3>2, <3>3 DEF DeqOk, HasHead, Past, Linked
  <2>8. CASE DeqCas(c)
    <3>1. pc'[c] = "deq_store" /\ val' = val
      BY <1>1, <2>8 DEF DeqCas, Goto, TypeOK, localVars
    <3>2. val[c] \in Value
      BY <2>8, CasShortens
    <3>. QED  BY <3>1, <3>2 DEF DeqOk, HasHead
  <2>. QED  BY <1>7, <2>1, <2>2, <2>3, <2>4, <2>5, <2>6, <2>7, <2>8 DEF DequeuerStep
<1>. QED  BY <1>1, <1>3, <1>4, <1>5, <1>7 DEF Next, Terminating

LEMMA TakenInvStep ==
    ASSUME Premise
    PROVE  TakenInv'
<1>1. /\ TypeOK /\ heap \in [Addr -> Status] /\ [Next]_vars
      /\ \A c \in Dequeuers : Taking(c) => heap[node[c]] = "dequeued"
      /\ \A c \in Dequeuers : pc[c] = "deq_store" => node[c] = old_head[c]
      /\ \A c, d \in Dequeuers : Taking(c) /\ Taking(d) /\ node[c] = node[d] => c = d
      /\ \A c \in Dequeuers : c \in Thread /\ c \notin Enqueuers
      /\ \A p \in Enqueuers : p \in Thread
      /\ head \in Linked
  BY ListPremise DEF Premise, BaseInv, TypeOK, SafeInv, TakenInv, Thread, LockFreeQueueAssumption
<1>2. ASSUME NEW x \in Thread, Alone(x), NEW c \in Dequeuers, c # x
      PROVE  /\ Taking(c)' <=> Taking(c)
             /\ node'[c] = node[c] /\ pc'[c] = pc[c] /\ old_head'[c] = old_head[c]
             /\ ~ Free(c)
  <2>1. pc'[c] = pc[c] /\ node'[c] = node[c] /\ old_head'[c] = old_head[c]
    BY <1>1, <1>2 DEF Alone
  <2>2. ~ Free(c)
    <3>1. Free(c) => pc[c] = "free" /\ pc'[c] \in {"deq_head", "done"}
      BY IterationEnds DEF Premise, Free
    <3>. QED  BY <2>1, <3>1
  <2>. QED  BY <2>1, <2>2 DEF Taking
<1>3. ASSUME NEW x, \A c \in Dequeuers : c # x =>
                /\ Taking(c)' <=> Taking(c)
                /\ node'[c] = node[c] /\ pc'[c] = pc[c] /\ old_head'[c] = old_head[c]
                /\ ~ Free(c),
             x \in Dequeuers =>
                /\ Taking(x)' => heap'[node'[x]] = "dequeued"
                /\ pc'[x] = "deq_store" => node'[x] = old_head'[x]
                /\ Taking(x)' => \A d \in Dequeuers : d # x /\ Taking(d) => node[d] # node'[x]
      PROVE  TakenInv'
  <2>1. \A c \in Dequeuers : Taking(c)' => heap'[node'[c]] = "dequeued"
    <3>1. ASSUME NEW c \in Dequeuers, c # x, Taking(c)' PROVE heap'[node'[c]] = "dequeued"
      BY <1>3, <3>1, KeepsNodes
    <3>. QED  BY <1>3, <3>1
  <2>2. \A c \in Dequeuers : pc'[c] = "deq_store" => node'[c] = old_head'[c]
    BY <1>1, <1>3
  <2>3. ASSUME NEW c \in Dequeuers, NEW d \in Dequeuers, Taking(c)', Taking(d)', node'[c] = node'[d]
        PROVE  c = d
    BY <1>1, <1>3, <2>3
  <2>. QED  BY <2>1, <2>2, <2>3 DEF TakenInv, Taking
<1>4. ASSUME NEW p \in Enqueuers, EnqueuerStep(p) PROVE TakenInv'
  <2>1. Alone(p) /\ p \in Thread /\ p \notin Dequeuers
    BY <1>1, <1>4, EnqueuerAlone
  <2>2. \A c \in Dequeuers : c # p
    BY <2>1
  <2>. QED  BY <1>2, <1>3, <2>1, <2>2
<1>5. ASSUME NEW c \in Dequeuers, DequeuerStep(c) PROVE TakenInv'
  <2>1. Alone(c) /\ c \in Thread
    BY <1>1, <1>5, DequeuerAlone
  <2>2. /\ Taking(c)' => heap'[node'[c]] = "dequeued"
        /\ pc'[c] = "deq_store" => node'[c] = old_head'[c]
        /\ Taking(c)' => \A d \in Dequeuers : d # c /\ Taking(d) => node[d] # node'[c]
    <3>1. CASE DeqCas(c)
      <4>1. /\ pc'[c] = "deq_store" /\ node'[c] = head /\ old_head'[c] = head
            /\ heap'[head] = "dequeued" /\ heap[head] = "linked"
        BY <1>1, <3>1, ListPremise DEF DeqCas, Goto, TypeOK, localVars, Linked
      <4>. QED  BY <1>1, <4>1
    <3>2. CASE DeqStore(c)
      <4>1. /\ pc[c] = "deq_store" /\ pc'[c] = "free" /\ node' = node /\ heap' = heap
        BY <1>1, <3>2 DEF DeqStore, Goto, TypeOK
      <4>. QED  BY <1>1, <4>1 DEF Taking
    <3>3. CASE Free(c)
      <4>1. pc'[c] \in {"deq_head", "done"}
        BY <3>3, IterationEnds DEF Premise
      <4>. QED  BY <4>1 DEF Taking
    <3>4. CASE ~ DeqCas(c) /\ ~ DeqStore(c) /\ ~ Free(c)
      <4>1. pc'[c] \notin {"deq_store", "free"}
        BY <1>1, <1>5, <3>4 DEF DequeuerStep, DeqHead, DeqTail, DeqNext, DeqCheck, DeqHelp,
                                DeqValue, DeqCasFails, Goto, TypeOK
      <4>. QED  BY <4>1 DEF Taking
    <3>. QED  BY <3>1, <3>2, <3>3, <3>4
  <2>. QED  BY <1>2, <1>3, <2>1, <2>2
<1>6. CASE UNCHANGED vars
  <2>1. pc' = pc /\ node' = node /\ old_head' = old_head /\ ops' = ops /\ heap' = heap
    BY <1>6 DEF vars, nodeVars, localVars
  <2>. QED  BY <1>1, <2>1 DEF TakenInv, Taking
<1>. QED  BY <1>1, <1>4, <1>5, <1>6 DEF Next, Terminating

LEMMA SafeInvStep ==
    ASSUME Premise
    PROVE  SafeInv'
BY QueueInvStep, OwnInvStep, TakenInvStep, EnqOkStep, DeqOkStep DEF SafeInv

-----------------------------------------------------------------------------
(* The queue as a sequence of values.                                      *)

\* The nodes of the list as a sequence.
LEMMA NodesFacts ==
    ASSUME Premise
    PROVE  /\ Nodes \in Seq(Addr) /\ Len(Nodes) \in Nat /\ Len(Nodes) >= 1 /\ Nodes[1] = head
           /\ \A k \in 1 .. Len(Nodes) : Nodes[k] \in Linked
           /\ \A k \in 1 .. Len(Nodes) : k # Len(Nodes) =>
                 next[Nodes[k]] # NULL /\ Nodes[k + 1] = next[Nodes[k]]
<1>1. /\ IsFiniteSet(Addr) /\ NULL \notin Addr /\ NULL = NULL
      /\ next \in Links(Addr, NULL) /\ next' \in Links(Addr, NULL)
      /\ head \in Addr /\ head' \in Addr /\ head \in Linked /\ tail \in Linked
      /\ Linked \subseteq Addr
      /\ Whole(head, Addr, next, NULL) /\ ChainSet(head, next, NULL) = Linked
  BY ListPremise
<1>2. /\ Nodes \in Seq(Addr)
      /\ head = IF Nodes = <<>> THEN NULL ELSE Nodes[1]
      /\ \A k \in 1 .. Len(Nodes) : next[Nodes[k]] = IF k = Len(Nodes) THEN NULL ELSE Nodes[k + 1]
  BY <1>1 DEF Whole, IsChain, Nodes
<1>3. Linked = {Nodes[k] : k \in 1 .. Len(Nodes)}
  BY <1>1, ChainSetElements DEF Whole, Nodes
<1>4. Len(Nodes) \in Nat /\ Nodes # <<>> /\ Len(Nodes) >= 1 /\ Nodes[1] = head
  BY <1>1, <1>2, LenProperties, EmptySeq
<1>5. \A k \in 1 .. Len(Nodes) : Nodes[k] \in Linked
  BY <1>3
<1>6. \A k \in 1 .. Len(Nodes) : k # Len(Nodes) => Nodes[k + 1] # NULL
  <2>1. ASSUME NEW k \in 1 .. Len(Nodes), k # Len(Nodes) PROVE Nodes[k + 1] # NULL
    <3>1. k + 1 \in 1 .. Len(Nodes)
      BY <1>4, <2>1
    <3>. QED  BY <1>1, <1>5, <3>1
  <2>. QED  BY <2>1
<1>. QED  BY <1>2, <1>4, <1>5, <1>6

\* The values behind the sentinel.
LEMMA ContentsFacts ==
    ASSUME Premise
    PROVE  /\ Contents \in Seq(Value) /\ Len(Contents) = Len(Nodes) - 1
           /\ \A k \in 1 .. Len(Nodes) - 1 : Contents[k] = value[Nodes[k + 1]]
<1>1. /\ Nodes \in Seq(Addr) /\ Len(Nodes) \in Nat /\ Len(Nodes) >= 1 /\ Nodes[1] = head
      /\ \A k \in 1 .. Len(Nodes) : Nodes[k] \in Linked
      /\ \A k \in 1 .. Len(Nodes) : k # Len(Nodes) =>
            next[Nodes[k]] # NULL /\ Nodes[k + 1] = next[Nodes[k]]
  BY NodesFacts
<1>2. \A a \in Addr : next[a] # NULL => value[next[a]] \in Value
  BY DEF Premise, SafeInv, QueueInv
<1>. HIDE DEF Value
<1>3. ASSUME NEW k \in 1 .. Len(Nodes) - 1 PROVE value[Nodes[k + 1]] \in Value
  <2>1. k \in 1 .. Len(Nodes) /\ k # Len(Nodes)
    BY <1>1, <1>3
  <2>2. Nodes[k] \in Addr
    BY <1>1, <2>1 DEF Linked
  <2>. QED  BY <1>1, <1>2, <2>1, <2>2
<1>4. Len(Nodes) - 1 \in Nat
  BY <1>1
<1>5. Contents \in [1 .. Len(Nodes) - 1 -> Value]
  BY <1>3 DEF Contents
<1>6. Contents \in Seq(Value)
  BY <1>4, <1>5, SMT DEF Seq
<1>7. Len(Contents) = Len(Nodes) - 1
  BY <1>4, <1>5
<1>. QED  BY <1>6, <1>7 DEF Contents

\* All other steps leave the contents alone.
LEMMA ContentsStay ==
    ASSUME Premise,
           \A p \in Enqueuers : ~ EnqLink(p),
           \A c \in Dequeuers : ~ DeqCas(c)
    PROVE  Contents' = Contents
<1>1. Nodes' = Nodes
  BY ListStays
<1>2. \A k \in 1 .. Len(Nodes) - 1 : value'[Nodes[k + 1]] = value[Nodes[k + 1]]
  <2>1. ASSUME NEW k \in 1 .. Len(Nodes) - 1 PROVE value'[Nodes[k + 1]] = value[Nodes[k + 1]]
    <3>1. k + 1 \in 1 .. Len(Nodes)
      BY <2>1, NodesFacts
    <3>2. Nodes[k + 1] \in Linked
      BY <3>1, NodesFacts
    <3>. QED  BY <3>2, KeepsNodes
  <2>. QED  BY <2>1
<1>. QED  BY <1>1, <1>2 DEF Contents

\* The CAS of line 46 puts a value in.
LEMMA LinkPuts ==
    ASSUME Premise, NEW p \in Enqueuers, EnqLink(p)
    PROVE  value[node[p]] \in Value /\ Contents' = Append(Contents, value[node[p]])
<1> DEFINE v == value[node[p]]
           n == Len(Nodes)
<1>1. Nodes' = Append(Nodes, node[p]) /\ Len(Nodes') = n + 1 /\ node[p] \in Addr
  BY LinkAppends
<1>2. v \in Value /\ value' = value
  BY Hands DEF EnqLink
<1>3. Nodes \in Seq(Addr) /\ n \in Nat /\ n >= 1
  BY NodesFacts
<1>4. /\ Contents \in Seq(Value) /\ Len(Contents) = n - 1
      /\ \A k \in 1 .. n - 1 : Contents[k] = value[Nodes[k + 1]]
  BY ContentsFacts
<1>5. Contents' = [k \in 1 .. (n + 1) - 1 |-> value[Nodes'[k + 1]]]
  BY <1>1, <1>2 DEF Contents
<1>. HIDE DEF v, n, Value
<1>6. Append(Contents, v) = [k \in 1 .. n |-> IF k = n THEN v ELSE Contents[k]]
  <2>1. /\ Append(Contents, v) \in Seq(Value) /\ Len(Append(Contents, v)) = n
        /\ \A k \in 1 .. n : Append(Contents, v)[k] = IF k = n THEN v ELSE Contents[k]
    BY <1>2, <1>3, <1>4, AppendProperties
  <2>2. Append(Contents, v) = [k \in 1 .. n |-> Append(Contents, v)[k]]
    BY <2>1, LenProperties
  <2>. QED  BY <2>1, <2>2
<1>7. /\ \A k \in 1 .. n : Nodes'[k] = Nodes[k]
      /\ Nodes'[n + 1] = node[p]
  BY <1>1, <1>3 DEF n
<1>8. ASSUME NEW k \in 1 .. n PROVE value[Nodes'[k + 1]] = IF k = n THEN v ELSE Contents[k]
  <2>1. CASE k = n
    BY <1>7, <2>1 DEF v
  <2>2. CASE k # n
    <3>1. k \in 1 .. n - 1 /\ k + 1 \in 1 .. n
      BY <1>3, <2>2
    <3>. QED  BY <1>4, <1>7, <2>2, <3>1
  <2>. QED  BY <2>1, <2>2
<1>9. (n + 1) - 1 = n
  BY <1>3
<1>10. Contents' = [k \in 1 .. n |-> value[Nodes'[k + 1]]]
  BY <1>5, <1>9, Zenon
<1>11. Contents' = Append(Contents, v)
  BY <1>6, <1>8, <1>10
<1>. QED  BY <1>2, <1>11 DEF v

\* The CAS of line 89 takes the first value out.
LEMMA CasTakes ==
    ASSUME Premise, NEW c \in Dequeuers, DeqCas(c)
    PROVE  /\ Contents # <<>> /\ Contents' = Tail(Contents)
           /\ val[c] = Head(Contents) /\ val[c] \in Value
<1> DEFINE n == Len(Nodes)
<1>1. /\ next[head] # NULL /\ Nodes' = Tail(Nodes) /\ value' = value
      /\ val[c] \in Value /\ val[c] = value[next[head]] /\ head # tail /\ Nodes = <<head>> \o Nodes'
  BY CasShortens
<1>2. /\ Nodes \in Seq(Addr) /\ n \in Nat /\ n >= 1 /\ Nodes[1] = head
      /\ \A k \in 1 .. n : k # n => next[Nodes[k]] # NULL /\ Nodes[k + 1] = next[Nodes[k]]
  BY NodesFacts
<1>3. n # 1
  <2>1. ASSUME n = 1 PROVE next[head] = NULL
    <3>1. IsChain(Nodes, head, Addr, next, NULL)
      BY ListPremise DEF Whole, Nodes
    <3>. QED  BY <1>2, <2>1, <3>1 DEF IsChain
  <2>. QED  BY <1>1, <2>1
<1>4. /\ Contents \in Seq(Value) /\ Len(Contents) = n - 1
      /\ \A k \in 1 .. n - 1 : Contents[k] = value[Nodes[k + 1]]
  BY ContentsFacts
<1>. HIDE DEF n, Value
<1>5. Contents # <<>> /\ n - 1 \in Nat /\ n - 1 >= 1
  BY <1>2, <1>3, <1>4
<1>6. Head(Contents) = val[c]
  <2>1. 1 \in 1 .. n /\ 1 # n /\ 1 \in 1 .. n - 1
    BY <1>2, <1>3, <1>5
  <2>2. Contents[1] = value[Nodes[1 + 1]] /\ Nodes[1 + 1] = next[head]
    BY <1>2, <1>4, <2>1
  <2>3. Head(Contents) = Contents[1]
    BY <1>4, <1>5
  <2>. QED  BY <1>1, <2>2, <2>3, Zenon
<1>7. /\ Tail(Nodes) \in Seq(Addr) /\ Len(Tail(Nodes)) = n - 1
      /\ \A k \in 1 .. n - 1 : Tail(Nodes)[k] = Nodes[k + 1]
  BY <1>2, HeadTailProperties DEF n
<1>8. /\ Tail(Contents) \in Seq(Value) /\ Len(Tail(Contents)) = n - 1 - 1
      /\ \A k \in 1 .. n - 1 - 1 : Tail(Contents)[k] = Contents[k + 1]
  BY <1>4, <1>5, HeadTailProperties
<1>9. Contents' = [k \in 1 .. n - 1 - 1 |-> value[Tail(Nodes)[k + 1]]]
  BY <1>1, <1>7 DEF Contents
<1>10. Tail(Contents) = [k \in 1 .. n - 1 - 1 |-> Tail(Contents)[k]]
  BY <1>8, LenProperties
<1>11. ASSUME NEW k \in 1 .. n - 1 - 1 PROVE Tail(Contents)[k] = value[Tail(Nodes)[k + 1]]
  <2>1. k + 1 \in 1 .. n - 1
    BY <1>2, <1>5, <1>11
  <2>. QED  BY <1>4, <1>7, <1>8, <2>1
<1>12. Contents' = Tail(Contents)
  BY <1>9, <1>10, <1>11
<1>. QED  BY <1>1, <1>5, <1>6, <1>12

-----------------------------------------------------------------------------
(* The answer NULL, and the refinement.                                    *)

\* A dequeuer reads NULL in next of its old head only while the queue is empty.
LEMMA EmptyInvStep ==
    ASSUME Premise, EmptyInv,
           sawEmpty' = [c \in Dequeuers |->
              \/ Contents' = <<>>
              \/ sawEmpty[c] /\ pc[c] # "deq_head"]
    PROVE  EmptyInv'
<1>1. /\ TypeOK /\ [Next]_vars
      /\ \A c \in Dequeuers : c \in Thread /\ c \notin Enqueuers
      /\ \A p \in Enqueuers : p \in Thread /\ p \notin Dequeuers
  BY DEF Premise, BaseInv, Thread, LockFreeQueueAssumption
<1>2. ASSUME NEW c \in Dequeuers, pc[c] = "deq_check", nxt[c] = NULL PROVE sawEmpty'[c]
  BY <1>2 DEF EmptyInv
<1>3. ASSUME NEW c \in Dequeuers, NEW x \in Thread, x # c, Alone(x), pc'[c] = "deq_check", nxt'[c] = NULL
      PROVE  sawEmpty'[c]
  BY <1>1, <1>2, <1>3 DEF Alone
<1>4. ASSUME NEW c \in Dequeuers, DequeuerStep(c), pc'[c] = "deq_check", nxt'[c] = NULL
      PROVE  sawEmpty'[c]
  <2>1. DeqNext(c)
    <3>1. ~ Free(c)
      BY <1>4, IterationEnds DEF Premise
    <3>. QED
      BY <1>1, <1>4, <3>1 DEF DequeuerStep, DeqHead, DeqTail, DeqCheck, DeqHelp, DeqValue, DeqCas,
                              DeqCasFails, DeqStore, Goto, TypeOK
  <2>2. pc[c] = "deq_next" /\ next[old_head[c]] = NULL
    BY <1>1, <1>4, <2>1 DEF DeqNext, TypeOK
  <2>3. next[head] = NULL
    BY <2>2 DEF Premise, SafeInv, QueueInv, DeqOk, HasHead
  <2>4. Contents = <<>>
    <3>1. Len(Nodes) \in Nat /\ Len(Nodes) >= 1 /\ Nodes[1] = head
          /\ \A k \in 1 .. Len(Nodes) : k # Len(Nodes) => next[Nodes[k]] # NULL
      BY NodesFacts
    <3>2. Len(Nodes) = 1
      <4>1. 1 \in 1 .. Len(Nodes) /\ next[Nodes[1]] = NULL
        BY <2>3, <3>1
      <4>. QED  BY <3>1, <4>1
    <3>3. Contents \in Seq(Value) /\ Len(Contents) = 0
      BY <3>2, ContentsFacts
    <3>. QED  BY <3>3, EmptySeq
  <2>5. (\A p \in Enqueuers : ~ EnqLink(p)) /\ (\A d \in Dequeuers : ~ DeqCas(d))
    <3>1. Alone(c)
      BY <1>1, <1>4, DequeuerAlone
    <3>2. \A p \in Enqueuers : ~ EnqLink(p)
      BY <1>1, <3>1 DEF Alone, EnqLink, Goto, TypeOK
    <3>3. \A d \in Dequeuers : ~ DeqCas(d)
      BY <1>1, <2>2, <3>1 DEF Alone, DeqCas, Goto, TypeOK
    <3>. QED  BY <3>2, <3>3
  <2>6. Contents' = <<>>
    BY <2>4, <2>5, ContentsStay
  <2>. QED  BY <2>6
<1>5. ASSUME NEW c \in Dequeuers, UNCHANGED vars, pc'[c] = "deq_check", nxt'[c] = NULL
      PROVE  sawEmpty'[c]
  <2>1. pc' = pc /\ nxt' = nxt
    BY <1>5 DEF vars, localVars
  <2>. QED  BY <1>2, <1>5, <2>1
<1>6. ASSUME NEW c \in Dequeuers, pc'[c] = "deq_check", nxt'[c] = NULL PROVE sawEmpty'[c]
  <2>1. ASSUME NEW p \in Enqueuers, EnqueuerStep(p) PROVE sawEmpty'[c]
    <3>1. Alone(p) /\ p \in Thread /\ p # c
      BY <1>1, <2>1, EnqueuerAlone
    <3>. QED  BY <1>3, <1>6, <3>1
  <2>2. ASSUME NEW d \in Dequeuers, d # c, DequeuerStep(d) PROVE sawEmpty'[c]
    <3>1. Alone(d) /\ d \in Thread
      BY <1>1, <2>2, DequeuerAlone
    <3>. QED  BY <1>3, <1>6, <2>2, <3>1
  <2>. QED  BY <1>1, <1>4, <1>5, <1>6, <2>1, <2>2 DEF Next, Terminating
<1>. QED  BY <1>6 DEF EmptyInv

\* What a dequeuer holds stays while others move.
LEMMA TakenStays ==
    ASSUME Premise, NEW c \in Dequeuers, ~ DeqStore(c),
           pc'[c] = pc[c], node'[c] = node[c], val'[c] = val[c]
    PROVE  Taken(c)' = Taken(c)
<1>1. pc[c] = "free" => value'[node[c]] = value[node[c]]
  BY KeepsNodes DEF Taking
<1>. QED  BY <1>1 DEF Taken

\* A dequeuer holds a value from its CAS until it gives the node to free().
LEMMA TakenOwn ==
    ASSUME Premise, NEW c \in Dequeuers, DequeuerStep(c)
    PROVE  /\ DeqCas(c) => Taken(c) = NULL /\ Taken(c)' = val[c]
           /\ Free(c) => Taken(c) # NULL /\ Taken(c)' = NULL
           /\ ~ DeqCas(c) /\ ~ Free(c) => Taken(c)' = Taken(c)
<1>1. TypeOK /\ c \in Thread /\ c \notin Enqueuers /\ NULL \notin Value /\ NULL # -1
  BY AddrFacts DEF Premise, BaseInv, Thread, LockFreeQueueAssumption
<1>2. CASE DeqCas(c)
  BY <1>1, <1>2 DEF DeqCas, Taken, Goto, TypeOK, localVars, Free
<1>3. CASE Free(c)
  <2>1. pc'[c] \in {"deq_head", "done"}
    BY <1>3, IterationEnds DEF Premise
  <2>2. pc[c] = "free" /\ node[c] \in Addr
    BY <1>3, Pointers DEF Premise, Free, Taking
  <2>3. value[node[c]] \in Value \union {-1}
    BY <1>1, <2>2 DEF TypeOK
  <2>. QED  BY <1>1, <1>3, <2>1, <2>2, <2>3 DEF Taken, DeqCas
<1>4. CASE DeqStore(c)
  <2>1. /\ pc[c] = "deq_store" /\ pc'[c] = "free" /\ node' = node
        /\ value' = [value EXCEPT ![old_head[c]] = val[c]]
    BY <1>1, <1>4 DEF DeqStore, Goto, TypeOK
  <2>2. node[c] = old_head[c] /\ old_head[c] \in Addr /\ value \in [Addr -> Value \union {-1}]
    BY <1>1, <2>1, Pointers DEF Premise, SafeInv, TakenInv, TypeOK
  <2>. QED  BY <2>1, <2>2 DEF Taken, DeqCas, Free
<1>5. CASE ~ DeqCas(c) /\ ~ Free(c) /\ ~ DeqStore(c)
  <2>1. pc[c] \notin {"deq_store", "free"} /\ pc'[c] \notin {"deq_store", "free"}
    BY <1>1, <1>5 DEF DequeuerStep, DeqHead, DeqTail, DeqNext, DeqCheck, DeqHelp, DeqValue,
                      DeqCasFails, Goto, TypeOK
  <2>. QED  BY <1>5, <2>1 DEF Taken
<1>. QED  BY <1>2, <1>3, <1>4, <1>5

\* Every step of the queue is one of the abstract one, or changes nothing of it.
LEMMA RefinementStep ==
    ASSUME Premise
    PROVE  [Fifo!QueueNext]_<<Contents, [c \in Dequeuers |-> Taken(c)]>>
<1> DEFINE taken == [c \in Dequeuers |-> Taken(c)]
<1>1. /\ TypeOK /\ [Next]_vars
      /\ \A c \in Dequeuers : c \in Thread /\ c \notin Enqueuers
      /\ \A p \in Enqueuers : p \in Thread /\ p \notin Dequeuers
  BY DEF Premise, BaseInv, Thread, LockFreeQueueAssumption
<1>2. ASSUME NEW x \in Thread, Alone(x), NEW c \in Dequeuers, c # x
      PROVE  Taken(c)' = Taken(c) /\ ~ DeqCas(c)
  <2>1. pc'[c] = pc[c] /\ node'[c] = node[c] /\ val'[c] = val[c]
    BY <1>1, <1>2 DEF Alone
  <2>2. ~ DeqStore(c) /\ ~ DeqCas(c)
    BY <1>1, <2>1 DEF DeqStore, DeqCas, Goto, TypeOK
  <2>. QED  BY <2>1, <2>2, TakenStays
<1>3. ASSUME NEW p \in Enqueuers, EnqueuerStep(p)
      PROVE  taken' = taken /\ (\A c \in Dequeuers : ~ DeqCas(c))
             /\ \A q \in Enqueuers : q # p => ~ EnqLink(q)
  <2>1. Alone(p) /\ p \in Thread /\ \A c \in Dequeuers : c # p
    BY <1>1, <1>3, EnqueuerAlone
  <2>2. \A c \in Dequeuers : Taken(c)' = Taken(c) /\ ~ DeqCas(c)
    BY <1>2, <2>1
  <2>3. \A q \in Enqueuers : q # p => ~ EnqLink(q)
    BY <1>1, <2>1 DEF Alone, EnqLink, Goto, TypeOK
  <2>. QED  BY <2>2, <2>3
<1>4. ASSUME NEW c \in Dequeuers, DequeuerStep(c)
      PROVE  /\ \A d \in Dequeuers : d # c => Taken(d)' = Taken(d) /\ ~ DeqCas(d)
             /\ \A q \in Enqueuers : ~ EnqLink(q)
  <2>1. Alone(c) /\ c \in Thread
    BY <1>1, <1>4, DequeuerAlone
  <2>2. \A q \in Enqueuers : ~ EnqLink(q)
    BY <1>1, <2>1 DEF Alone, EnqLink, Goto, TypeOK
  <2>. QED  BY <1>2, <2>1, <2>2
<1>5. ASSUME NEW p \in Enqueuers, EnqLink(p) PROVE Fifo!Put
  <2>1. EnqueuerStep(p)
    BY <1>5 DEF EnqueuerStep
  <2>2. value[node[p]] \in Value /\ Contents' = Append(Contents, value[node[p]])
    BY <1>5, LinkPuts
  <2>. QED  BY <1>3, <2>1, <2>2 DEF Fifo!Put
<1>6. ASSUME NEW p \in Enqueuers, EnqueuerStep(p), ~ EnqLink(p)
      PROVE  Contents' = Contents /\ taken' = taken
  BY <1>3, <1>6, ContentsStay
<1>7. ASSUME NEW c \in Dequeuers, DeqCas(c) PROVE Fifo!Take(c)
  <2>1. /\ Contents # <<>> /\ Contents' = Tail(Contents) /\ val[c] = Head(Contents)
    BY <1>7, CasTakes
  <2>2. DequeuerStep(c) /\ Taken(c) = NULL /\ Taken(c)' = val[c]
    BY <1>7, TakenOwn DEF DequeuerStep
  <2>3. taken' = [taken EXCEPT ![c] = Head(Contents)]
    BY <1>4, <2>1, <2>2
  <2>. QED  BY <2>1, <2>2, <2>3 DEF Fifo!Take, Fifo!Pop
<1>8. ASSUME NEW c \in Dequeuers, DequeuerStep(c), ~ DeqCas(c)
      PROVE  Contents' = Contents
  BY <1>4, <1>8, ContentsStay
<1>9. ASSUME NEW c \in Dequeuers, Free(c) PROVE Fifo!Dispose(c)
  <2>1. DequeuerStep(c) /\ Taken(c) # NULL /\ Taken(c)' = NULL
    BY <1>9, TakenOwn DEF DequeuerStep
  <2>2. taken' = [taken EXCEPT ![c] = NULL]
    BY <1>4, <2>1
  <2>3. ~ DeqCas(c)
    BY <1>9 DEF Free, DeqCas
  <2>. QED  BY <1>8, <2>1, <2>2, <2>3 DEF Fifo!Dispose
<1>10. ASSUME NEW c \in Dequeuers, DequeuerStep(c), ~ DeqCas(c), ~ Free(c)
       PROVE  taken' = taken
  <2>1. Taken(c)' = Taken(c)
    BY <1>10, TakenOwn
  <2>. QED  BY <1>4, <1>10, <2>1
<1>11. ASSUME UNCHANGED vars PROVE Contents' = Contents /\ taken' = taken
  BY <1>11 DEF vars, nodeVars, localVars, Contents, Nodes, Taken
<1>. QED
  BY <1>1, <1>5, <1>6, <1>7, <1>8, <1>9, <1>10, <1>11 DEF Next, Terminating, Fifo!QueueNext

-----------------------------------------------------------------------------
(* The theorems.                                                           *)

LEMMA InitBase ==
    ASSUME LockFreeQueueAssumption, Init
    PROVE  BaseInv
<1>1. \A x \in Thread :
         /\ x \in Enqueuers => pc[x] \in {"malloc", "done"}
         /\ x \in Dequeuers => pc[x] \in {"deq_head", "done"}
         /\ pc[x] = "done" <=> ops[x] = 0
  BY AddrFacts, LoopHeadPlace DEF Init
<1>2. TypeOK
  <2>1. 0 \in Addr /\ OPS \in Nat
    BY AddrFacts
  <2>2. pc \in [Thread -> EnqueuerPC \union DequeuerPC]
    BY <1>1 DEF Init, Thread, EnqueuerPC, DequeuerPC
  <2>3. (\A p \in Enqueuers : pc[p] \in EnqueuerPC) /\ (\A c \in Dequeuers : pc[c] \in DequeuerPC)
    BY <1>1 DEF Thread, EnqueuerPC, DequeuerPC
  <2>4. ops \in [Thread -> 0 .. OPS]
    BY <2>1 DEF Init
  <2>. HIDE DEF Addr, Value, Thread, EnqueuerPC, DequeuerPC
  <2>. QED  BY <2>1, <2>2, <2>3, <2>4 DEF Init, TypeOK, Ptr, Status
<1>3. LoopInv
  BY <1>1 DEF LoopInv
<1>4. PointerInv
  BY <1>1 DEF PointerInv, EnqPointers, DeqPointers, Taking, Thread
<1>. QED  BY <1>2, <1>3, <1>4 DEF BaseInv

\* The queue begins as the list of the dummy alone.
LEMMA InitList ==
    ASSUME LockFreeQueueAssumption, Init
    PROVE  /\ Whole(head, Addr, next, NULL) /\ ChainSet(head, next, NULL) = Linked
           /\ Linked = {0} /\ Nodes = <<0>>
<1>1. /\ IsFiniteSet(Addr) /\ NULL \notin Addr /\ next \in Links(Addr, NULL)
      /\ 0 \in Addr /\ next[0] = NULL /\ head = 0
  BY AddrFacts DEF Init, Links
<1>2. Linked = {0}
  BY <1>1 DEF Init, Linked
<1>3. /\ Chain(NULL, next, NULL) = <<>>
      /\ Whole(NULL, Addr, next, NULL)
      /\ ChainSet(NULL, next, NULL) = {}
  BY <1>1, EmptyChain
<1>4. next \in Links(Addr, NULL) /\ Whole(next[0], Addr, next, NULL) /\ ChainSet(next[0], next, NULL) = {}
  BY <1>1, <1>3, Zenon
<1>5. /\ Whole(0, Addr, next, NULL)
      /\ Chain(0, next, NULL) = <<0>> \o Chain(next[0], next, NULL)
      /\ ChainSet(0, next, NULL) = {0} \union ChainSet(next[0], next, NULL)
  <2>1. 0 \notin ChainSet(next[0], next, NULL)
    BY <1>4
  <2>. HIDE DEF Addr
  <2>. QED  BY <1>1, <1>4, <2>1, PushOnChain
<1>6. Chain(0, next, NULL) = <<0>>
  <2>1. <<0>> \o <<>> = <<0>>
    OBVIOUS
  <2>. QED  BY <1>1, <1>3, <1>5, <2>1, Zenon
<1>. QED  BY <1>1, <1>2, <1>4, <1>5, <1>6 DEF Nodes

LEMMA InitIInv ==
    ASSUME LockFreeQueueAssumption, MCInit
    PROVE  IInv
<1>1. Init /\ BaseInv
  BY InitBase DEF MCInit
<1>2. \A x \in Thread :
         /\ x \in Enqueuers => pc[x] \in {"malloc", "done"}
         /\ x \in Dequeuers => pc[x] \in {"deq_head", "done"}
  BY <1>1, AddrFacts, LoopHeadPlace DEF Init
<1>3. QueueInv
  <2>1. Whole(head, Addr, next, NULL) /\ ChainSet(head, next, NULL) = Linked /\ Linked = {0}
    BY <1>1, InitList
  <2>2. tail = 0 /\ \A a \in Addr : next[a] = NULL
    BY <1>1 DEF Init
  <2>3. Past \subseteq Linked /\ 0 \in Addr
    BY <1>1, AddrFacts DEF Init, Past, Linked
  <2>. QED  BY <2>1, <2>2, <2>3 DEF QueueInv
<1>4. OwnInv /\ TakenInv /\ EmptyInv
  BY <1>2 DEF OwnInv, Owning, TakenInv, Taking, EmptyInv, Thread
<1>5. (\A p \in Enqueuers : EnqOk(p)) /\ (\A c \in Dequeuers : DeqOk(c))
  BY <1>2 DEF EnqOk, HasTail, DeqOk, HasHead, Thread
<1>. QED  BY <1>1, <1>3, <1>4, <1>5 DEF IInv, SafeInv

\* Until malloc hands out a node that some worker still uses, a step has what the
\* lemmas assume.
LEMMA StepHasPremise ==
    ASSUME LockFreeQueueAssumption, IInv, [MCNext]_<<vars, sawEmpty, stale>>, ~ stale'
    PROVE  Premise /\ ~ stale
<1>1. CASE MCNext
  <2>1. ~ stale /\ NoneReused
    BY <1>1 DEF MCNext, NoneReused
  <2>. QED  BY <1>1, <2>1 DEF MCNext, Premise, IInv
<1>2. CASE UNCHANGED <<vars, sawEmpty, stale>>
  <2>1. heap' = heap /\ UNCHANGED vars /\ ~ stale
    BY <1>2 DEF vars, nodeVars
  <2>2. NoneReused
    BY <2>1 DEF NoneReused
  <2>. QED  BY <2>1, <2>2 DEF Premise, IInv
<1>. QED  BY <1>1, <1>2

LEMMA IInvStep ==
    ASSUME LockFreeQueueAssumption, IInv, [MCNext]_<<vars, sawEmpty, stale>>
    PROVE  IInv'
<1>1. [Next]_vars
  BY DEF MCNext
<1>2. BaseInv'
  BY <1>1, BaseInvStep DEF IInv
<1>3. ASSUME ~ stale' PROVE SafeInv' /\ EmptyInv'
  <2>1. Premise /\ ~ stale
    BY <1>3, StepHasPremise
  <2>2. EmptyInv
    BY <2>1 DEF IInv
  <2>3. CASE MCNext
    BY <2>1, <2>2, <2>3, SafeInvStep, EmptyInvStep DEF MCNext
  <2>4. CASE UNCHANGED <<vars, sawEmpty, stale>>
    <3>1. EmptyInv'
      BY <2>2, <2>4 DEF EmptyInv, vars, localVars
    <3>. QED  BY <2>1, <3>1, SafeInvStep
  <2>. QED  BY <2>3, <2>4
<1>. QED  BY <1>2, <1>3 DEF IInv

\* The types of the queue, whatever malloc hands out.
THEOREM TypeCorrectness ==
    ASSUME LockFreeQueueAssumption
    PROVE  Spec => []TypeOK
<1>1. Init => BaseInv
  BY InitBase
<1>2. BaseInv /\ [Next]_vars => BaseInv'
  BY BaseInvStep
<1>3. BaseInv => TypeOK
  BY DEF BaseInv
<1>. QED  BY <1>1, <1>2, <1>3, PTL DEF Spec

\* The invariant that the other theorems rest on: the types and the loops of the
\* workers in every state, the list and what the workers remember of it (lines 36
\* to 96 and 131) up to the step with which malloc hands out a node that some
\* worker still uses.
THEOREM Invariance ==
    ASSUME LockFreeQueueAssumption
    PROVE  MCSpec => []IInv
<1>1. MCInit => IInv
  BY InitIInv
<1>2. IInv /\ [MCNext]_<<vars, sawEmpty, stale>> => IInv'
  BY IInvStep
<1>. QED  BY <1>1, <1>2, PTL DEF MCSpec

\* The invariant implies what the model checker checks.
LEMMA IntactIfIInv ==
    ASSUME LockFreeQueueAssumption, IInv
    PROVE  QueueIntact
<1>. SUFFICES ASSUME ~ stale
              PROVE  /\ heap[tail] = "linked"
                     /\ next[tail] = NULL \/ next[next[tail]] = NULL
                     /\ \A c \in Dequeuers :
                           pc[c] = "deq_value" => nxt[c] # NULL /\ value[nxt[c]] # -1
                     /\ \A p \in Enqueuers :
                           pc[p] = "enq_link" /\ next[old_tail[p]] = NULL =>
                               heap[old_tail[p]] = "linked"
                     /\ \A c \in Dequeuers : pc[c] \in {"deq_store", "free"} =>
                           /\ heap[node[c]] = "dequeued"
                           /\ node[c] # head /\ node[c] # tail
                           /\ \A a \in Addr : heap[a] = "linked" => next[a] # node[c]
                           /\ \A d \in Dequeuers \ {c} :
                                 pc[d] \in {"deq_store", "free"} => node[d] # node[c]
  BY DEF QueueIntact
<1>1. BaseInv /\ QueueInv /\ OwnInv /\ TakenInv /\ NULL \notin Addr /\ -1 \notin Value
      /\ (\A p \in Enqueuers : EnqOk(p)) /\ (\A c \in Dequeuers : DeqOk(c))
  BY AddrFacts DEF IInv, SafeInv
<1>2. /\ tail \in Linked /\ head \in Linked
      /\ \A a \in Linked : next[a] # NULL => next[a] \in Linked
      /\ \A a \in Linked : heap[a] = "linked"
  BY <1>1, ListFacts DEF QueueInv, Linked
<1>3. next[tail] = NULL \/ next[next[tail]] = NULL
  BY <1>1 DEF QueueInv
<1>4. ASSUME NEW c \in Dequeuers, pc[c] = "deq_value"
      PROVE  nxt[c] # NULL /\ value[nxt[c]] # -1
  <2>1. old_head[c] \in Addr /\ nxt[c] # NULL /\ nxt[c] = next[old_head[c]]
    BY <1>1, <1>4 DEF DeqOk, HasHead, Past
  <2>2. value[nxt[c]] \in Value
    BY <1>1, <2>1 DEF QueueInv
  <2>. QED  BY <1>1, <2>1, <2>2
<1>5. ASSUME NEW p \in Enqueuers, pc[p] = "enq_link", next[old_tail[p]] = NULL
      PROVE  heap[old_tail[p]] = "linked"
  BY <1>1, <1>2, <1>5 DEF EnqOk, HasTail
<1>6. ASSUME NEW c \in Dequeuers, pc[c] \in {"deq_store", "free"}
      PROVE  /\ heap[node[c]] = "dequeued"
             /\ node[c] # head /\ node[c] # tail
             /\ \A a \in Addr : heap[a] = "linked" => next[a] # node[c]
             /\ \A d \in Dequeuers \ {c} :
                   pc[d] \in {"deq_store", "free"} => node[d] # node[c]
  <2>1. node[c] \in Addr /\ heap[node[c]] = "dequeued"
    BY <1>1, <1>6, Pointers DEF TakenInv, Taking
  <2>2. node[c] \notin Linked /\ node[c] # NULL
    BY <1>1, <2>1 DEF Linked
  <2>3. \A a \in Addr : heap[a] = "linked" => next[a] # node[c]
    BY <1>2, <2>2 DEF Linked
  <2>4. \A d \in Dequeuers \ {c} : pc[d] \in {"deq_store", "free"} => node[d] # node[c]
    BY <1>1, <1>6 DEF TakenInv, Taking
  <2>. QED  BY <1>2, <2>1, <2>2, <2>3, <2>4
<1>. QED  BY <1>2, <1>3, <1>4, <1>5, <1>6

\* Up to the step with which malloc hands out a node that some worker still uses,
\* tail never falls behind head, a value is read behind the old head, a node is
\* linked behind the live end only, and whoever dequeues owns the node it frees.
THEOREM Intact ==
    ASSUME LockFreeQueueAssumption
    PROVE  MCSpec => []QueueIntact
<1>1. IInv => QueueIntact
  BY IntactIfIInv
<1>. QED  BY <1>1, Invariance, PTL

LEMMA EmptyIsTrueIfIInv == IInv => EmptyIsTrue
BY DEF IInv, EmptyInv, EmptyIsTrue

\* An answer NULL is true, up to that step: the queue was empty at some instant
\* since lf_queue_dequeue read head (lines 73 to 81).
THEOREM EmptyAnswers ==
    ASSUME LockFreeQueueAssumption
    PROVE  MCSpec => []EmptyIsTrue
BY Invariance, EmptyIsTrueIfIInv, PTL

LEMMA RefinementInit ==
    ASSUME LockFreeQueueAssumption, Init
    PROVE  Fifo!Init
<1>1. Contents = <<>>
  <2>1. Len(Nodes) - 1 = 0
    BY InitList
  <2>2. Contents = [k \in 1 .. 0 |-> value[Nodes[k + 1]]]
    BY <2>1, Zenon DEF Contents
  <2>. QED  BY <2>2
<1>2. \A c \in Dequeuers : pc[c] \in {"deq_head", "done"}
  BY AddrFacts, LoopHeadPlace DEF Init, Thread
<1>3. \A c \in Dequeuers : Taken(c) = NULL
  BY <1>2 DEF Taken
<1>. QED  BY <1>1, <1>3 DEF Fifo!Init

LEMMA RefinementMCStep ==
    ASSUME LockFreeQueueAssumption, IInv, [MCNext]_<<vars, sawEmpty, stale>>
    PROVE  [stale' \/ Fifo!QueueNext]_<<Contents, [c \in Dequeuers |-> Taken(c)]>>
<1>1. CASE stale'
  BY <1>1
<1>2. CASE ~ stale'
  BY <1>2, StepHasPremise, RefinementStep
<1>. QED  BY <1>1, <1>2

\* lf_queue_enqueue and lf_queue_dequeue implement a queue of values up to that
\* step: what the CAS of line 46 put in, the CAS of line 89 takes out once, in
\* that order.
THEOREM QueueIsImplemented ==
    ASSUME LockFreeQueueAssumption
    PROVE  MCSpec => ImplementsQueue
<1>1. MCInit => Fifo!Init
  BY RefinementInit DEF MCInit
<1>2. IInv /\ [MCNext]_<<vars, sawEmpty, stale>>
         => [stale' \/ Fifo!QueueNext]_<<Contents, [c \in Dequeuers |-> Taken(c)]>>
  BY RefinementMCStep
<1>. QED  BY <1>1, <1>2, Invariance, PTL DEF MCSpec, ImplementsQueue
=============================================================================
