-------------------------- MODULE MCLockFreeProofs --------------------------
(***************************************************************************)
(* The lock-free programs for every number of threads, nodes and           *)
(* iterations: first the Treiber stack, then the experiments with atomics, *)
(* then what the proofs of the other programs say of a behaviour of        *)
(* MCSpec, which is one of them.                                           *)
(***************************************************************************)
EXTENDS MCLockFree, ChainTheorems

-----------------------------------------------------------------------------
(* The inductive invariant, by topic.                                      *)

\* A pusher that holds a node it has not published.
Pushing(p) == pc[p] \in {"push_load", "push_link", "push_cas"}

\* The nodes that were on the list at some time.
Published == {a \in Pool : a < alloc_idx /\ a \notin Private}

\* The loops of the workers.
LoopInv ==
    /\ \A p \in Pushers : pc[p] = "done" <=> ops[p] = 0
    /\ \A c \in Poppers :
          /\ pc[c] \in {"count", "done"} <=> ops[c] = 0
          /\ local_sum[c] = OPS_PER_TH - ops[c]

\* A pusher has a node of its own, linked to the head it expects.
OwnInv ==
    /\ \A p \in Pushers : Pushing(p) =>
          /\ node[p] \in Pool /\ node[p] < alloc_idx
          /\ pc[p] = "push_cas" => next[node[p]] = old_head[p]
    /\ \A p, q \in Pushers : Pushing(p) /\ Pushing(q) /\ node[p] = node[q] => p = q

\* A popper reads a node that was published, and its copy of next is current.
PopInv ==
    \A c \in Poppers :
       /\ pc[c] \in {"pop_next", "pop_cas"} => old_head[c] \in Published
       /\ pc[c] = "pop_cas" => new_head[c] = next[old_head[c]]

\* The list from head ends, and holds only published nodes.
ListInv ==
    /\ Whole(head, Pool, next, NULL)
    /\ ChainSet(head, next, NULL) \subseteq Published

\* An iteration is the pair of its thread and the value of ops while it runs.
\* The iterations that have taken a node, whose node was pushed, that were
\* counted, and the iterations whose pop has taken effect.
Allocated == {w \in Pushers \X (1 .. OPS_PER_TH) :
                 w[2] > ops[w[1]] \/ (w[2] = ops[w[1]] /\ pc[w[1]] # "alloc")}
Pushed == {w \in Pushers \X (1 .. OPS_PER_TH) :
                 w[2] > ops[w[1]] \/ (w[2] = ops[w[1]] /\ pc[w[1]] = "push_count")}
Counted == {w \in Pushers \X (1 .. OPS_PER_TH) : w[2] > ops[w[1]]}
Popped == {w \in Poppers \X (1 .. OPS_PER_TH) : w[2] > ops[w[1]]}
Ended == {c \in Poppers : pc[c] = "done"}

CountInv ==
    /\ alloc_idx = Cardinality(Allocated)
    /\ push_total = Cardinality(Counted)
    /\ pop_total = Cardinality(Ended) * OPS_PER_TH
    /\ Cardinality(Pushed) = Cardinality(ChainSet(head, next, NULL)) + Cardinality(Popped)

\* The inductive invariant of lockfree_stack.c.
IInv == TypeOK /\ LoopInv /\ OwnInv /\ PopInv /\ ListInv /\ CountInv

-----------------------------------------------------------------------------
(* Types.                                                                  *)

\* The counted sets are finite.
LEMMA CountedSets ==
    /\ IsFiniteSet(Pushers) /\ IsFiniteSet(Poppers) /\ IsFiniteSet(Pool)
    /\ IsFiniteSet(1 .. OPS_PER_TH) /\ Cardinality(1 .. OPS_PER_TH) = OPS_PER_TH
    /\ Cardinality(Pushers) \in Nat /\ Cardinality(Poppers) \in Nat
    /\ POOL_SIZE \in Nat /\ Cardinality(Pushers \X (1 .. OPS_PER_TH)) = POOL_SIZE
    /\ IsFiniteSet(Pushers \X (1 .. OPS_PER_TH))
    /\ IsFiniteSet(Allocated) /\ IsFiniteSet(Pushed) /\ IsFiniteSet(Counted)
    /\ IsFiniteSet(Popped) /\ IsFiniteSet(Ended)
<1>. USE LockFreeStackAssumption
<1>1. IsFiniteSet(1 .. OPS_PER_TH) /\ Cardinality(1 .. OPS_PER_TH) = OPS_PER_TH
  BY FS_Interval
<1>2. Pushers \in SUBSET Thread /\ Poppers \in SUBSET Thread /\ IsFiniteSet(Thread)
  BY DEF Thread
<1>3. IsFiniteSet(Pushers) /\ IsFiniteSet(Poppers)
  BY <1>2, FS_Subset
<1>4. Cardinality(Pushers) \in Nat /\ Cardinality(Poppers) \in Nat
  BY <1>3, FS_CardinalityType
<1>5. POOL_SIZE \in Nat
  BY <1>4 DEF POOL_SIZE
<1>6. IsFiniteSet(Pool)
  BY <1>5, FS_Interval DEF Pool
<1>7. /\ IsFiniteSet(Pushers \X (1 .. OPS_PER_TH)) /\ IsFiniteSet(Poppers \X (1 .. OPS_PER_TH))
      /\ Cardinality(Pushers \X (1 .. OPS_PER_TH)) = POOL_SIZE
  BY <1>1, <1>3, FS_Product DEF POOL_SIZE
<1>8. /\ Allocated \in SUBSET (Pushers \X (1 .. OPS_PER_TH))
      /\ Pushed \in SUBSET (Pushers \X (1 .. OPS_PER_TH))
      /\ Counted \in SUBSET (Pushers \X (1 .. OPS_PER_TH))
      /\ Popped \in SUBSET (Poppers \X (1 .. OPS_PER_TH))
      /\ Ended \in SUBSET Poppers
  BY DEF Allocated, Pushed, Counted, Popped, Ended
<1>9. /\ IsFiniteSet(Allocated) /\ IsFiniteSet(Pushed) /\ IsFiniteSet(Counted)
      /\ IsFiniteSet(Popped) /\ IsFiniteSet(Ended)
  BY <1>3, <1>7, <1>8, FS_Subset
<1>. QED  BY <1>1, <1>3, <1>4, <1>5, <1>6, <1>7, <1>9

\* Every popper has OPS_PER_TH iterations.
LEMMA PopIterations ==
    Cardinality(Poppers \X (1 .. OPS_PER_TH)) = Cardinality(Poppers) * OPS_PER_TH
<1>1. IsFiniteSet(Poppers) /\ IsFiniteSet(1 .. OPS_PER_TH) /\ Cardinality(1 .. OPS_PER_TH) = OPS_PER_TH
  BY CountedSets
<1>. DEFINE iterations == 1 .. OPS_PER_TH
<1>. HIDE DEF iterations
<1>2. Cardinality(Poppers \X iterations) = Cardinality(Poppers) * Cardinality(iterations)
  BY <1>1, FS_Product DEF iterations
<1>. QED  BY <1>1, <1>2 DEF iterations

\* alloc_node never runs out of node_pool (line 66): the iterations that have
\* taken a node are fewer than all.
LEMMA PoolSuffices ==
    ASSUME IInv, NEW p \in Pushers, pc[p] = "alloc"
    PROVE  alloc_idx \in Pool /\ <<p, ops[p]>> \notin Allocated
             /\ <<p, ops[p]>> \in Pushers \X (1 .. OPS_PER_TH)
<1>. DEFINE all == Pushers \X (1 .. OPS_PER_TH)
<1>. USE LockFreeStackAssumption
<1>1. ops[p] \in 1 .. OPS_PER_TH
  BY DEF IInv, TypeOK, LoopInv, Thread
<1>2. <<p, ops[p]>> \in all /\ <<p, ops[p]>> \notin Allocated /\ Allocated \in SUBSET all
  BY <1>1 DEF Allocated
<1>3. IsFiniteSet(all) /\ Cardinality(all) = POOL_SIZE /\ POOL_SIZE \in Nat
  BY CountedSets
<1>4. Cardinality(Allocated) \in Nat
  BY <1>2, CountedSets, FS_CardinalityType
<1>5. Cardinality(Allocated) <= POOL_SIZE /\ Cardinality(Allocated) # POOL_SIZE
  <2>1. /\ Cardinality(Allocated) <= Cardinality(all)
        /\ Cardinality(all) = Cardinality(Allocated) => all = Allocated
    BY <1>2, <1>3, FS_Subset
  <2>. QED  BY <1>2, <1>3, <2>1
<1>. QED  BY <1>2, <1>3, <1>4, <1>5 DEF IInv, CountInv, Pool

\* Every action keeps the variables in their types.
LEMMA TypeOKStep ==
    ASSUME IInv, [Next]_vars
    PROVE  TypeOK'
<1>. USE LockFreeStackAssumption
<1>0. TypeOK /\ LoopInv /\ POOL_SIZE \in Nat
  BY CountedSets DEF IInv
<1>1. ASSUME NEW x \in Thread, NEW label, Goto(x, label),
             x \in Pushers => label \in PusherPC,
             x \in Poppers => label \in PopperPC
      PROVE  /\ pc' \in [Thread -> PusherPC \union PopperPC]
             /\ \A p \in Pushers : pc'[p] \in PusherPC
             /\ \A c \in Poppers : pc'[c] \in PopperPC
  BY <1>0, <1>1 DEF TypeOK, Goto, Thread
<1>2. ASSUME NEW x \in Thread, EndIteration(x), ops[x] # 0
      PROVE  /\ pc' \in [Thread -> PusherPC \union PopperPC]
             /\ \A p \in Pushers : pc'[p] \in PusherPC
             /\ \A c \in Poppers : pc'[c] \in PopperPC
             /\ ops' \in [Thread -> 0 .. OPS_PER_TH]
  <2>1. /\ x \in Pushers => LoopHead(x, ops[x] - 1) \in PusherPC
        /\ x \in Poppers => LoopHead(x, ops[x] - 1) \in PopperPC
    BY DEF LoopHead, PusherPC, PopperPC
  <2>2. ops' \in [Thread -> 0 .. OPS_PER_TH]
    BY <1>0, <1>2 DEF EndIteration, TypeOK
  <2>. QED  BY <1>1, <1>2, <2>1, <2>2 DEF EndIteration
<1>3. ASSUME NEW p \in Pushers, PusherStep(p)
      PROVE  TypeOK'
  <2>0. p \in Thread
    BY DEF Thread
  <2>1. CASE AllocNode(p)
    <3>0. alloc_idx \in Pool
      BY <2>1, PoolSuffices DEF AllocNode
    <3>1. alloc_idx \in Pool /\ alloc_idx + 1 \in 0 .. POOL_SIZE
      BY <1>0, <3>0 DEF Pool
    <3>2. next' \in [Pool -> Ptr] /\ node' \in [Thread -> Ptr]
      BY <1>0, <2>0, <2>1, <3>1 DEF AllocNode, TypeOK, Ptr
    <3>. QED  BY <1>0, <1>1, <2>0, <2>1, <3>1, <3>2 DEF AllocNode, TypeOK, PusherPC, totals
  <2>2. CASE PushLoad(p)
    BY <1>0, <1>1, <2>0, <2>2 DEF PushLoad, TypeOK, PusherPC, totals
  <2>3. CASE PushLink(p)
    BY <1>0, <1>1, <2>0, <2>3 DEF PushLink, TypeOK, PusherPC, totals
  <2>4. CASE PushCas(p)
    BY <1>0, <1>1, <2>0, <2>4 DEF PushCas, TypeOK, PusherPC, totals
  <2>5. CASE PushCasFails(p)
    BY <1>0, <1>1, <2>0, <2>5 DEF PushCasFails, TypeOK, PusherPC, totals
  <2>6. CASE PushCount(p)
    <3>1. ops[p] # 0
      BY <1>0, <2>6 DEF PushCount, LoopInv
    <3>. QED  BY <1>0, <1>2, <2>0, <2>6, <3>1 DEF PushCount, TypeOK
  <2>. QED  BY <1>3, <2>1, <2>2, <2>3, <2>4, <2>5, <2>6 DEF PusherStep
<1>4. ASSUME NEW c \in Poppers, PopperStep(c)
      PROVE  TypeOK'
  <2>0. c \in Thread /\ c \notin Pushers
    BY DEF Thread
  <2>1. CASE PopEmpty(c)
    BY <1>0, <2>0, <2>1 DEF PopEmpty, TypeOK, Ptr, totals
  <2>2. CASE PopLoad(c)
    BY <1>0, <1>1, <2>0, <2>2 DEF PopLoad, TypeOK, PopperPC, totals
  <2>3. CASE PopNext(c)
    <3>1. old_head[c] \in Pool
      BY <2>3 DEF IInv, PopInv, PopNext, Published
    <3>2. new_head' \in [Thread -> Ptr]
      BY <1>0, <2>0, <2>3, <3>1 DEF PopNext, TypeOK
    <3>. QED  BY <1>0, <1>1, <2>0, <2>3, <3>2 DEF PopNext, TypeOK, PopperPC, totals
  <2>4. CASE PopCas(c)
    <3>1. ops[c] # 0
      BY <1>0, <2>0, <2>4 DEF PopCas, LoopInv
    <3>2. local_sum' \in [Poppers -> Nat] /\ node' \in [Thread -> Ptr] /\ head' \in Ptr
      BY <1>0, <2>0, <2>4 DEF PopCas, TypeOK
    <3>. QED  BY <1>0, <1>2, <2>0, <2>4, <3>1, <3>2 DEF PopCas, TypeOK
  <2>5. CASE PopCasFails(c)
    BY <1>0, <1>1, <2>0, <2>5 DEF PopCasFails, TypeOK, PopperPC, totals
  <2>6. CASE PopCount(c)
    BY <1>0, <1>1, <2>0, <2>6 DEF PopCount, TypeOK, PopperPC
  <2>. QED  BY <1>4, <2>1, <2>2, <2>3, <2>4, <2>5, <2>6 DEF PopperStep
<1>5. CASE UNCHANGED vars
  BY <1>0, <1>5 DEF vars, totals, TypeOK
<1>. QED  BY <1>3, <1>4, <1>5 DEF Next, Terminating

\* ops tells where a worker is in its loop.
LEMMA LoopInvStep ==
    ASSUME IInv, [Next]_vars
    PROVE  LoopInv'
<1>. USE LockFreeStackAssumption
<1>0. TypeOK /\ LoopInv
  BY DEF IInv
<1>1. ASSUME NEW x \in Thread, NEW label, Goto(x, label), ops' = ops, local_sum' = local_sum,
             label \in {"count", "done"} <=> pc[x] \in {"count", "done"},
             label = "count" => pc[x] = "count", x \in Pushers => label # "count" /\ pc[x] # "count"
      PROVE  LoopInv'
  BY <1>0, <1>1 DEF TypeOK, Goto, Thread, LoopInv
<1>2. ASSUME NEW x \in Thread, EndIteration(x), ops[x] # 0
      PROVE  /\ \A p \in Pushers : pc'[p] = "done" <=> ops'[p] = 0
             /\ \A c \in Poppers : pc'[c] \in {"count", "done"} <=> ops'[c] = 0
             /\ ops'[x] = ops[x] - 1 /\ \A y \in Thread \ {x} : ops'[y] = ops[y]
  <2>1. pc' = [pc EXCEPT ![x] = LoopHead(x, ops[x] - 1)] /\ ops' = [ops EXCEPT ![x] = ops[x] - 1]
    BY <1>2 DEF EndIteration, Goto
  <2>2. /\ x \in Pushers => (LoopHead(x, ops[x] - 1) = "done" <=> ops[x] - 1 = 0)
        /\ x \in Poppers => (LoopHead(x, ops[x] - 1) \in {"count", "done"} <=> ops[x] - 1 = 0)
    BY DEF LoopHead
  <2>. QED  BY <1>0, <2>1, <2>2 DEF TypeOK, LoopInv, Thread
<1>3. ASSUME NEW p \in Pushers, PusherStep(p)
      PROVE  LoopInv'
  <2>0. p \in Thread /\ pc[p] # "count"
    BY <1>0 DEF Thread, TypeOK, PusherPC
  <2>1. CASE PushCount(p)
    <3>1. ops[p] # 0
      BY <1>0, <2>1 DEF PushCount, LoopInv
    <3>. QED  BY <1>0, <1>2, <2>0, <2>1, <3>1 DEF PushCount, LoopInv, Thread
  <2>2. CASE ~ PushCount(p)
    BY <1>1, <1>3, <2>0, <2>2
    DEF PusherStep, AllocNode, PushLoad, PushLink, PushCas, PushCasFails, totals
  <2>. QED  BY <2>1, <2>2
<1>4. ASSUME NEW c \in Poppers, PopperStep(c)
      PROVE  LoopInv'
  <2>0. c \in Thread /\ c \notin Pushers
    BY DEF Thread
  <2>1. CASE PopEmpty(c)
    BY <1>0, <2>1 DEF PopEmpty, totals, LoopInv
  <2>2. CASE PopCas(c)
    <3>1. ops[c] # 0
      BY <1>0, <2>0, <2>2 DEF PopCas, LoopInv
    <3>2. \A d \in Poppers : local_sum'[d] = OPS_PER_TH - ops'[d]
      BY <1>0, <1>2, <2>0, <2>2, <3>1 DEF PopCas, TypeOK, LoopInv, Thread
    <3>. QED  BY <1>2, <2>0, <2>2, <3>1, <3>2 DEF PopCas, LoopInv
  <2>3. CASE PopCount(c)
    BY <1>0, <2>0, <2>3 DEF PopCount, Goto, TypeOK, LoopInv, Thread
  <2>4. CASE PopLoad(c) \/ PopNext(c) \/ PopCasFails(c)
    BY <1>1, <2>0, <2>4 DEF PopLoad, PopNext, PopCasFails, totals
  <2>. QED  BY <1>4, <2>1, <2>2, <2>3, <2>4 DEF PopperStep
<1>5. CASE UNCHANGED vars
  BY <1>0, <1>5 DEF vars, totals, LoopInv
<1>. QED  BY <1>3, <1>4, <1>5 DEF Next, Terminating

-----------------------------------------------------------------------------
(* The nodes.                                                              *)

\* Pushers keep their nodes apart.
LEMMA OwnInvStep ==
    ASSUME IInv, [Next]_vars
    PROVE  OwnInv'
<1>. USE LockFreeStackAssumption
<1>0. TypeOK /\ OwnInv /\ TypeOK'
  BY TypeOKStep DEF IInv
<1>1. ASSUME NEW p \in Pushers, AllocNode(p)
      PROVE  OwnInv'
  <2>0. alloc_idx \in Pool
    BY <1>1, PoolSuffices DEF AllocNode
  <2>1. alloc_idx \in Pool /\ alloc_idx \in Nat
    BY <2>0, CountedSets DEF Pool
  <2>2. /\ pc' = [pc EXCEPT ![p] = "push_load"] /\ node' = [node EXCEPT ![p] = alloc_idx]
        /\ alloc_idx' = alloc_idx + 1 /\ next' = [next EXCEPT ![alloc_idx] = NULL]
        /\ old_head' = old_head /\ ~ Pushing(p)
    BY <1>1 DEF AllocNode, Goto, Pushing
  <2>3. \A q \in Pushers : q # p => /\ pc'[q] = pc[q] /\ node'[q] = node[q]
                                    /\ Pushing(q) => next'[node[q]] = next[node[q]]
    BY <1>0, <2>1, <2>2 DEF TypeOK, Thread, OwnInv, Pool
  <2>4. pc'[p] = "push_load" /\ node'[p] = alloc_idx
    BY <1>0, <2>2 DEF TypeOK, Thread
  <2>5. \A q \in Pushers : Pushing(q) => node[q] # alloc_idx /\ node[q] \in Nat
    BY <1>0, <2>1 DEF OwnInv, Pool
  <2>6. \A q \in Pushers : q # p => Pushing(q)' = Pushing(q)
    BY <2>3 DEF Pushing
  <2>. QED  BY <1>0, <2>1, <2>2, <2>3, <2>4, <2>5, <2>6 DEF OwnInv
<1>2. ASSUME NEW p \in Pushers, PushLink(p)
      PROVE  OwnInv'
  <2>1. /\ pc' = [pc EXCEPT ![p] = "push_cas"] /\ node' = node /\ alloc_idx' = alloc_idx
        /\ next' = [next EXCEPT ![node[p]] = old_head[p]] /\ old_head' = old_head /\ Pushing(p)
    BY <1>2 DEF PushLink, Goto, Pushing
  <2>2. \A q \in Pushers : Pushing(q)' = Pushing(q)
    BY <1>0, <2>1 DEF TypeOK, Thread, Pushing
  <2>3. next'[node[p]] = old_head[p] /\ \A a \in Pool : a # node[p] => next'[a] = next[a]
    BY <1>0, <2>1 DEF TypeOK, OwnInv
  <2>4. \A q \in Pushers : q # p => pc'[q] = pc[q]
    BY <1>0, <2>1 DEF TypeOK, Thread
  <2>. QED  BY <1>0, <2>1, <2>2, <2>3, <2>4 DEF OwnInv
<1>3. ASSUME NEW x \in Thread, NEW label, Goto(x, label), UNCHANGED <<alloc_idx, next>>,
             \A q \in Pushers : node'[q] = node[q] /\ (q # x => old_head'[q] = old_head[q]),
             x \in Pushers /\ label \in {"push_load", "push_link"} => Pushing(x),
             x \in Pushers => label # "push_cas"
      PROVE  OwnInv'
  <2>1. \A q \in Pushers : q # x => pc'[q] = pc[q]
    BY <1>0, <1>3 DEF TypeOK, Goto, Thread
  <2>2. x \in Pushers => pc'[x] = label
    BY <1>0, <1>3 DEF TypeOK, Goto, Thread
  <2>3. \A q \in Pushers : Pushing(q)' => Pushing(q)
    BY <1>3, <2>1, <2>2 DEF Pushing
  <2>. QED  BY <1>0, <1>3, <2>1, <2>2, <2>3 DEF OwnInv
<1>4. ASSUME NEW p \in Pushers, PushLoad(p) \/ PushCas(p) \/ PushCasFails(p) \/ PushCount(p)
      PROVE  OwnInv'
  <2>0. p \in Thread /\ \A q \in Pushers : q # p => old_head'[q] = old_head[q]
    BY <1>0, <1>4 DEF Thread, TypeOK, PushLoad, PushCas, PushCasFails, PushCount
  <2>1. CASE PushLoad(p)
    BY <1>3, <2>0, <2>1 DEF PushLoad, Pushing
  <2>2. CASE PushCas(p)
    BY <1>3, <2>0, <2>2 DEF PushCas
  <2>3. CASE PushCasFails(p)
    BY <1>3, <2>0, <2>3 DEF PushCasFails, Pushing
  <2>4. CASE PushCount(p)
    <3>1. LoopHead(p, ops[p] - 1) \notin {"push_load", "push_link", "push_cas"}
      BY DEF LoopHead
    <3>. QED  BY <1>3, <2>0, <2>4, <3>1 DEF PushCount, EndIteration
  <2>. QED  BY <1>4, <2>1, <2>2, <2>3, <2>4
<1>5. ASSUME NEW c \in Poppers, PopperStep(c)
      PROVE  OwnInv'
  <2>1. /\ UNCHANGED <<alloc_idx, next>>
        /\ \A q \in Pushers : node'[q] = node[q] /\ old_head'[q] = old_head[q] /\ pc'[q] = pc[q]
    BY <1>0, <1>5
    DEF TypeOK, Thread, PopperStep, PopEmpty, PopLoad, PopNext, PopCas, PopCasFails, PopCount,
        EndIteration, Goto
  <2>. QED  BY <1>0, <2>1 DEF OwnInv, Pushing
<1>6. CASE UNCHANGED vars
  BY <1>0, <1>6 DEF vars, OwnInv, Pushing
<1>. QED  BY <1>1, <1>2, <1>4, <1>5, <1>6 DEF Next, PusherStep, Terminating

\* Private has exactly the nodes that pushers hold.
LEMMA PrivateNodes ==
    \A a : a \in Private <=> \E p \in Pushers : Pushing(p) /\ node[p] = a
BY DEF Private, Pushing

\* A node stays published, and no step writes its next.  Only a successful
\* push publishes a node.
LEMMA PublishedStep ==
    ASSUME IInv, [Next]_vars
    PROVE  /\ \A a \in Published : a \in Published' /\ next'[a] = next[a]
           /\ \A p \in Pushers : PushCas(p) => node[p] \in Published'
<1>. USE LockFreeStackAssumption
<1>0. TypeOK /\ OwnInv /\ Pool \subseteq Nat /\ alloc_idx \in Nat
  BY CountedSets DEF IInv, TypeOK, Pool
<1>1. ASSUME NEW a \in Published, alloc_idx' \in Nat, alloc_idx' >= alloc_idx,
             \A q \in Pushers : Pushing(q)' => (Pushing(q) /\ node'[q] = node[q]) \/ node'[q] # a
      PROVE  a \in Published'
  <2>1. a \notin Private /\ a \in Pool /\ a < alloc_idx
    BY DEF Published
  <2>2. \A q \in Pushers : Pushing(q) => node[q] # a
    BY <2>1 DEF Private, Pushing
  <2>3. \A q \in Pushers : Pushing(q)' => node'[q] # a
    BY <1>1, <2>2
  <2>4. a \notin Private'
    BY <2>3 DEF Private, Pushing
  <2>5. a < alloc_idx'
    BY <1>0, <1>1, <2>1
  <2>. QED  BY <2>1, <2>4, <2>5 DEF Published
<1>2. ASSUME NEW p \in Pushers, AllocNode(p), NEW a \in Published
      PROVE  a \in Published' /\ next'[a] = next[a]
  <2>1. a # alloc_idx /\ a \in Pool /\ alloc_idx' = alloc_idx + 1
    BY <1>0, <1>2 DEF Published, AllocNode
  <2>2. \A q \in Pushers : Pushing(q)' => (Pushing(q) /\ node'[q] = node[q]) \/ node'[q] # a
    BY <1>0, <1>2, <2>1 DEF AllocNode, Goto, Pushing, TypeOK, Thread
  <2>3. next'[a] = next[a]
    BY <1>0, <1>2, <2>1 DEF AllocNode, TypeOK
  <2>. QED  BY <1>0, <1>1, <2>1, <2>2, <2>3
<1>3. ASSUME NEW p \in Pushers, PushLink(p), NEW a \in Published
      PROVE  a \in Published' /\ next'[a] = next[a]
  <2>1. a # node[p] /\ a \in Pool
    BY <1>3, PrivateNodes DEF Published, PushLink, Pushing
  <2>2. \A q \in Pushers : Pushing(q)' => (Pushing(q) /\ node'[q] = node[q]) \/ node'[q] # a
    BY <1>0, <1>3 DEF PushLink, Goto, Pushing, TypeOK, Thread
  <2>3. next'[a] = next[a]
    BY <1>0, <1>3, <2>1 DEF PushLink, TypeOK
  <2>. QED  BY <1>0, <1>1, <1>3, <2>2, <2>3 DEF PushLink
<1>4. ASSUME NEW a \in Published, UNCHANGED <<alloc_idx, next>>,
             \A q \in Pushers : node'[q] = node[q] /\ (Pushing(q)' => Pushing(q))
      PROVE  a \in Published' /\ next'[a] = next[a]
  BY <1>0, <1>1, <1>4
<1>5. ASSUME NEW p \in Pushers, PushLoad(p) \/ PushCas(p) \/ PushCasFails(p) \/ PushCount(p)
      PROVE  /\ UNCHANGED <<alloc_idx, next>>
             /\ \A q \in Pushers : node'[q] = node[q] /\ (Pushing(q)' => Pushing(q))
  <2>1. /\ UNCHANGED <<alloc_idx, next, node>>
        /\ \E label : /\ Goto(p, label)
                      /\ label \in {"push_load", "push_link", "push_cas"} => Pushing(p)
    BY <1>5 DEF PushLoad, PushCas, PushCasFails, PushCount, EndIteration, LoopHead, Pushing
  <2>. QED  BY <1>0, <2>1 DEF Goto, Pushing, TypeOK, Thread
<1>6. ASSUME NEW c \in Poppers, PopperStep(c)
      PROVE  /\ UNCHANGED <<alloc_idx, next>>
             /\ \A q \in Pushers : node'[q] = node[q] /\ (Pushing(q)' => Pushing(q))
  <2>1. /\ UNCHANGED <<alloc_idx, next>>
        /\ \A q \in Pushers : node'[q] = node[q] /\ pc'[q] = pc[q]
    BY <1>0, <1>6
    DEF TypeOK, Thread, PopperStep, PopEmpty, PopLoad, PopNext, PopCas, PopCasFails, PopCount,
        EndIteration, Goto
  <2>. QED  BY <2>1 DEF Pushing
<1>7. ASSUME UNCHANGED vars
      PROVE  /\ UNCHANGED <<alloc_idx, next>>
             /\ \A q \in Pushers : node'[q] = node[q] /\ (Pushing(q)' => Pushing(q))
  BY <1>7 DEF vars, Pushing
<1>8. \A a \in Published : a \in Published' /\ next'[a] = next[a]
  BY <1>2, <1>3, <1>4, <1>5, <1>6, <1>7 DEF Next, PusherStep, Terminating
<1>9. ASSUME NEW p \in Pushers, PushCas(p)
      PROVE  node[p] \in Published'
  <2>1. /\ pc' = [pc EXCEPT ![p] = "push_count"] /\ UNCHANGED <<alloc_idx, node>>
        /\ Pushing(p) /\ node[p] \in Pool /\ node[p] < alloc_idx
    BY <1>0, <1>9 DEF PushCas, Goto, Pushing, OwnInv
  <2>2. \A q \in Pushers : Pushing(q)' => Pushing(q) /\ q # p
    BY <1>0, <2>1 DEF Pushing, TypeOK, Thread
  <2>3. node[p] \notin Private'
    <3>1. \A a : a \in Private' => \E q \in Pushers : Pushing(q)' /\ node'[q] = a
      BY DEF Private, Pushing
    <3>. QED  BY <1>0, <2>1, <2>2, <3>1 DEF OwnInv
  <2>. QED  BY <2>1, <2>3 DEF Published
<1>. QED  BY <1>8, <1>9

-----------------------------------------------------------------------------
(* The list.                                                               *)

\* What the lemmas about chains ask for, and the head of the list.
LEMMA ListFacts ==
    ASSUME IInv
    PROVE  /\ next \in Links(Pool, NULL) /\ IsFiniteSet(Pool) /\ NULL \notin Pool
           /\ head \in Pool \union {NULL}
           /\ head # NULL => head \in ChainSet(head, next, NULL) /\ head \in Published
           /\ Chain(head, next, NULL) \in Seq(Pool)
           /\ head = IF Chain(head, next, NULL) = <<>> THEN NULL ELSE Chain(head, next, NULL)[1]
           /\ ChainSet(head, next, NULL)
                = {Chain(head, next, NULL)[k] : k \in 1 .. Len(Chain(head, next, NULL))}
           /\ IsFiniteSet(ChainSet(head, next, NULL))
<1>. DEFINE c == Chain(head, next, NULL)
<1>1. next \in Links(Pool, NULL) /\ IsFiniteSet(Pool) /\ head \in Pool \union {NULL}
  BY CountedSets DEF IInv, TypeOK, Links, Ptr
<1>2. NULL \notin Pool
  BY LockFreeStackAssumption, CountedSets DEF Pool
<1>3. IsChain(c, head, Pool, next, NULL)
  BY DEF IInv, ListInv, Whole
<1>4. ChainSet(head, next, NULL) = {c[k] : k \in 1 .. Len(c)} /\ ChainSet(head, next, NULL) \subseteq Pool
  BY <1>3, ChainSetElements
<1>5. c \in Seq(Pool) /\ head = IF c = <<>> THEN NULL ELSE c[1]
  BY <1>3 DEF IsChain
<1>6. head # NULL => head \in ChainSet(head, next, NULL)
  <2>. HIDE DEF c
  <2>. QED  BY <1>4, <1>5
<1>7. IsFiniteSet(ChainSet(head, next, NULL))
  BY <1>1, <1>4, FS_Subset
<1>. QED  BY <1>1, <1>2, <1>4, <1>5, <1>6, <1>7 DEF IInv, ListInv

\* What a popper has read stays true.
LEMMA PopInvStep ==
    ASSUME IInv, [Next]_vars
    PROVE  PopInv'
<1>. USE LockFreeStackAssumption
<1>0. TypeOK /\ PopInv /\ \A a \in Published : a \in Published' /\ next'[a] = next[a]
  BY PublishedStep DEF IInv
<1>1. ASSUME NEW c \in Poppers, old_head'[c] = old_head[c], new_head'[c] = new_head[c],
             pc'[c] \in {"pop_next", "pop_cas"} => pc'[c] = pc[c]
      PROVE  /\ pc'[c] \in {"pop_next", "pop_cas"} => old_head'[c] \in Published'
             /\ pc'[c] = "pop_cas" => new_head'[c] = next'[old_head'[c]]
  BY <1>0, <1>1 DEF PopInv
<1>2. ASSUME NEW p \in Pushers, PusherStep(p)
      PROVE  PopInv'
  <2>1. \A c \in Poppers : /\ old_head'[c] = old_head[c] /\ new_head'[c] = new_head[c]
                           /\ pc'[c] = pc[c]
    BY <1>0, <1>2
    DEF TypeOK, Thread, PusherStep, AllocNode, PushLoad, PushLink, PushCas, PushCasFails,
        PushCount, EndIteration, Goto
  <2>. QED  BY <1>1, <2>1 DEF PopInv
<1>3. ASSUME NEW c \in Poppers, PopperStep(c)
      PROVE  PopInv'
  <2>1. \A d \in Poppers : d # c =>
           /\ old_head'[d] = old_head[d] /\ new_head'[d] = new_head[d] /\ pc'[d] = pc[d]
    BY <1>0, <1>3
    DEF TypeOK, Thread, PopperStep, PopEmpty, PopLoad, PopNext, PopCas, PopCasFails, PopCount,
        EndIteration, Goto
  <2>2. SUFFICES /\ pc'[c] \in {"pop_next", "pop_cas"} => old_head'[c] \in Published'
                 /\ pc'[c] = "pop_cas" => new_head'[c] = next'[old_head'[c]]
    BY <1>1, <2>1 DEF PopInv
  <2>3. CASE PopLoad(c)
    <3>1. head \in Published /\ pc'[c] = "pop_next" /\ old_head'[c] = head
      BY <1>0, <2>3, ListFacts DEF PopLoad, Goto, TypeOK, Thread
    <3>. QED  BY <1>0, <3>1
  <2>4. CASE PopNext(c)
    <3>1. /\ old_head[c] \in Published /\ old_head'[c] = old_head[c]
          /\ new_head'[c] = next[old_head[c]]
      BY <1>0, <2>4 DEF PopNext, PopInv, TypeOK, Thread
    <3>. QED  BY <1>0, <3>1
  <2>5. CASE PopEmpty(c) \/ PopCas(c) \/ PopCasFails(c) \/ PopCount(c)
    <3>1. pc'[c] \notin {"pop_next", "pop_cas"}
      BY <1>0, <2>5
      DEF TypeOK, Thread, PopEmpty, PopCas, PopCasFails, PopCount, EndIteration, LoopHead, Goto
    <3>. QED  BY <3>1
  <2>. QED  BY <1>3, <2>3, <2>4, <2>5 DEF PopperStep
<1>4. CASE UNCHANGED vars
  <2>1. \A c \in Poppers : /\ old_head'[c] = old_head[c] /\ new_head'[c] = new_head[c]
                           /\ pc'[c] = pc[c]
    BY <1>4 DEF vars
  <2>. QED  BY <1>1, <2>1 DEF PopInv
<1>. QED  BY <1>2, <1>3, <1>4 DEF Next, Terminating

\* The successful CAS of lf_stack_push pushes the node.
LEMMA PushIsPush ==
    ASSUME IInv, NEW p \in Pushers, PushCas(p)
    PROVE  /\ ListInv' /\ Stack!Push
           /\ node[p] \notin ChainSet(head, next, NULL)
           /\ ChainSet(head, next, NULL)' = ChainSet(head, next, NULL) \union {node[p]}
<1>. DEFINE a == node[p]
            c == Chain(head, next, NULL)
<1>1. /\ a \in Pool /\ next[a] = head /\ a \in Private
      /\ head' = a /\ next' = next /\ node' = node
  BY PrivateNodes DEF IInv, PushCas, OwnInv, Pushing
<1>2. /\ next \in Links(Pool, NULL) /\ IsFiniteSet(Pool) /\ NULL \notin Pool
      /\ \A k \in 1 .. Len(c) : c[k] \in ChainSet(head, next, NULL)
  BY ListFacts
<1>3. \A x \in Published : x \in Published'
  BY PublishedStep DEF Next, PusherStep
<1>4. a \in Published'
  BY PublishedStep DEF Next, PusherStep
<1>. HIDE DEF a
<1>5. Whole(next[a], Pool, next, NULL) /\ a \notin ChainSet(next[a], next, NULL)
  BY <1>1 DEF IInv, ListInv, Published
<1>6. /\ Whole(a, Pool, next, NULL)
      /\ Chain(a, next, NULL) = <<a>> \o Chain(next[a], next, NULL)
      /\ ChainSet(a, next, NULL) = {a} \union ChainSet(next[a], next, NULL)
  BY <1>1, <1>2, <1>5, PushOnChain
<1>7. ListInv'
  BY <1>1, <1>3, <1>4, <1>6 DEF IInv, ListInv
<1>8. Chain(head, next, NULL)' = <<a>> \o c
  BY <1>1, <1>6
<1>9. \A k \in 1 .. Len(c) : c[k] # a
  BY <1>1, <1>2, <1>5
<1>10. Stack!Push
  BY <1>1, <1>8, <1>9 DEF Stack!Push
<1>11. ChainSet(head, next, NULL)' = ChainSet(head, next, NULL) \union {a}
  BY <1>1, <1>6
<1>12. a \notin ChainSet(head, next, NULL)
  BY <1>1, <1>5
<1>. QED  BY <1>7, <1>10, <1>11, <1>12 DEF a

\* The successful CAS of lf_stack_pop takes the node pushed last.
LEMMA PopIsPop ==
    ASSUME IInv, NEW c \in Poppers, PopCas(c)
    PROVE  /\ ListInv' /\ Stack!Pop(c)
           /\ head \in ChainSet(head, next, NULL)
           /\ ChainSet(head, next, NULL)' = ChainSet(head, next, NULL) \ {head}
<1>. DEFINE a == old_head[c]
            q == Chain(head, next, NULL)
            link == next
<1>1. /\ a \in Pool /\ new_head[c] = next[a] /\ head = a
      /\ head' = new_head[c] /\ next' = next
      /\ node' = [node EXCEPT ![c] = a]
  BY DEF IInv, PopCas, PopInv, Published
<1>2. /\ next \in Links(Pool, NULL) /\ IsFiniteSet(Pool) /\ NULL \notin Pool
      /\ q \in Seq(Pool) /\ head = IF q = <<>> THEN NULL ELSE q[1]
  BY ListFacts
<1>3. \A x \in Published : x \in Published'
  BY PublishedStep DEF Next, PopperStep
<1>. HIDE DEF a, q
<1>4. /\ a \in Pool /\ Whole(a, Pool, link, NULL)
      /\ link \in Links(Pool, NULL) /\ IsFiniteSet(Pool) /\ NULL \notin Pool
  BY <1>1, <1>2 DEF IInv, ListInv
<1>. HIDE DEF link
<1>5. /\ Whole(link[a], Pool, link, NULL)
      /\ Chain(a, link, NULL) = <<a>> \o Chain(link[a], link, NULL)
      /\ Tail(Chain(a, link, NULL)) = Chain(link[a], link, NULL)
      /\ a \notin ChainSet(link[a], link, NULL)
      /\ ChainSet(a, link, NULL) = {a} \union ChainSet(link[a], link, NULL)
  BY <1>4, FirstOfChain
<1>6. ListInv'
  BY <1>1, <1>3, <1>5 DEF IInv, ListInv, link
<1>7. Chain(head, next, NULL)' = Tail(q)
  BY <1>1, <1>5 DEF q, link
<1>8. q # <<>> /\ Head(q) = a
  BY <1>1, <1>2
<1>9. [d \in Poppers |-> node[d]]' = [[d \in Poppers |-> node[d]] EXCEPT ![c] = a]
  BY <1>1 DEF IInv, TypeOK, Thread
<1>10. Stack!Pop(c)
  BY <1>7, <1>8, <1>9 DEF Stack!Pop, q
<1>11. /\ head \in ChainSet(head, next, NULL)
       /\ ChainSet(head, next, NULL)' = ChainSet(head, next, NULL) \ {head}
  BY <1>1, <1>5 DEF link
<1>. QED  BY <1>6, <1>10, <1>11

\* No other step changes the list or what the poppers have taken.
LEMMA OtherListSteps ==
    ASSUME IInv, [Next]_vars, ~ \E p \in Pushers : PushCas(p), ~ \E c \in Poppers : PopCas(c)
    PROVE  /\ ListInv' /\ Chain(head, next, NULL)' = Chain(head, next, NULL)
           /\ ChainSet(head, next, NULL)' = ChainSet(head, next, NULL)
           /\ [c \in Poppers |-> node[c]]' = [c \in Poppers |-> node[c]]
<1>. USE LockFreeStackAssumption
<1>1. TypeOK /\ \A a \in Published : a \in Published' /\ next'[a] = next[a]
  BY PublishedStep DEF IInv
<1>2. head' = head
  BY DEF Next, PusherStep, PopperStep, Terminating, vars, AllocNode, PushLoad, PushLink,
         PushCasFails, PushCount, PopEmpty, PopLoad, PopNext, PopCasFails, PopCount
<1>3. \A c \in Poppers : node'[c] = node[c]
  BY <1>1
  DEF Next, PusherStep, PopperStep, Terminating, vars, AllocNode, PushLoad, PushLink,
      PushCasFails, PushCount, PopEmpty, PopLoad, PopNext, PopCasFails, PopCount, TypeOK, Thread
<1>4. /\ next \in Links(Pool, NULL) /\ IsFiniteSet(Pool) /\ NULL \notin Pool
      /\ Whole(head, Pool, next, NULL)
  BY ListFacts DEF IInv, ListInv
<1>5. next' \in Links(Pool, NULL)
  BY TypeOKStep DEF TypeOK, Links, Ptr
<1>6. \A a \in ChainSet(head, next, NULL) : next'[a] = next[a] /\ a \in Published'
  BY <1>1 DEF IInv, ListInv
<1>7. /\ Chain(head, next', NULL) = Chain(head, next, NULL)
      /\ Whole(head, Pool, next', NULL)
      /\ ChainSet(head, next', NULL) = ChainSet(head, next, NULL)
  BY <1>4, <1>5, <1>6, ChainKept
<1>. QED  BY <1>2, <1>3, <1>6, <1>7 DEF ListInv

-----------------------------------------------------------------------------
(* The counts.                                                             *)

\* The pushers' iterations are as they were.
LEMMA SamePushes ==
    ASSUME \A p \in Pushers : /\ ops'[p] = ops[p]
                              /\ pc'[p] = "alloc" <=> pc[p] = "alloc"
                              /\ pc'[p] = "push_count" <=> pc[p] = "push_count"
    PROVE  Allocated' = Allocated /\ Pushed' = Pushed /\ Counted' = Counted
BY DEF Allocated, Pushed, Counted

\* The poppers' iterations are as they were.
LEMMA SamePops ==
    ASSUME \A c \in Poppers : ops'[c] = ops[c] /\ (pc'[c] = "done" <=> pc[c] = "done")
    PROVE  Popped' = Popped /\ Ended' = Ended
BY DEF Popped, Ended

\* alloc_node counts the iteration that takes a node.
LEMMA AllocCount ==
    ASSUME IInv, NEW p \in Pushers, AllocNode(p)
    PROVE  CountInv'
<1>. DEFINE w == <<p, ops[p]>>
<1>. USE LockFreeStackAssumption
<1>1. TypeOK /\ p \in Thread /\ CountInv
  BY DEF IInv, Thread
<1>2. pc' = [pc EXCEPT ![p] = "push_load"] /\ ops' = ops /\ pc[p] = "alloc"
      /\ UNCHANGED totals /\ alloc_idx' = alloc_idx + 1
  BY DEF AllocNode, Goto
<1>3. w \notin Allocated /\ w \in Pushers \X (1 .. OPS_PER_TH)
  BY <1>2, PoolSuffices
<1>4. Allocated' = Allocated \union {w}
  <2>1. pc'[p] = "push_load" /\ \A q \in Pushers : q # p => pc'[q] = pc[q]
    BY <1>1, <1>2 DEF TypeOK, Thread
  <2>2. \A v \in Pushers \X (1 .. OPS_PER_TH) : v[1] = p /\ v[2] = ops[p] => v = w
    OBVIOUS
  <2>. HIDE DEF w
  <2>3. w[1] = p /\ w[2] = ops[p]
    BY DEF w
  <2>. QED  BY <1>2, <1>3, <2>1, <2>2, <2>3 DEF Allocated
<1>5. Cardinality(Allocated') = Cardinality(Allocated) + 1
  BY <1>3, <1>4, CountedSets, FS_AddElement
<1>6. Pushed' = Pushed /\ Counted' = Counted
  BY <1>1, <1>2 DEF Pushed, Counted, TypeOK, Thread
<1>7. Popped' = Popped /\ Ended' = Ended
  BY <1>1, <1>2, SamePops DEF TypeOK, Thread
<1>8. ChainSet(head, next, NULL)' = ChainSet(head, next, NULL)
  <2>1. /\ ~ \E q \in Pushers : PushCas(q)
        /\ ~ \E c \in Poppers : PopCas(c)
    BY <1>1, <1>2 DEF PushCas, PopCas, TypeOK
  <2>. QED  BY <2>1, OtherListSteps DEF Next, PusherStep
<1>. QED  BY <1>1, <1>2, <1>5, <1>6, <1>7, <1>8 DEF CountInv, totals

\* A push adds one iteration and one node.
LEMMA PushCasCount ==
    ASSUME IInv, NEW p \in Pushers, PushCas(p)
    PROVE  CountInv'
<1>. DEFINE w == <<p, ops[p]>>
<1>. USE LockFreeStackAssumption
<1>1. TypeOK /\ p \in Thread /\ CountInv /\ ops[p] \in 1 .. OPS_PER_TH
  BY DEF IInv, Thread, TypeOK, LoopInv, PushCas
<1>2. pc' = [pc EXCEPT ![p] = "push_count"] /\ ops' = ops /\ pc[p] = "push_cas"
      /\ UNCHANGED totals /\ alloc_idx' = alloc_idx
  BY DEF PushCas, Goto
<1>3. w \notin Pushed /\ w \in Pushers \X (1 .. OPS_PER_TH)
  BY <1>1, <1>2 DEF Pushed
<1>4. Pushed' = Pushed \union {w}
  <2>1. pc'[p] = "push_count" /\ \A q \in Pushers : q # p => pc'[q] = pc[q]
    BY <1>1, <1>2 DEF TypeOK, Thread
  <2>2. \A v \in Pushers \X (1 .. OPS_PER_TH) : v[1] = p /\ v[2] = ops[p] => v = w
    OBVIOUS
  <2>. HIDE DEF w
  <2>3. w[1] = p /\ w[2] = ops[p]
    BY DEF w
  <2>. QED  BY <1>2, <1>3, <2>1, <2>2, <2>3 DEF Pushed
<1>5. Allocated' = Allocated /\ Counted' = Counted
  BY <1>1, <1>2 DEF Allocated, Counted, TypeOK, Thread
<1>6. Popped' = Popped /\ Ended' = Ended
  BY <1>1, <1>2, SamePops DEF TypeOK, Thread
<1>7. /\ node[p] \notin ChainSet(head, next, NULL)
      /\ ChainSet(head, next, NULL)' = ChainSet(head, next, NULL) \union {node[p]}
  BY PushIsPush
<1>8. /\ Cardinality(Pushed') = Cardinality(Pushed) + 1
      /\ Cardinality(ChainSet(head, next, NULL)') = Cardinality(ChainSet(head, next, NULL)) + 1
  <2>1. IsFiniteSet(Pushed) /\ IsFiniteSet(ChainSet(head, next, NULL))
    BY CountedSets, ListFacts
  <2>2. Cardinality(Pushed') = Cardinality(Pushed) + 1
    BY <1>3, <1>4, <2>1, FS_AddElement
  <2>3. Cardinality(ChainSet(head, next, NULL)') = Cardinality(ChainSet(head, next, NULL)) + 1
    BY <1>7, <2>1, FS_AddElement
  <2>. QED  BY <2>2, <2>3
<1>9. /\ Cardinality(Pushed) \in Nat /\ Cardinality(Popped) \in Nat
      /\ Cardinality(ChainSet(head, next, NULL)) \in Nat
  BY CountedSets, ListFacts, FS_CardinalityType
<1>. QED  BY <1>1, <1>2, <1>5, <1>6, <1>8, <1>9 DEF CountInv, totals

\* The end of a push counts it in push_total.
LEMMA PushCountCount ==
    ASSUME IInv, NEW p \in Pushers, PushCount(p)
    PROVE  CountInv'
<1>. DEFINE w == <<p, ops[p]>>
<1>. USE LockFreeStackAssumption
<1>1. TypeOK /\ p \in Thread /\ CountInv /\ ops[p] \in 1 .. OPS_PER_TH
  BY DEF IInv, Thread, TypeOK, LoopInv, PushCount
<1>2. /\ pc' = [pc EXCEPT ![p] = LoopHead(p, ops[p] - 1)] /\ ops' = [ops EXCEPT ![p] = ops[p] - 1]
      /\ pc[p] = "push_count" /\ push_total' = push_total + 1
      /\ UNCHANGED <<alloc_idx, pop_total>>
  BY DEF PushCount, EndIteration, Goto
<1>3. w \notin Counted /\ w \in Pushers \X (1 .. OPS_PER_TH)
  BY <1>1 DEF Counted
<1>4. /\ ops'[p] = ops[p] - 1 /\ pc'[p] = LoopHead(p, ops[p] - 1)
      /\ \A q \in Thread : q # p => ops'[q] = ops[q] /\ pc'[q] = pc[q]
  BY <1>1, <1>2 DEF TypeOK
<1>5. pc'[p] # "push_count" /\ (pc'[p] # "alloc" => ops'[p] = 0)
  BY <1>4 DEF LoopHead
<1>6. Counted' = Counted \union {w}
  <2>1. \A v \in Pushers \X (1 .. OPS_PER_TH) :
           v[2] > ops'[v[1]] <=> v[2] > ops[v[1]] \/ v = w
    <3>. SUFFICES ASSUME NEW q \in Pushers, NEW k \in 1 .. OPS_PER_TH
                  PROVE  k > ops'[q] <=> k > ops[q] \/ (q = p /\ k = ops[p])
      OBVIOUS
    <3>. QED  BY <1>1, <1>4 DEF Thread
  <2>. QED  BY <1>3, <2>1 DEF Counted
<1>7. Allocated' = Allocated
  <2>. SUFFICES ASSUME NEW q \in Pushers, NEW k \in 1 .. OPS_PER_TH
                PROVE  (k > ops'[q] \/ (k = ops'[q] /\ pc'[q] # "alloc"))
                         <=> (k > ops[q] \/ (k = ops[q] /\ pc[q] # "alloc"))
    BY DEF Allocated
  <2>1. CASE q = p
    BY <1>1, <1>2, <1>4, <1>5, <2>1
  <2>2. CASE q # p
    BY <1>4, <2>2 DEF Thread
  <2>. QED  BY <2>1, <2>2
<1>8. Pushed' = Pushed
  <2>. SUFFICES ASSUME NEW q \in Pushers, NEW k \in 1 .. OPS_PER_TH
                PROVE  (k > ops'[q] \/ (k = ops'[q] /\ pc'[q] = "push_count"))
                         <=> (k > ops[q] \/ (k = ops[q] /\ pc[q] = "push_count"))
    BY DEF Pushed
  <2>1. CASE q = p
    BY <1>1, <1>2, <1>4, <1>5, <2>1
  <2>2. CASE q # p
    BY <1>4, <2>2 DEF Thread
  <2>. QED  BY <2>1, <2>2
<1>9. Popped' = Popped /\ Ended' = Ended
  BY <1>4, SamePops DEF Thread
<1>10. Cardinality(Counted') = Cardinality(Counted) + 1
  BY <1>3, <1>6, CountedSets, FS_AddElement
<1>11. ChainSet(head, next, NULL)' = ChainSet(head, next, NULL)
  BY DEF PushCount
<1>. QED  BY <1>1, <1>2, <1>7, <1>8, <1>9, <1>10, <1>11 DEF CountInv

\* A pop adds one iteration and takes one node away.
LEMMA PopCasCount ==
    ASSUME IInv, NEW c \in Poppers, PopCas(c)
    PROVE  CountInv'
<1>. DEFINE w == <<c, ops[c]>>
<1>. USE LockFreeStackAssumption
<1>1. TypeOK /\ c \in Thread /\ c \notin Pushers /\ CountInv /\ ops[c] \in 1 .. OPS_PER_TH
  BY DEF IInv, Thread, TypeOK, LoopInv, PopCas
<1>2. /\ pc' = [pc EXCEPT ![c] = LoopHead(c, ops[c] - 1)] /\ ops' = [ops EXCEPT ![c] = ops[c] - 1]
      /\ pc[c] = "pop_cas" /\ UNCHANGED <<alloc_idx, push_total, pop_total>>
  BY DEF PopCas, EndIteration, Goto
<1>3. w \notin Popped /\ w \in Poppers \X (1 .. OPS_PER_TH)
  BY <1>1 DEF Popped
<1>4. /\ ops'[c] = ops[c] - 1 /\ pc'[c] = LoopHead(c, ops[c] - 1)
      /\ \A q \in Thread : q # c => ops'[q] = ops[q] /\ pc'[q] = pc[q]
  BY <1>1, <1>2 DEF TypeOK
<1>5. pc'[c] # "done"
  BY <1>1, <1>4 DEF LoopHead
<1>6. Popped' = Popped \union {w}
  <2>1. \A v \in Poppers \X (1 .. OPS_PER_TH) :
           v[2] > ops'[v[1]] <=> v[2] > ops[v[1]] \/ v = w
    <3>. SUFFICES ASSUME NEW q \in Poppers, NEW k \in 1 .. OPS_PER_TH
                  PROVE  k > ops'[q] <=> k > ops[q] \/ (q = c /\ k = ops[c])
      OBVIOUS
    <3>. QED  BY <1>1, <1>4 DEF Thread
  <2>. QED  BY <1>3, <2>1 DEF Popped
<1>7. Ended' = Ended
  BY <1>2, <1>4, <1>5 DEF Ended, Thread
<1>8. Allocated' = Allocated /\ Pushed' = Pushed /\ Counted' = Counted
  BY <1>1, <1>4, SamePushes DEF Thread
<1>9. /\ head \in ChainSet(head, next, NULL)
      /\ ChainSet(head, next, NULL)' = ChainSet(head, next, NULL) \ {head}
  BY PopIsPop
<1>10. /\ Cardinality(Popped') = Cardinality(Popped) + 1
       /\ Cardinality(ChainSet(head, next, NULL)') = Cardinality(ChainSet(head, next, NULL)) - 1
  <2>1. IsFiniteSet(Popped) /\ IsFiniteSet(ChainSet(head, next, NULL))
    BY CountedSets, ListFacts
  <2>2. Cardinality(Popped') = Cardinality(Popped) + 1
    BY <1>3, <1>6, <2>1, FS_AddElement
  <2>3. Cardinality(ChainSet(head, next, NULL)') = Cardinality(ChainSet(head, next, NULL)) - 1
    BY <1>9, <2>1, FS_RemoveElement
  <2>. QED  BY <2>2, <2>3
<1>11. /\ Cardinality(Pushed) \in Nat /\ Cardinality(Popped) \in Nat
       /\ Cardinality(ChainSet(head, next, NULL)) \in Nat
  BY CountedSets, ListFacts, FS_CardinalityType
<1>. QED  BY <1>1, <1>2, <1>7, <1>8, <1>10, <1>11 DEF CountInv

\* A popper adds what all its iterations popped.
LEMMA PopCountCount ==
    ASSUME IInv, NEW c \in Poppers, PopCount(c)
    PROVE  CountInv'
<1>. USE LockFreeStackAssumption
<1>1. TypeOK /\ c \in Thread /\ c \notin Pushers /\ CountInv /\ local_sum[c] = OPS_PER_TH
  BY DEF IInv, Thread, TypeOK, LoopInv, PopCount
<1>2. /\ pc' = [pc EXCEPT ![c] = "done"] /\ ops' = ops
      /\ pc[c] = "count" /\ UNCHANGED <<alloc_idx, push_total>>
      /\ pop_total' = pop_total + OPS_PER_TH
  BY <1>1 DEF PopCount, Goto
<1>3. pc'[c] = "done" /\ \A q \in Thread : q # c => pc'[q] = pc[q]
  BY <1>1, <1>2 DEF TypeOK
<1>4. Ended' = Ended \union {c} /\ c \notin Ended
  BY <1>2, <1>3 DEF Ended, Thread
<1>5. Cardinality(Ended') = Cardinality(Ended) + 1 /\ Cardinality(Ended) \in Nat
  BY <1>4, CountedSets, FS_AddElement, FS_CardinalityType
<1>6. pop_total' = Cardinality(Ended') * OPS_PER_TH
  BY <1>1, <1>2, <1>5 DEF CountInv
<1>7. Allocated' = Allocated /\ Pushed' = Pushed /\ Counted' = Counted
  BY <1>1, <1>2, <1>3, SamePushes DEF Thread
<1>8. Popped' = Popped
  BY <1>2 DEF Popped
<1>9. ChainSet(head, next, NULL)' = ChainSet(head, next, NULL)
  BY DEF PopCount
<1>. QED  BY <1>1, <1>2, <1>6, <1>7, <1>8, <1>9 DEF CountInv

\* No other step is counted.
LEMMA CountInvStep ==
    ASSUME IInv, [Next]_vars
    PROVE  CountInv'
<1>. USE LockFreeStackAssumption
<1>1. TypeOK /\ CountInv
  BY DEF IInv
<1>2. ASSUME UNCHANGED <<alloc_idx, totals>>, UNCHANGED ops,
             ChainSet(head, next, NULL)' = ChainSet(head, next, NULL),
             \A p \in Pushers : /\ pc'[p] = "alloc" <=> pc[p] = "alloc"
                                /\ pc'[p] = "push_count" <=> pc[p] = "push_count",
             \A c \in Poppers : pc'[c] = "done" <=> pc[c] = "done"
      PROVE  CountInv'
  <2>1. Allocated' = Allocated /\ Pushed' = Pushed /\ Counted' = Counted
    BY <1>2, SamePushes
  <2>2. Popped' = Popped /\ Ended' = Ended
    BY <1>2, SamePops
  <2>. QED  BY <1>1, <1>2, <2>1, <2>2 DEF CountInv, totals
<1>3. ASSUME ~ \E p \in Pushers : AllocNode(p) \/ PushCas(p) \/ PushCount(p),
             ~ \E c \in Poppers : PopCas(c) \/ PopCount(c)
      PROVE  CountInv'
  <2>1. ChainSet(head, next, NULL)' = ChainSet(head, next, NULL)
    BY <1>3, OtherListSteps
  <2>2. UNCHANGED <<alloc_idx, totals>> /\ UNCHANGED ops
    BY <1>3 DEF Next, PusherStep, PopperStep, Terminating, vars, PushLoad, PushLink,
         PushCasFails, PopEmpty, PopLoad, PopNext, PopCasFails
  <2>3. /\ \A p \in Pushers : /\ pc'[p] = "alloc" <=> pc[p] = "alloc"
                              /\ pc'[p] = "push_count" <=> pc[p] = "push_count"
        /\ \A c \in Poppers : pc'[c] = "done" <=> pc[c] = "done"
    BY <1>1, <1>3
    DEF Next, PusherStep, PopperStep, Terminating, vars, PushLoad, PushLink,
        PushCasFails, PopEmpty, PopLoad, PopNext, PopCasFails, Goto, TypeOK, Thread
  <2>. QED  BY <1>2, <2>1, <2>2, <2>3
<1>. QED  BY <1>3, AllocCount, PushCasCount, PushCountCount, PopCasCount, PopCountCount

-----------------------------------------------------------------------------
(* The theorems.                                                           *)

\* The initial states satisfy the invariant, and the stack is empty.
LEMMA InitIInv ==
    ASSUME Init
    PROVE  IInv /\ Stack!Init
<1>. USE LockFreeStackAssumption
<1>1. POOL_SIZE \in Nat /\ IsFiniteSet(Pool) /\ NULL \notin Pool
  BY CountedSets DEF Pool
<1>2. \A x \in Thread : /\ x \in Pushers => pc[x] \in {"alloc", "done"}
                                              /\ (pc[x] = "done" <=> ops[x] = 0)
                        /\ x \in Poppers => pc[x] \in {"pop_load", "count"}
                                              /\ (pc[x] = "count" <=> ops[x] = 0)
                        /\ ops[x] = OPS_PER_TH
  BY DEF Init, LoopHead, Thread
<1>3. TypeOK
  <2>1. pc \in [Thread -> PusherPC \union PopperPC]
    BY <1>2 DEF Init, PusherPC, PopperPC, Thread
  <2>2. /\ \A p \in Pushers : pc[p] \in PusherPC
        /\ \A c \in Poppers : pc[c] \in PopperPC
    BY <1>2 DEF PusherPC, PopperPC, Thread
  <2>. QED  BY <1>1, <2>1, <2>2 DEF Init, TypeOK, Ptr
<1>4. LoopInv
  BY <1>2 DEF Init, LoopInv, Thread
<1>5. OwnInv /\ PopInv
  BY <1>2 DEF OwnInv, PopInv, Pushing, Thread
<1>6. next \in Links(Pool, NULL)
  BY <1>3 DEF TypeOK, Links, Ptr
<1>7. /\ Chain(NULL, next, NULL) = <<>> /\ Whole(NULL, Pool, next, NULL)
      /\ ChainSet(NULL, next, NULL) = {}
  BY <1>1, <1>6, EmptyChain
<1>8. head = NULL
  BY DEF Init
<1>9. ListInv
  BY <1>7, <1>8 DEF ListInv
<1>10. Allocated = {} /\ Pushed = {} /\ Counted = {} /\ Popped = {} /\ Ended = {}
  <2>1. \A p \in Pushers : pc[p] # "push_count" /\ ops[p] = OPS_PER_TH
                              /\ (pc[p] # "alloc" => OPS_PER_TH = 0)
    BY <1>2 DEF Thread
  <2>2. \A c \in Poppers : pc[c] # "done" /\ ops[c] = OPS_PER_TH
    BY <1>2 DEF Thread
  <2>. QED  BY <2>1, <2>2 DEF Allocated, Pushed, Counted, Popped, Ended
<1>11. CountInv
  <2>1. /\ Cardinality(Allocated) = 0 /\ Cardinality(Pushed) = 0 /\ Cardinality(Counted) = 0
        /\ Cardinality(Popped) = 0 /\ Cardinality(Ended) = 0
        /\ Cardinality(ChainSet(head, next, NULL)) = 0
    BY <1>7, <1>8, <1>10, FS_EmptySet
  <2>. QED  BY <2>1 DEF Init, CountInv
<1>12. [c \in Poppers |-> node[c]] = [c \in Poppers |-> NULL]
  BY DEF Init, Thread
<1>. QED  BY <1>3, <1>4, <1>5, <1>7, <1>8, <1>9, <1>11, <1>12 DEF IInv, Stack!Init

\* Every step keeps the invariant, and is a push, a pop or neither.
LEMMA StackStep ==
    ASSUME IInv, [Next]_vars
    PROVE  /\ IInv'
           /\ [Stack!StackNext]_<<Chain(head, next, NULL), [c \in Poppers |-> node[c]]>>
<1>1. /\ ListInv'
      /\ [Stack!StackNext]_<<Chain(head, next, NULL), [c \in Poppers |-> node[c]]>>
  BY PushIsPush, PopIsPop, OtherListSteps DEF Stack!StackNext
<1>. QED  BY <1>1, TypeOKStep, LoopInvStep, OwnInvStep, PopInvStep, CountInvStep DEF IInv

\* The invariant holds in every reachable state.
THEOREM Invariance == Spec => []IInv
BY InitIInv, StackStep, PTL DEF Spec

\* The variables of lockfree_stack.c keep their types; in particular
\* alloc_node stays inside node_pool (line 66).
THEOREM TypeCorrect == Spec => []TypeOK
BY Invariance, PTL DEF IInv

\* The next of a node that was published is never written again, so that the
\* plain load of lf_stack_pop (line 42) races with no store.
THEOREM NoDataRace == Spec => PublishedIsFrozen
<1>1. ASSUME IInv, [Next]_vars
      PROVE  [\A a \in Pool : a < alloc_idx /\ a \notin Private => next'[a] = next[a]]_vars
  BY <1>1, PublishedStep DEF Published
<1>. QED  BY <1>1, Invariance, PTL DEF Spec, PublishedIsFrozen

\* lf_stack_push and lf_stack_pop implement a stack for any number of threads.
THEOREM StackIsImplemented == Spec => ImplementsStack
<1>1. IInv /\ [Next]_vars =>
         [Stack!StackNext]_<<Chain(head, next, NULL), [c \in Poppers |-> node[c]]>>
  BY StackStep
<1>. QED  BY <1>1, InitIInv, Invariance, PTL DEF Spec, ImplementsStack, Stack!StackSpec

\* When the workers have ended, the counts that main prints are right.
LEMMA CountsAtEnd ==
    ASSUME IInv
    PROVE  EndResult
<1>. USE LockFreeStackAssumption
<1>. SUFFICES ASSUME AllDone, Cardinality(Pushers) = Cardinality(Poppers)
              PROVE  push_total = POOL_SIZE /\ pop_total = POOL_SIZE /\ head = NULL
  BY DEF EndResult
<1>1. \A x \in Thread : pc[x] = "done" /\ ops[x] = 0
  BY DEF IInv, AllDone, LoopInv, Thread
<1>2. /\ Counted = Pushers \X (1 .. OPS_PER_TH) /\ Pushed = Pushers \X (1 .. OPS_PER_TH)
      /\ Popped = Poppers \X (1 .. OPS_PER_TH) /\ Ended = Poppers
  BY <1>1 DEF Counted, Pushed, Popped, Ended, Thread
<1>3. /\ Cardinality(Counted) = POOL_SIZE /\ Cardinality(Pushed) = POOL_SIZE
      /\ Cardinality(Popped) = POOL_SIZE
  <2>1. Cardinality(Poppers \X (1 .. OPS_PER_TH)) = Cardinality(Poppers) * OPS_PER_TH
    BY PopIterations
  <2>. QED  BY <1>2, <2>1, CountedSets DEF POOL_SIZE
<1>4. push_total = POOL_SIZE /\ pop_total = POOL_SIZE
  BY <1>2, <1>3 DEF IInv, CountInv, POOL_SIZE
<1>5. Cardinality(ChainSet(head, next, NULL)) = 0
  <2>1. Cardinality(ChainSet(head, next, NULL)) \in Nat /\ POOL_SIZE \in Nat
    BY ListFacts, CountedSets, FS_CardinalityType
  <2>. QED  BY <1>3, <2>1 DEF IInv, CountInv
<1>6. ChainSet(head, next, NULL) = {}
  BY <1>5, ListFacts, FS_EmptySet
<1>. QED  BY <1>4, <1>6, ListFacts

\* What main prints (lines 121-124) is right for any number of threads.
THEOREM CountsAreRight == Spec => []EndResult
BY Invariance, CountsAtEnd, PTL

-----------------------------------------------------------------------------
(* The experiments with threads, locks and publication, for every number   *)
(* of threads and iterations.                                              *)

\* What is used of the constants.
ExperimentAssumption ==
    /\ IsFiniteSet(Thread) /\ Thread # {}
    /\ ITERS \in Nat \ {0}
    /\ MaxValue \in Nat
    /\ PIECES \in Nat
    /\ NULL \notin Nat

LEMMA ExperimentConstants ==
    /\ ExperimentAssumption
    /\ Experiment!Cardinality(Thread) = Cardinality(Thread)
<1>1. Experiment!AtomicsAssumption
  BY MCLockFreeAssumption
<1>2. Experiment!IsFiniteSet(Thread) = IsFiniteSet(Thread)
  BY Zenon DEF Experiment!IsFiniteSet, IsFiniteSet
<1>3. Experiment!Cardinality(Thread) = Cardinality(Thread)
  BY Zenon DEF Experiment!Cardinality, Experiment!IsFiniteSet, Cardinality, IsFiniteSet
<1>. QED  BY <1>1, <1>2, <1>3 DEF Experiment!AtomicsAssumption, ExperimentAssumption

\* The labels of the workers of an experiment.
Labels(e) ==
    {"done"} \union
    IF e = "plain" THEN {"read", "write"}
    ELSE IF e = "fetch_add" THEN {"add"}
    ELSE IF e = "mutex" THEN {"lock", "read", "write", "unlock"}
    ELSE IF e = "spin" THEN {"spin", "add", "unlock"}
    ELSE IF e = "max" THEN {"load", "max_cas"}
    ELSE IF e = "publish" THEN {"fill", "wait", "receive"}
    ELSE {"get", "malloc", "initialize", "publish", "lost"}

Word == Nat \union {NULL}

TypeInv ==
    /\ exp \in Experiment!Counters \union {"publish", "singleton"}
    /\ counter \in Nat
    /\ word \in Word
    /\ a_heap \in [Experiment!Addr -> {"free", "raw", "initialized"}]
    /\ a_pc \in [Thread -> Labels(exp)]
    /\ a_ops \in [Thread -> 0 .. ITERS]
    /\ reg \in [Thread -> Word]
    /\ arg \in [Thread -> Word]
    /\ greatest \in Nat
    /\ exp \in Experiment!Counters => \A x \in Thread : a_pc[x] = "done" <=> a_ops[x] = 0

\* Who is in the critical section holds the lock, alone.  The spin lock is
\* always expected to be 0.
LockInv ==
    exp \in {"mutex", "spin"} =>
        /\ \A x \in Thread : a_pc[x] \in Experiment!Guarded => word # 0
        /\ \A x, y \in Thread : a_pc[x] \in Experiment!Guarded /\ a_pc[y] \in Experiment!Guarded
              => x = y
        /\ exp = "spin" => \A x \in Thread : reg[x] = 0

\* An iteration is the pair of its thread and the value of ops while it runs.
\* The iterations whose increment has taken effect.
Finished == {w \in Thread \X (1 .. ITERS) :
                w[2] > a_ops[w[1]] \/ (w[2] = a_ops[w[1]] /\ a_pc[w[1]] = "unlock")}

\* With a lock or an atomic, the counter counts them.
CounterInv ==
    exp \in {"fetch_add", "mutex", "spin"} =>
        /\ counter = Cardinality(Finished)
        /\ \A x \in Thread : a_pc[x] = "write" => reg[x] = counter

\* Without, the counter is not greater, and what a thread has read neither.  It
\* is at least 1 once a thread has written, also for that thread's next read.
PlainInv ==
    exp = "plain" =>
        /\ counter <= Cardinality(Finished)
        /\ \A x \in Thread :
              /\ a_ops[x] < ITERS => counter >= 1
              /\ a_pc[x] = "write" => /\ reg[x] \in Nat /\ reg[x] <= Cardinality(Finished)
                                      /\ a_ops[x] < ITERS => reg[x] >= 1
        /\ Experiment!AllDone => counter >= IF ITERS > 1 THEN 2 ELSE 1

\* The greatest value is the maximum, or a thread is about to store it.
MaxInv ==
    exp = "max" =>
        /\ counter <= greatest
        /\ \A x \in Thread : a_pc[x] = "max_cas" =>
              reg[x] \in Nat /\ arg[x] \in Nat /\ reg[x] < arg[x] /\ arg[x] <= greatest
        /\ counter = greatest \/ \E x \in Thread : a_pc[x] = "max_cas" /\ arg[x] = greatest

\* data_ready is set when the data is complete, and nobody receives it before.
PublishInv ==
    exp = "publish" =>
        /\ word = 1 => counter = PIECES
        /\ \A x \in Thread : a_pc[x] = "receive" => word = 1

\* A thread of get_instance that has made an object which is not published.
Making(x) == a_pc[x] \in {"initialize", "publish", "lost"}

SingletonInv ==
    exp = "singleton" =>
        /\ word # NULL => word \in Experiment!Addr /\ a_heap[word] = "initialized"
        /\ \A x \in Thread :
              /\ Making(x) => reg[x] \in Experiment!Addr /\ a_heap[reg[x]] # "free" /\ reg[x] # word
              /\ a_pc[x] \in {"publish", "lost"} => a_heap[reg[x]] = "initialized"
              /\ a_pc[x] = "lost" => arg[x] = word
              /\ a_pc[x] \in {"lost", "done"} => word # NULL
              /\ a_pc[x] = "done" => reg[x] = word
        /\ \A x, y \in Thread : Making(x) /\ Making(y) /\ reg[x] = reg[y] => x = y

\* The inductive invariant of the experiments.
ExperimentInv ==
    /\ TypeInv /\ LockInv /\ CounterInv /\ PlainInv /\ MaxInv /\ PublishInv /\ SingletonInv

-----------------------------------------------------------------------------
(* Types.                                                                  *)

\* The steps of the workers of each experiment.
PlainStep == \E x \in Thread : Experiment!Read(x) \/ Experiment!Write(x)
FetchAddStep == \E x \in Thread : Experiment!FetchAdd(x)
MutexStep == \E x \in Thread : Experiment!MutexLock(x) \/ Experiment!Read(x)
      \/ Experiment!Write(x) \/ Experiment!Unlock(x)
SpinStep == \E x \in Thread : Experiment!SpinLock(x) \/ Experiment!SpinFails(x)
      \/ Experiment!FetchAdd(x) \/ Experiment!Unlock(x)
MaxStep == \E x \in Thread : Experiment!MaxLoad(x) \/ Experiment!MaxSwap(x)
      \/ Experiment!MaxSwapFails(x)
PublishStep == \E x \in Thread : Experiment!Fill(x) \/ Experiment!StoreReady(x)
      \/ Experiment!Wait(x) \/ Experiment!Receive(x)
SingletonStep ==
    \E x \in Thread :
        Experiment!Get(x) \/ Experiment!Malloc(x) \/ Experiment!Initialize(x)
              \/ Experiment!Publish(x) \/ Experiment!PublishLost(x) \/ Experiment!FreeLost(x)

\* A step of an experiment is a step of its workers.
LEMMA StepOf ==
    ASSUME TypeInv, [Experiment!Next]_experimentVars
    PROVE  \/ UNCHANGED experimentVars
           \/ /\ exp' = exp
              /\ exp = "plain" => PlainStep
              /\ exp = "fetch_add" => FetchAddStep
              /\ exp = "mutex" => MutexStep
              /\ exp = "spin" => SpinStep
              /\ exp = "max" => MaxStep
              /\ exp = "publish" => PublishStep
              /\ exp = "singleton" => SingletonStep
<1>1. CASE UNCHANGED experimentVars
  BY <1>1
<1>2. CASE Experiment!Terminating
  BY <1>2 DEF Experiment!Terminating, Experiment!vars, experimentVars
<1>3. ASSUME NEW x \in Thread,
             \/ Experiment!Read(x) \/ Experiment!Write(x) \/ Experiment!FetchAdd(x)
                   \/ Experiment!MutexLock(x)
             \/ Experiment!SpinLock(x) \/ Experiment!SpinFails(x) \/ Experiment!Unlock(x)
      PROVE  /\ exp' = exp
             /\ exp = "plain" => PlainStep
             /\ exp = "fetch_add" => FetchAddStep
             /\ exp = "mutex" => MutexStep
             /\ exp = "spin" => SpinStep
             /\ exp \notin {"max", "publish", "singleton"}
  <2>1. /\ exp' = exp
        /\ a_pc[x] \in {"read", "write", "add", "lock", "spin", "unlock"}
    BY <1>3 DEF Experiment!Read, Experiment!Write, Experiment!FetchAdd, Experiment!MutexLock,
                Experiment!SpinLock, Experiment!SpinFails, Experiment!Unlock
  <2>2. exp \in {"plain", "fetch_add", "mutex", "spin"} /\ a_pc[x] \in Labels(exp)
    BY <2>1 DEF TypeInv, Labels, Experiment!Counters
  <2>3. exp = "plain" => Experiment!Read(x) \/ Experiment!Write(x)
    BY <1>3, <2>2 DEF Labels, Experiment!FetchAdd, Experiment!MutexLock, Experiment!SpinLock,
                      Experiment!SpinFails, Experiment!Unlock
  <2>4. exp = "fetch_add" => Experiment!FetchAdd(x)
    BY <1>3, <2>2 DEF Labels, Experiment!Read, Experiment!Write, Experiment!MutexLock,
                      Experiment!SpinLock, Experiment!SpinFails, Experiment!Unlock
  <2>5. exp = "mutex" => Experiment!MutexLock(x) \/ Experiment!Read(x) \/ Experiment!Write(x)
        \/ Experiment!Unlock(x)
    BY <1>3, <2>2 DEF Labels, Experiment!FetchAdd, Experiment!SpinLock, Experiment!SpinFails
  <2>6. exp = "spin" => Experiment!SpinLock(x) \/ Experiment!SpinFails(x)
        \/ Experiment!FetchAdd(x) \/ Experiment!Unlock(x)
    BY <1>3, <2>2 DEF Labels, Experiment!Read, Experiment!Write, Experiment!MutexLock
  <2>. QED  BY <2>1, <2>2, <2>3, <2>4, <2>5, <2>6
            DEF PlainStep, FetchAddStep, MutexStep, SpinStep
<1>4. ASSUME NEW x \in Thread,
             Experiment!MaxLoad(x) \/ Experiment!MaxSwap(x) \/ Experiment!MaxSwapFails(x)
      PROVE  exp' = exp /\ exp = "max" /\ MaxStep
  <2>1. exp' = exp /\ a_pc[x] \in {"load", "max_cas"}
    BY <1>4 DEF Experiment!MaxLoad, Experiment!MaxSwap, Experiment!MaxSwapFails
  <2>. QED  BY <1>4, <2>1 DEF TypeInv, Labels, Experiment!Counters, MaxStep
<1>5. ASSUME NEW x \in Thread,
             Experiment!Fill(x) \/ Experiment!StoreReady(x) \/ Experiment!Wait(x)
                   \/ Experiment!Receive(x)
      PROVE  exp' = exp /\ exp = "publish" /\ PublishStep
  <2>1. exp' = exp /\ a_pc[x] \in {"fill", "wait", "receive"}
    BY <1>5 DEF Experiment!Fill, Experiment!StoreReady, Experiment!Wait, Experiment!Receive
  <2>. QED  BY <1>5, <2>1 DEF TypeInv, Labels, Experiment!Counters, PublishStep
<1>6. ASSUME NEW x \in Thread,
             Experiment!Get(x) \/ Experiment!Malloc(x) \/ Experiment!Initialize(x)
                   \/ Experiment!Publish(x) \/ Experiment!PublishLost(x) \/ Experiment!FreeLost(x)
      PROVE  exp' = exp /\ exp = "singleton" /\ SingletonStep
  <2>1. exp' = exp /\ a_pc[x] \in {"get", "malloc", "initialize", "publish", "lost"}
    BY <1>6 DEF Experiment!Get, Experiment!Malloc, Experiment!Initialize, Experiment!Publish,
                Experiment!PublishLost, Experiment!FreeLost
  <2>. QED  BY <1>6, <2>1 DEF TypeInv, Labels, Experiment!Counters, SingletonStep
<1>. QED  BY <1>1, <1>2, <1>3, <1>4, <1>5, <1>6 DEF Experiment!Next

\* The part of TypeInv about the control state.
ControlInv ==
    /\ a_pc \in [Thread -> Labels(exp)]
    /\ a_ops \in [Thread -> 0 .. ITERS]
    /\ exp \in Experiment!Counters => \A x \in Thread : a_pc[x] = "done" <=> a_ops[x] = 0

\* A jump inside an iteration.
LEMMA GotoControl ==
    ASSUME TypeInv, NEW x \in Thread, NEW label \in Labels(exp),
           Experiment!Goto(x, label), exp' = exp, a_ops' = a_ops,
           exp \in Experiment!Counters => label # "done" /\ a_pc[x] # "done"
    PROVE  ControlInv'
<1>1. a_pc' = [a_pc EXCEPT ![x] = label] /\ a_pc \in [Thread -> Labels(exp)]
  BY DEF Experiment!Goto, TypeInv
<1>2. a_pc'[x] = label /\ \A y \in Thread : y # x => a_pc'[y] = a_pc[y]
  BY <1>1
<1>3. a_pc' \in [Thread -> Labels(exp)]
  BY <1>1
<1>. QED  BY <1>2, <1>3 DEF ControlInv, TypeInv

\* The end of some iterations.
LEMMA EndControl ==
    ASSUME ExperimentAssumption, TypeInv, NEW x \in Thread, NEW k \in 1 .. a_ops[x],
           Experiment!EndIterations(x, k),
           exp' = exp, exp \in Experiment!Counters
    PROVE  /\ ControlInv'
           /\ a_ops' = [a_ops EXCEPT ![x] = a_ops[x] - k]
           /\ a_pc' = [a_pc EXCEPT ![x] = IF a_ops[x] = k THEN "done" ELSE Experiment!Start]
           /\ a_ops[x] \in 1 .. ITERS /\ a_ops[x] - k \in 0 .. ITERS - 1
           /\ Experiment!Start \in Labels(exp)
                 /\ Experiment!Start \notin {"done", "write", "unlock", "max_cas"}
           /\ exp \in {"mutex", "spin"} => Experiment!Start \notin Experiment!Guarded
<1>1. /\ a_ops' = [a_ops EXCEPT ![x] = a_ops[x] - k]
      /\ a_pc' = [a_pc EXCEPT ![x] = IF a_ops[x] = k THEN "done" ELSE Experiment!Start]
  BY DEF Experiment!EndIterations, Experiment!Goto
<1>2. a_ops[x] \in 1 .. ITERS /\ a_ops[x] - k \in 0 .. ITERS - 1
  BY DEF TypeInv, ExperimentAssumption
<1>3. Experiment!Start \in Labels(exp)
      /\ Experiment!Start \notin {"done", "write", "unlock", "max_cas"}
  BY DEF Experiment!Start, Labels, Experiment!Counters
<1>4. exp \in {"mutex", "spin"} => Experiment!Start \notin Experiment!Guarded
  BY DEF Experiment!Start, Experiment!Guarded
<1>5. "done" \in Labels(exp)
  BY DEF Labels
<1>6. a_pc' \in [Thread -> Labels(exp)]
  BY <1>1, <1>3, <1>5 DEF TypeInv
<1>7. a_ops' \in [Thread -> 0 .. ITERS]
  BY <1>1, <1>2, ExperimentAssumption DEF TypeInv, ExperimentAssumption
<1>8. \A y \in Thread : a_pc'[y] = "done" <=> a_ops'[y] = 0
  BY <1>1, <1>2, <1>3 DEF TypeInv
<1>. QED  BY <1>1, <1>2, <1>3, <1>4, <1>6, <1>7, <1>8 DEF ControlInv

\* An iteration is left when its last increment is the only one to do.
LEMMA OneMore ==
    ASSUME ExperimentAssumption, TypeInv,
           NEW x \in Thread, a_pc[x] # "done", exp \in Experiment!Counters
    PROVE  1 \in 1 .. a_ops[x] /\ a_ops[x] \in 1 .. ITERS
BY DEF ExperimentAssumption, TypeInv

\* Every action keeps the variables in their types.
LEMMA TypeInvStep ==
    ASSUME ExperimentAssumption, TypeInv, LockInv, PlainInv, CounterInv, MaxInv, SingletonInv,
           [Experiment!Next]_experimentVars
    PROVE  TypeInv'
<1>. USE DEF ExperimentAssumption
<1>1. CASE UNCHANGED experimentVars
  BY <1>1 DEF experimentVars, TypeInv
<1>2. SUFFICES ASSUME exp' = exp
               PROVE  /\ counter' \in Nat /\ word' \in Word
                      /\ a_heap' \in [Experiment!Addr -> {"free", "raw", "initialized"}]
                      /\ reg' \in [Thread -> Word] /\ arg' \in [Thread -> Word]
                      /\ greatest' \in Nat
                      /\ ControlInv'
  BY <1>1, <1>2, StepOf DEF TypeInv, ControlInv
<1>. USE DEF Experiment!SetReg, Word
<1>3. ASSUME NEW x \in Thread, Experiment!Write(x)
      PROVE  /\ counter' \in Nat /\ word' \in Word
             /\ a_heap' \in [Experiment!Addr -> {"free", "raw", "initialized"}]
             /\ reg' \in [Thread -> Word] /\ arg' \in [Thread -> Word]
             /\ greatest' \in Nat
             /\ ControlInv'
  <2>1. UNCHANGED <<exp, word, a_heap, reg, arg, greatest>> /\ a_pc[x] = "write"
    BY <1>3 DEF Experiment!Write
  <2>2. CASE exp = "mutex"
    <3>1. counter' = reg[x] + 1 /\ Experiment!Goto(x, "unlock") /\ a_ops' = a_ops
      BY <1>3, <2>2 DEF Experiment!Write
    <3>2. counter' \in Nat
      BY <2>1, <2>2, <3>1 DEF TypeInv, CounterInv
    <3>3. ControlInv'
      BY <2>1, <2>2, <3>1, GotoControl DEF Labels
    <3>. QED  BY <2>1, <3>2, <3>3 DEF TypeInv
  <2>3. CASE exp # "mutex"
    <3>1. PICK k \in 1 .. a_ops[x] : counter' = reg[x] + k /\ Experiment!EndIterations(x, k)
      BY <1>3, <2>3 DEF Experiment!Write
    <3>2. exp = "plain"
      BY <2>1, <2>3 DEF TypeInv, Labels
    <3>3. reg[x] \in Nat /\ k \in Nat
      BY <2>1, <3>2 DEF PlainInv
    <3>4. ControlInv'
      BY <2>1, <3>1, <3>2, EndControl DEF Experiment!Counters
    <3>. QED  BY <2>1, <3>1, <3>3, <3>4 DEF TypeInv
  <2>. QED  BY <2>2, <2>3
<1>4. CASE exp = "plain" \/ exp = "mutex"
  <2>1. ASSUME NEW x \in Thread,
               Experiment!Read(x) \/ Experiment!MutexLock(x) \/ Experiment!Unlock(x)
        PROVE  /\ counter' \in Nat /\ word' \in Word
               /\ a_heap' \in [Experiment!Addr -> {"free", "raw", "initialized"}]
               /\ reg' \in [Thread -> Word] /\ arg' \in [Thread -> Word]
               /\ greatest' \in Nat
               /\ ControlInv'
    <3>1. CASE Experiment!Read(x)
      BY <1>2, <1>4, <3>1, GotoControl DEF Experiment!Read, TypeInv, Labels
    <3>2. CASE Experiment!MutexLock(x)
      <4>1. exp = "mutex"
        BY <1>4, <3>2 DEF Experiment!MutexLock, TypeInv, Labels
      <4>. QED  BY <1>2, <3>2, <4>1, GotoControl DEF Experiment!MutexLock, TypeInv, Labels
    <3>3. CASE Experiment!Unlock(x)
      <4>1. Experiment!EndIterations(x, 1) /\ a_pc[x] # "done"
        BY <3>3 DEF Experiment!Unlock
      <4>2. ControlInv'
        BY <1>2, <1>4, <4>1, OneMore, EndControl DEF Experiment!Counters
      <4>. QED  BY <3>3, <4>2 DEF Experiment!Unlock, TypeInv
    <3>. QED  BY <2>1, <3>1, <3>2, <3>3
  <2>. QED  BY <1>1, <1>3, <1>4, <2>1, StepOf DEF PlainStep, MutexStep, experimentVars, TypeInv,
                                                  ControlInv
<1>5. CASE exp = "fetch_add" \/ exp = "spin"
  <2>1. ASSUME NEW x \in Thread,
               Experiment!FetchAdd(x) \/ Experiment!SpinLock(x) \/ Experiment!SpinFails(x)
                     \/ Experiment!Unlock(x)
        PROVE  /\ counter' \in Nat /\ word' \in Word
               /\ a_heap' \in [Experiment!Addr -> {"free", "raw", "initialized"}]
               /\ reg' \in [Thread -> Word] /\ arg' \in [Thread -> Word]
               /\ greatest' \in Nat
               /\ ControlInv'
    <3>1. CASE Experiment!FetchAdd(x)
      <4>1. ControlInv'
        <5>1. CASE exp = "spin"
          BY <1>2, <3>1, <5>1, GotoControl DEF Experiment!FetchAdd, Labels
        <5>2. CASE exp # "spin"
          <6>1. Experiment!EndIterations(x, 1) /\ a_pc[x] # "done"
            BY <3>1, <5>2 DEF Experiment!FetchAdd
          <6>. QED  BY <1>2, <1>5, <6>1, OneMore, EndControl DEF Experiment!Counters
        <5>. QED  BY <5>1, <5>2
      <4>. QED  BY <3>1, <4>1 DEF Experiment!FetchAdd, TypeInv
    <3>2. CASE Experiment!SpinLock(x)
      <4>1. exp = "spin"
        BY <1>5, <3>2 DEF Experiment!SpinLock, TypeInv, Labels
      <4>. QED  BY <1>2, <3>2, <4>1, GotoControl DEF Experiment!SpinLock, TypeInv, Labels
    <3>3. CASE Experiment!SpinFails(x)
      BY <1>2, <3>3 DEF Experiment!SpinFails, TypeInv, ControlInv
    <3>4. CASE Experiment!Unlock(x)
      <4>1. Experiment!EndIterations(x, 1) /\ a_pc[x] # "done"
        BY <3>4 DEF Experiment!Unlock
      <4>2. ControlInv'
        BY <1>2, <1>5, <4>1, OneMore, EndControl DEF Experiment!Counters
      <4>. QED  BY <3>4, <4>2 DEF Experiment!Unlock, TypeInv
    <3>. QED  BY <2>1, <3>1, <3>2, <3>3, <3>4
  <2>. QED  BY <1>1, <1>5, <2>1, StepOf DEF FetchAddStep, SpinStep, experimentVars, TypeInv,
                                            ControlInv
<1>6. CASE exp = "max"
  <2>1. ASSUME NEW x \in Thread, NEW given, NEW current, Experiment!MaxLoop(x, given, current),
               a_pc[x] \in {"load", "max_cas"}
        PROVE  ControlInv'
    <3>1. CASE given > current
      BY <1>2, <1>6, <2>1, <3>1, GotoControl DEF Experiment!MaxLoop, Labels
    <3>2. CASE ~ (given > current)
      BY <1>2, <1>6, <2>1, <3>2, OneMore, EndControl DEF Experiment!MaxLoop, Experiment!Counters
    <3>. QED  BY <3>1, <3>2
  <2>2. ASSUME NEW x \in Thread,
               Experiment!MaxLoad(x) \/ Experiment!MaxSwap(x) \/ Experiment!MaxSwapFails(x)
        PROVE  /\ counter' \in Nat /\ word' \in Word
               /\ a_heap' \in [Experiment!Addr -> {"free", "raw", "initialized"}]
               /\ reg' \in [Thread -> Word] /\ arg' \in [Thread -> Word]
               /\ greatest' \in Nat
               /\ ControlInv'
    <3>1. CASE Experiment!MaxLoad(x)
      <4>1. PICK given \in 1 .. MaxValue :
               /\ a_pc[x] = "load"
               /\ arg' = [arg EXCEPT ![x] = given] /\ Experiment!SetReg(x, counter)
               /\ greatest' = IF given > greatest THEN given ELSE greatest
               /\ Experiment!MaxLoop(x, given, counter)
               /\ UNCHANGED <<exp, counter, word, a_heap>>
        BY <3>1 DEF Experiment!MaxLoad
      <4>2. given \in Nat
        OBVIOUS
      <4>. QED  BY <2>1, <4>1, <4>2 DEF TypeInv
    <3>2. CASE Experiment!MaxSwap(x)
      <4>1. Experiment!EndIterations(x, 1) /\ a_pc[x] = "max_cas"
        BY <3>2 DEF Experiment!MaxSwap
      <4>2. ControlInv'
        BY <1>2, <1>6, <4>1, OneMore, EndControl DEF Experiment!Counters
      <4>3. arg[x] \in Nat
        BY <1>6, <4>1 DEF MaxInv
      <4>. QED  BY <3>2, <4>2, <4>3 DEF Experiment!MaxSwap, TypeInv
    <3>3. CASE Experiment!MaxSwapFails(x)
      BY <2>1, <3>3 DEF Experiment!MaxSwapFails, TypeInv
    <3>. QED  BY <2>2, <3>1, <3>2, <3>3
  <2>. QED  BY <1>1, <1>6, <2>2, StepOf DEF MaxStep, experimentVars, TypeInv, ControlInv
<1>7. CASE exp = "publish"
  <2>1. ASSUME NEW x \in Thread,
               Experiment!Fill(x) \/ Experiment!StoreReady(x) \/ Experiment!Wait(x)
                     \/ Experiment!Receive(x)
        PROVE  /\ counter' \in Nat /\ word' \in Word
               /\ a_heap' \in [Experiment!Addr -> {"free", "raw", "initialized"}]
               /\ reg' \in [Thread -> Word] /\ arg' \in [Thread -> Word]
               /\ greatest' \in Nat
               /\ ControlInv'
    <3>1. exp \notin Experiment!Counters
      BY <1>7 DEF Experiment!Counters
    <3>2. CASE Experiment!Fill(x)
      BY <1>2, <3>2 DEF Experiment!Fill, TypeInv, ControlInv
    <3>3. CASE Experiment!StoreReady(x)
      BY <1>2, <1>7, <3>1, <3>3, GotoControl DEF Experiment!StoreReady, TypeInv, Labels
    <3>4. CASE Experiment!Wait(x)
      BY <1>2, <1>7, <3>1, <3>4, GotoControl DEF Experiment!Wait, TypeInv, Labels
    <3>5. CASE Experiment!Receive(x)
      BY <1>2, <1>7, <3>1, <3>5, GotoControl DEF Experiment!Receive, TypeInv, Labels
    <3>. QED  BY <2>1, <3>2, <3>3, <3>4, <3>5
  <2>. QED  BY <1>1, <1>7, <2>1, StepOf DEF PublishStep, experimentVars, TypeInv, ControlInv
<1>8. CASE exp = "singleton"
  <2>1. ASSUME NEW x \in Thread,
               Experiment!Get(x) \/ Experiment!Malloc(x) \/ Experiment!Initialize(x)
                     \/ Experiment!Publish(x) \/ Experiment!PublishLost(x) \/ Experiment!FreeLost(x)
        PROVE  /\ counter' \in Nat /\ word' \in Word
               /\ a_heap' \in [Experiment!Addr -> {"free", "raw", "initialized"}]
               /\ reg' \in [Thread -> Word] /\ arg' \in [Thread -> Word]
               /\ greatest' \in Nat
               /\ ControlInv'
    <3>1. exp \notin Experiment!Counters
          /\ {"done", "malloc", "initialize", "publish", "lost"} \subseteq Labels(exp)
      BY <1>8 DEF Experiment!Counters, Labels
    <3>2. CASE Experiment!Get(x)
      BY <1>2, <3>1, <3>2, GotoControl DEF Experiment!Get, TypeInv
    <3>3. CASE Experiment!Malloc(x)
      <4>1. PICK a \in Experiment!Addr :
               /\ a_pc[x] = "malloc" /\ a_heap[a] = "free"
               /\ a_heap' = [a_heap EXCEPT ![a] = "raw"]
               /\ Experiment!SetReg(x, a) /\ Experiment!Goto(x, "initialize")
               /\ UNCHANGED <<exp, counter, word, a_ops, arg, greatest>>
        BY <3>3 DEF Experiment!Malloc
      <4>2. a \in Nat
        BY DEF Experiment!Addr
      <4>. QED  BY <3>1, <4>1, <4>2, GotoControl DEF TypeInv
    <3>4. CASE Experiment!Initialize(x)
      BY <1>2, <3>1, <3>4, GotoControl DEF Experiment!Initialize, TypeInv
    <3>5. CASE Experiment!Publish(x)
      BY <1>2, <3>1, <3>5, GotoControl DEF Experiment!Publish, TypeInv
    <3>6. CASE Experiment!PublishLost(x)
      BY <1>2, <3>1, <3>6, GotoControl DEF Experiment!PublishLost, TypeInv
    <3>7. CASE Experiment!FreeLost(x)
      BY <1>2, <3>1, <3>7, GotoControl DEF Experiment!FreeLost, TypeInv
    <3>. QED  BY <2>1, <3>2, <3>3, <3>4, <3>5, <3>6, <3>7
  <2>. QED  BY <1>1, <1>8, <2>1, StepOf DEF SingletonStep, experimentVars, TypeInv, ControlInv
<1>. QED  BY <1>4, <1>5, <1>6, <1>7, <1>8 DEF TypeInv, Experiment!Counters

-----------------------------------------------------------------------------
(* Locks, and publication.                                                 *)

\* One thread at a time takes the lock.
LEMMA LockInvStep ==
    ASSUME ExperimentAssumption, ExperimentInv, [Experiment!Next]_experimentVars
    PROVE  LockInv'
<1>. USE ExperimentAssumption
<1>0. TypeInv /\ LockInv
  BY DEF ExperimentInv
<1>1. CASE UNCHANGED experimentVars
  BY <1>0, <1>1 DEF experimentVars, LockInv
<1>2. SUFFICES ASSUME exp' = exp, exp \in {"mutex", "spin"},
                      exp = "mutex" => MutexStep, exp = "spin" => SpinStep
               PROVE  LockInv'
  <2>1. CASE exp' = exp /\ exp \notin {"mutex", "spin"}
    BY <2>1 DEF LockInv
  <2>. QED  BY <1>0, <1>1, <1>2, <2>1, StepOf
<1>3. /\ \A x \in Thread : a_pc[x] \in Experiment!Guarded => word # 0
      /\ \A x, y \in Thread : a_pc[x] \in Experiment!Guarded /\ a_pc[y] \in Experiment!Guarded
            => x = y
      /\ exp = "spin" => \A x \in Thread : reg[x] = 0
  BY <1>0, <1>2 DEF LockInv
<1>4. ASSUME NEW x \in Thread, NEW label, a_pc' = [a_pc EXCEPT ![x] = label],
             label \in Experiment!Guarded => word' # 0 /\ \A y \in Thread : y # x
                   => a_pc[y] \notin Experiment!Guarded,
             word' = word \/ \A y \in Thread : y # x => a_pc[y] \notin Experiment!Guarded,
             exp = "spin" => \A y \in Thread : reg'[y] = 0
      PROVE  LockInv'
  <2>1. a_pc'[x] = label /\ \A y \in Thread : y # x => a_pc'[y] = a_pc[y]
    BY <1>0, <1>4 DEF TypeInv
  <2>. QED  BY <1>2, <1>3, <1>4, <2>1 DEF LockInv
<1>5. ASSUME NEW x \in Thread, NEW label, Experiment!Goto(x, label),
             word' = word, a_pc[x] \in Experiment!Guarded,
             exp = "spin" => reg' = reg
      PROVE  LockInv'
  BY <1>3, <1>4, <1>5 DEF Experiment!Goto
<1>6. ASSUME NEW x \in Thread, NEW label, Experiment!Goto(x, label), word' # 0, word = 0,
             exp = "spin" => reg' = reg
      PROVE  LockInv'
  BY <1>3, <1>4, <1>6 DEF Experiment!Goto
<1>7. ASSUME NEW x \in Thread, Experiment!Unlock(x)
      PROVE  LockInv'
  <2>1. /\ Experiment!EndIterations(x, 1) /\ a_pc[x] # "done" /\ a_pc[x] \in Experiment!Guarded
        /\ reg' = reg
        /\ exp \in Experiment!Counters
    BY <1>2, <1>7 DEF Experiment!Counters, Experiment!Guarded, Experiment!Unlock
  <2>2. /\ a_pc' = [a_pc EXCEPT ![x] = IF a_ops[x] = 1 THEN "done" ELSE Experiment!Start]
        /\ Experiment!Start \notin Experiment!Guarded
    BY <1>0, <1>2, <2>1, OneMore, EndControl
  <2>3. (IF a_ops[x] = 1 THEN "done" ELSE Experiment!Start) \notin Experiment!Guarded
    BY <2>2 DEF Experiment!Guarded
  <2>. QED  BY <1>3, <1>4, <2>1, <2>2, <2>3
<1>8. CASE exp = "mutex"
  <2>1. ASSUME NEW x \in Thread,
               Experiment!MutexLock(x) \/ Experiment!Read(x) \/ Experiment!Write(x)
        PROVE  LockInv'
    <3>1. CASE Experiment!MutexLock(x)
      BY <1>6, <1>8, <3>1 DEF Experiment!MutexLock
    <3>2. CASE Experiment!Read(x)
      BY <1>5, <1>8, <3>2 DEF Experiment!Read, Experiment!Guarded
    <3>3. CASE Experiment!Write(x)
      BY <1>5, <1>8, <3>3 DEF Experiment!Write, Experiment!Guarded
    <3>. QED  BY <2>1, <3>1, <3>2, <3>3
  <2>. QED  BY <1>2, <1>7, <1>8, <2>1 DEF MutexStep
<1>9. CASE exp = "spin"
  <2>1. ASSUME NEW x \in Thread,
               Experiment!SpinLock(x) \/ Experiment!SpinFails(x) \/ Experiment!FetchAdd(x)
        PROVE  LockInv'
    <3>1. CASE Experiment!SpinLock(x)
      BY <1>3, <1>6, <1>9, <3>1 DEF Experiment!SpinLock
    <3>2. CASE Experiment!SpinFails(x)
      <4>1. \A y \in Thread : reg'[y] = 0
        BY <1>0, <1>3, <1>9, <3>2 DEF Experiment!SpinFails, Experiment!SetReg, TypeInv
      <4>. QED  BY <1>2, <1>3, <3>2, <4>1 DEF Experiment!SpinFails, LockInv
    <3>3. CASE Experiment!FetchAdd(x)
      BY <1>5, <1>9, <3>3 DEF Experiment!FetchAdd, Experiment!Guarded
    <3>. QED  BY <2>1, <3>1, <3>2, <3>3
  <2>. QED  BY <1>2, <1>7, <1>9, <2>1 DEF SpinStep
<1>. QED  BY <1>2, <1>8, <1>9

\* Nobody receives data that is not complete, and no more is written after
\* the flag.
LEMMA PublishInvStep ==
    ASSUME ExperimentAssumption, ExperimentInv, [Experiment!Next]_experimentVars
    PROVE  PublishInv'
<1>. USE ExperimentAssumption DEF ExperimentAssumption
<1>0. TypeInv /\ PublishInv
  BY DEF ExperimentInv
<1>1. CASE UNCHANGED experimentVars
  BY <1>0, <1>1 DEF experimentVars, PublishInv
<1>2. CASE exp' = exp /\ exp # "publish"
  BY <1>2 DEF PublishInv
<1>3. ASSUME exp' = exp, exp = "publish", NEW x \in Thread,
             Experiment!Fill(x) \/ Experiment!StoreReady(x) \/ Experiment!Wait(x)
                   \/ Experiment!Receive(x)
      PROVE  PublishInv'
  <2>1. /\ word = 1 => counter = PIECES
        /\ \A y \in Thread : a_pc[y] = "receive" => word = 1
    BY <1>0, <1>3 DEF PublishInv
  <2>2. CASE Experiment!Fill(x)
    BY <2>1, <2>2 DEF Experiment!Fill, PublishInv
  <2>3. CASE Experiment!StoreReady(x)
    BY <2>1, <2>3 DEF Experiment!StoreReady, PublishInv
  <2>4. CASE Experiment!Wait(x)
    BY <1>0, <2>1, <2>4 DEF Experiment!Wait, Experiment!Goto, TypeInv, PublishInv
  <2>5. CASE Experiment!Receive(x)
    BY <1>0, <2>1, <2>5 DEF Experiment!Receive, Experiment!Goto, TypeInv, PublishInv
  <2>. QED  BY <1>3, <2>2, <2>3, <2>4, <2>5
<1>. QED  BY <1>0, <1>1, <1>2, <1>3, StepOf DEF PublishStep

\* There is one singleton, and a thread frees only its own object.
LEMMA SingletonInvStep ==
    ASSUME ExperimentAssumption, ExperimentInv, [Experiment!Next]_experimentVars
    PROVE  SingletonInv'
<1>. USE ExperimentAssumption DEF ExperimentAssumption
<1>0. TypeInv /\ SingletonInv /\ NULL \notin Experiment!Addr
  BY DEF ExperimentInv, Experiment!Addr
<1>1. CASE UNCHANGED experimentVars
  BY <1>0, <1>1 DEF experimentVars, SingletonInv, Making
<1>2. CASE exp' = exp /\ exp # "singleton"
  BY <1>2 DEF SingletonInv
<1>3. ASSUME exp' = exp, exp = "singleton", NEW x \in Thread,
             Experiment!Get(x) \/ Experiment!Malloc(x) \/ Experiment!Initialize(x)
                   \/ Experiment!Publish(x) \/ Experiment!PublishLost(x) \/ Experiment!FreeLost(x)
      PROVE  SingletonInv'
  <2>1. /\ word # NULL => word \in Experiment!Addr /\ a_heap[word] = "initialized"
        /\ \A y \in Thread :
              /\ Making(y) => reg[y] \in Experiment!Addr /\ a_heap[reg[y]] # "free" /\ reg[y] # word
              /\ a_pc[y] \in {"publish", "lost"} => a_heap[reg[y]] = "initialized"
              /\ a_pc[y] = "lost" => arg[y] = word
              /\ a_pc[y] \in {"lost", "done"} => word # NULL
              /\ a_pc[y] = "done" => reg[y] = word
        /\ \A y, z \in Thread : Making(y) /\ Making(z) /\ reg[y] = reg[z] => y = z
    BY <1>0, <1>3 DEF SingletonInv
  <2>. USE DEF Experiment!SetReg, Experiment!Goto, TypeInv, SingletonInv, Making
  <2>2. CASE Experiment!Get(x)
    BY <1>0, <2>1, <2>2 DEF Experiment!Get
  <2>3. CASE Experiment!Malloc(x)
    <3>1. PICK a \in Experiment!Addr :
             /\ a_pc[x] = "malloc" /\ a_heap[a] = "free"
             /\ a_heap' = [a_heap EXCEPT ![a] = "raw"]
             /\ Experiment!SetReg(x, a) /\ Experiment!Goto(x, "initialize")
             /\ UNCHANGED <<exp, counter, word, a_ops, arg, greatest>>
      BY <2>3 DEF Experiment!Malloc
    <3>2. /\ a_pc'[x] = "initialize" /\ reg'[x] = a
          /\ \A y \in Thread : y # x => a_pc'[y] = a_pc[y] /\ reg'[y] = reg[y]
          /\ a_heap'[a] = "raw" /\ \A b \in Experiment!Addr : b # a => a_heap'[b] = a_heap[b]
      BY <1>0, <3>1
    <3>. QED  BY <1>0, <2>1, <3>1, <3>2
  <2>4. CASE Experiment!Initialize(x)
    <3>1. /\ a_pc'[x] = "publish" /\ reg' = reg
          /\ \A y \in Thread : y # x => a_pc'[y] = a_pc[y]
          /\ reg[x] \in Experiment!Addr /\ Making(x)
          /\ a_heap'[reg[x]] = "initialized" /\ \A b \in Experiment!Addr : b # reg[x]
                => a_heap'[b] = a_heap[b]
      BY <1>0, <2>1, <2>4 DEF Experiment!Initialize
    <3>. QED  BY <1>0, <2>1, <2>4, <3>1 DEF Experiment!Initialize
  <2>5. CASE Experiment!Publish(x)
    <3>1. /\ a_pc'[x] = "done" /\ \A y \in Thread : y # x => a_pc'[y] = a_pc[y]
          /\ reg[x] \in Experiment!Addr /\ Making(x) /\ UNCHANGED <<reg, a_heap, arg>>
          /\ word' = reg[x] /\ word = NULL /\ a_heap[reg[x]] = "initialized"
      BY <1>0, <2>1, <2>5 DEF Experiment!Publish
    <3>2. \A y \in Thread : a_pc'[y] \in {"lost", "done"} => y = x
      BY <2>1, <3>1
    <3>. QED  BY <1>0, <2>1, <3>1, <3>2
  <2>6. CASE Experiment!PublishLost(x)
    BY <1>0, <2>1, <2>6 DEF Experiment!PublishLost
  <2>7. CASE Experiment!FreeLost(x)
    <3>1. /\ a_pc'[x] = "done" /\ \A y \in Thread : y # x => a_pc'[y] = a_pc[y] /\ reg'[y] = reg[y]
          /\ reg'[x] = arg[x] /\ Making(x) /\ UNCHANGED <<word, arg>> /\ arg[x] = word
          /\ \A b \in Experiment!Addr : b # reg[x] => a_heap'[b] = a_heap[b]
      BY <1>0, <2>1, <2>7 DEF Experiment!FreeLost
    <3>2. word # NULL /\ word \in Experiment!Addr /\ a_heap'[word] = "initialized"
      BY <2>1, <2>7, <3>1 DEF Experiment!FreeLost
    <3>3. \A y \in Thread : Making(y)' => /\ y # x /\ Making(y) /\ reg'[y] = reg[y]
                                         /\ reg[y] \in Experiment!Addr
                                               /\ a_heap'[reg[y]] = a_heap[reg[y]]
      BY <2>1, <3>1
    <3>4. \A y \in Thread : a_pc'[y] \in {"publish", "lost", "done"} => y = x \/ a_pc'[y] = a_pc[y]
      BY <3>1
    <3>. QED  BY <2>1, <3>1, <3>2, <3>3, <3>4
  <2>. QED  BY <1>3, <2>2, <2>3, <2>4, <2>5, <2>6, <2>7
<1>. QED  BY <1>0, <1>1, <1>2, <1>3, StepOf DEF SingletonStep

\* The maximum is on its way into the counter.
LEMMA MaxInvStep ==
    ASSUME ExperimentAssumption, ExperimentInv, [Experiment!Next]_experimentVars
    PROVE  MaxInv'
<1>. USE ExperimentAssumption DEF ExperimentAssumption
<1>0. TypeInv /\ MaxInv
  BY DEF ExperimentInv
<1>1. CASE UNCHANGED experimentVars
  BY <1>0, <1>1 DEF experimentVars, MaxInv
<1>2. CASE exp' = exp /\ exp # "max"
  BY <1>2 DEF MaxInv
<1>3. ASSUME exp' = exp, exp = "max", NEW x \in Thread,
             Experiment!MaxLoad(x) \/ Experiment!MaxSwap(x) \/ Experiment!MaxSwapFails(x)
      PROVE  MaxInv'
  <2>0. counter \in Nat /\ greatest \in Nat /\ exp \in Experiment!Counters
    BY <1>0, <1>3 DEF TypeInv, Experiment!Counters
  <2>1. /\ counter <= greatest
        /\ \A y \in Thread : a_pc[y] = "max_cas" =>
              reg[y] \in Nat /\ arg[y] \in Nat /\ reg[y] < arg[y] /\ arg[y] <= greatest
        /\ counter = greatest \/ \E y \in Thread : a_pc[y] = "max_cas" /\ arg[y] = greatest
    BY <1>0, <1>3 DEF MaxInv
  <2>2. ASSUME NEW given, NEW current,
               Experiment!MaxLoop(x, given, current), a_pc[x] \in {"load", "max_cas"}
        PROVE  /\ \A y \in Thread : y # x => a_pc'[y] = a_pc[y]
               /\ a_pc'[x] = "max_cas" <=> given > current
    <3>1. CASE given > current
      BY <1>0, <2>2, <3>1 DEF Experiment!MaxLoop, Experiment!Goto, TypeInv
    <3>2. CASE ~ (given > current)
      <4>1. /\ a_pc' = [a_pc EXCEPT ![x] = IF a_ops[x] = 1 THEN "done" ELSE Experiment!Start]
            /\ Experiment!Start # "max_cas"
        BY <1>0, <1>3, <2>0, <2>2, <3>2, OneMore, EndControl DEF Experiment!MaxLoop
      <4>. QED  BY <1>0, <3>2, <4>1 DEF TypeInv
    <3>. QED  BY <3>1, <3>2
  <2>3. CASE Experiment!MaxLoad(x)
    <3>1. PICK given \in 1 .. MaxValue :
             /\ a_pc[x] = "load"
             /\ arg' = [arg EXCEPT ![x] = given] /\ Experiment!SetReg(x, counter)
             /\ greatest' = IF given > greatest THEN given ELSE greatest
             /\ Experiment!MaxLoop(x, given, counter)
             /\ UNCHANGED <<exp, counter, word, a_heap>>
      BY <2>3 DEF Experiment!MaxLoad
    <3>2. /\ \A y \in Thread : y # x => a_pc'[y] = a_pc[y]
          /\ a_pc'[x] = "max_cas" <=> given > counter
      BY <2>2, <3>1
    <3>3. /\ arg'[x] = given /\ reg'[x] = counter /\ given \in Nat
          /\ \A y \in Thread : y # x => arg'[y] = arg[y] /\ reg'[y] = reg[y]
      BY <1>0, <3>1 DEF Experiment!SetReg, TypeInv
    <3>4. greatest' \in Nat /\ greatest' >= greatest /\ greatest' >= given /\ counter' = counter
          /\ greatest' \in {greatest, given}
      BY <2>0, <3>1, <3>3
    <3>5. /\ counter' <= greatest'
          /\ \A y \in Thread : a_pc'[y] = "max_cas" =>
                reg'[y] \in Nat /\ arg'[y] \in Nat /\ reg'[y] < arg'[y] /\ arg'[y] <= greatest'
      BY <2>0, <2>1, <3>2, <3>3, <3>4
    <3>6. counter' = greatest' \/ \E y \in Thread : a_pc'[y] = "max_cas" /\ arg'[y] = greatest'
      <4>1. CASE greatest' = greatest
        <5>1. CASE counter = greatest
          BY <3>4, <4>1, <5>1
        <5>2. ASSUME NEW y \in Thread, a_pc[y] = "max_cas", arg[y] = greatest
              PROVE  \E z \in Thread : a_pc'[z] = "max_cas" /\ arg'[z] = greatest'
          <6>1. y # x
            BY <3>1, <5>2
          <6>. QED  BY <3>2, <3>3, <4>1, <5>2, <6>1
        <5>. QED  BY <2>1, <5>1, <5>2
      <4>2. CASE greatest' # greatest
        <5>1. greatest' = given /\ given > counter
          BY <2>0, <2>1, <3>3, <3>4, <4>2
        <5>. QED  BY <3>2, <3>3, <5>1
      <4>. QED  BY <4>1, <4>2
    <3>. QED  BY <3>5, <3>6 DEF MaxInv
  <2>4. CASE Experiment!MaxSwap(x)
    <3>1. /\ a_pc[x] = "max_cas" /\ counter = reg[x] /\ Experiment!EndIterations(x, 1)
          /\ counter' = arg[x] /\ UNCHANGED <<reg, arg, greatest>>
      BY <2>4 DEF Experiment!MaxSwap
    <3>2. /\ a_pc' = [a_pc EXCEPT ![x] = IF a_ops[x] = 1 THEN "done" ELSE Experiment!Start]
          /\ Experiment!Start # "max_cas"
      BY <1>0, <1>3, <2>0, <3>1, OneMore, EndControl
    <3>3. /\ \A y \in Thread : y # x => a_pc'[y] = a_pc[y]
          /\ a_pc'[x] # "max_cas"
      BY <1>0, <3>2 DEF TypeInv
    <3>4. arg[x] \in Nat /\ counter < arg[x] /\ arg[x] <= greatest
      BY <2>1, <3>1
    <3>5. counter' = greatest \/ \E y \in Thread : a_pc'[y] = "max_cas" /\ arg'[y] = greatest
      <4>1. CASE arg[x] = greatest
        BY <3>1, <4>1
      <4>2. CASE arg[x] # greatest
        <5>1. PICK y \in Thread : a_pc[y] = "max_cas" /\ arg[y] = greatest
          BY <2>0, <2>1, <3>4
        <5>. QED  BY <3>1, <3>3, <4>2, <5>1
      <4>. QED  BY <4>1, <4>2
    <3>. QED  BY <2>1, <3>1, <3>3, <3>4, <3>5 DEF MaxInv
  <2>5. CASE Experiment!MaxSwapFails(x)
    <3>1. /\ a_pc[x] = "max_cas" /\ Experiment!MaxLoop(x, arg[x], counter)
          /\ Experiment!SetReg(x, counter) /\ UNCHANGED <<counter, arg, greatest>>
      BY <2>5 DEF Experiment!MaxSwapFails
    <3>2. /\ \A y \in Thread : y # x => a_pc'[y] = a_pc[y]
          /\ a_pc'[x] = "max_cas" <=> arg[x] > counter
      BY <2>2, <3>1
    <3>3. reg'[x] = counter /\ \A y \in Thread : y # x => reg'[y] = reg[y]
      BY <1>0, <3>1 DEF Experiment!SetReg, TypeInv
    <3>4. arg[x] \in Nat /\ arg[x] <= greatest
      BY <2>1, <3>1
    <3>5. counter = greatest \/ \E y \in Thread : a_pc'[y] = "max_cas" /\ arg[y] = greatest
      BY <2>0, <2>1, <3>2, <3>4
    <3>6. \A y \in Thread : a_pc'[y] = "max_cas" =>
             reg'[y] \in Nat /\ arg[y] \in Nat /\ reg'[y] < arg[y] /\ arg[y] <= greatest
      BY <2>0, <2>1, <3>2, <3>3, <3>4
    <3>. QED  BY <2>1, <3>1, <3>5, <3>6 DEF MaxInv
  <2>. QED  BY <1>3, <2>3, <2>4, <2>5
<1>. QED  BY <1>0, <1>1, <1>2, <1>3, StepOf DEF MaxStep

-----------------------------------------------------------------------------
(* Counters.                                                               *)

\* The finished iterations are counted by a number, at most that of all.
LEMMA FinishedIsFinite ==
    ASSUME ExperimentAssumption
    PROVE  /\ IsFiniteSet(Finished) /\ Cardinality(Finished) \in Nat
           /\ Cardinality(Thread \X (1 .. ITERS)) = Cardinality(Thread) * ITERS
           /\ Cardinality(Thread) \in Nat
           /\ Cardinality(Finished) <= Cardinality(Thread) * ITERS
<1>. DEFINE all == Thread \X (1 .. ITERS)
<1>1. IsFiniteSet(1 .. ITERS) /\ Cardinality(1 .. ITERS) = ITERS
  BY FS_Interval DEF ExperimentAssumption
<1>2. IsFiniteSet(all) /\ Cardinality(all) = Cardinality(Thread) * ITERS
  BY <1>1, FS_Product DEF ExperimentAssumption
<1>3. Finished \in SUBSET all
  BY DEF Finished
<1>4. IsFiniteSet(Finished) /\ Cardinality(Finished) <= Cardinality(all)
  BY <1>2, <1>3, FS_Subset
<1>. QED  BY <1>2, <1>4, FS_CardinalityType DEF ExperimentAssumption

\* The iterations are as they were.
LEMMA SameFinished ==
    ASSUME a_ops' = a_ops, \A x \in Thread : a_pc'[x] = "unlock" <=> a_pc[x] = "unlock"
    PROVE  Finished' = Finished
BY DEF Finished

\* The end of k iterations, without a lock.
LEMMA FinishBlock ==
    ASSUME ExperimentAssumption, TypeInv, NEW x \in Thread, NEW k \in 1 .. a_ops[x],
           Experiment!EndIterations(x, k), exp' = exp,
           exp \in Experiment!Counters, a_pc[x] # "unlock"
    PROVE  Cardinality(Finished') = Cardinality(Finished) + k
<1>. DEFINE last == a_ops[x] - k + 1 .. a_ops[x]
            block == {x} \X last
<1>1. /\ a_ops' = [a_ops EXCEPT ![x] = a_ops[x] - k]
      /\ a_pc' = [a_pc EXCEPT ![x] = IF a_ops[x] = k THEN "done" ELSE Experiment!Start]
      /\ a_ops[x] \in 1 .. ITERS /\ a_ops[x] - k \in 0 .. ITERS - 1
      /\ Experiment!Start # "unlock"
  BY EndControl
<1>2. /\ a_ops'[x] = a_ops[x] - k /\ a_pc'[x] # "unlock"
      /\ \A y \in Thread : y # x => a_ops'[y] = a_ops[y] /\ a_pc'[y] = a_pc[y]
  BY <1>1 DEF TypeInv
<1>3. ITERS \in Nat /\ k \in Nat
  BY DEF ExperimentAssumption
<1>4. Finished' = Finished \union block
  <2>. SUFFICES ASSUME NEW y \in Thread, NEW j \in 1 .. ITERS
                PROVE  (j > a_ops'[y] \/ (j = a_ops'[y] /\ a_pc'[y] = "unlock"))
                         <=> \/ j > a_ops[y] \/ (j = a_ops[y] /\ a_pc[y] = "unlock")
                             \/ y = x /\ j \in last
    <3>1. last \subseteq 1 .. ITERS
      BY <1>1, <1>3
    <3>. HIDE DEF last
    <3>. QED  BY <3>1 DEF Finished
  <2>1. CASE y = x
    BY <1>1, <1>2, <1>3, <2>1
  <2>2. CASE y # x
    BY <1>2, <2>2
  <2>. QED  BY <2>1, <2>2
<1>5. Finished \intersect block = {}
  <2>. SUFFICES ASSUME NEW j \in 1 .. ITERS, j \in last
                PROVE  ~ (j > a_ops[x] \/ (j = a_ops[x] /\ a_pc[x] = "unlock"))
    <3>. HIDE DEF last
    <3>. QED  BY DEF Finished
  <2>. QED  BY <1>1, <1>3
<1>6. IsFiniteSet(last) /\ Cardinality(last) = k
  <2>1. a_ops[x] - k + 1 \in Int /\ a_ops[x] \in Int /\ ~ a_ops[x] - k + 1 > a_ops[x]
        /\ a_ops[x] - (a_ops[x] - k + 1) + 1 = k
    BY <1>1, <1>3
  <2>2. ASSUME NEW lo \in Int, NEW hi \in Int, ~ lo > hi
        PROVE  IsFiniteSet(lo .. hi) /\ Cardinality(lo .. hi) = hi - lo + 1
    BY <2>2, FS_Interval
  <2>. QED  BY <2>1, <2>2
<1>. HIDE DEF last
<1>7. IsFiniteSet({x}) /\ Cardinality({x}) = 1
  BY FS_Singleton
<1>8. IsFiniteSet(block) /\ Cardinality(block) = 1 * k
  BY <1>6, <1>7, FS_Product
<1>. HIDE DEF block
<1>9. IsFiniteSet(Finished) /\ Cardinality(Finished) \in Nat
  BY FinishedIsFinite
<1>10. Cardinality(Finished \union block)
         = Cardinality(Finished) + Cardinality(block) - Cardinality(Finished \intersect block)
  BY <1>8, <1>9, FS_Union
<1>11. Cardinality(Finished \intersect block) = 0
  BY <1>5, FS_EmptySet
<1>12. Cardinality(Finished \union block) = Cardinality(Finished) + k
  BY <1>3, <1>8, <1>9, <1>10, <1>11
<1>. QED  BY <1>4, <1>12

\* The increment inside the critical section.
LEMMA FinishLocked ==
    ASSUME ExperimentAssumption, TypeInv, NEW x \in Thread,
           Experiment!Goto(x, "unlock"), a_ops' = a_ops,
           exp \in Experiment!Counters, a_pc[x] \notin {"unlock", "done"}
    PROVE  Cardinality(Finished') = Cardinality(Finished) + 1
<1>1. a_ops[x] \in 1 .. ITERS
  BY OneMore
<1>2. a_pc'[x] = "unlock" /\ \A y \in Thread : y # x => a_pc'[y] = a_pc[y]
  BY DEF Experiment!Goto, TypeInv
<1>3. <<x, a_ops[x]>> \notin Finished /\ Finished' = Finished \union {<<x, a_ops[x]>>}
  <2>1. <<x, a_ops[x]>> \notin Finished
    BY <1>1 DEF Finished
  <2>2. ASSUME NEW y \in Thread, NEW j \in 1 .. ITERS
        PROVE  (j > a_ops[y] \/ (j = a_ops[y] /\ a_pc'[y] = "unlock"))
                 <=> \/ j > a_ops[y] \/ (j = a_ops[y] /\ a_pc[y] = "unlock")
                     \/ y = x /\ j = a_ops[x]
    BY <1>2
  <2>. QED  BY <1>1, <2>1, <2>2 DEF Finished
<1>. QED  BY <1>3, FinishedIsFinite, FS_AddElement

\* The end of the iteration after it.
LEMMA FinishUnlocked ==
    ASSUME ExperimentAssumption, TypeInv, NEW x \in Thread,
           Experiment!EndIterations(x, 1), exp' = exp,
           exp \in Experiment!Counters, a_pc[x] = "unlock"
    PROVE  Finished' = Finished
<1>1. /\ a_ops' = [a_ops EXCEPT ![x] = a_ops[x] - 1]
      /\ a_pc' = [a_pc EXCEPT ![x] = IF a_ops[x] = 1 THEN "done" ELSE Experiment!Start]
      /\ a_ops[x] \in 1 .. ITERS
      /\ Experiment!Start # "unlock"
  BY EndControl, OneMore
<1>2. /\ a_ops'[x] = a_ops[x] - 1 /\ a_pc'[x] # "unlock"
      /\ \A y \in Thread : y # x => a_ops'[y] = a_ops[y] /\ a_pc'[y] = a_pc[y]
  BY <1>1 DEF TypeInv
<1>3. ASSUME NEW y \in Thread, NEW j \in 1 .. ITERS
      PROVE  (j > a_ops'[y] \/ (j = a_ops'[y] /\ a_pc'[y] = "unlock"))
               <=> (j > a_ops[y] \/ (j = a_ops[y] /\ a_pc[y] = "unlock"))
  <2>1. CASE y = x
    BY <1>1, <1>2, <2>1
  <2>2. CASE y # x
    BY <1>2, <2>2
  <2>. QED  BY <2>1, <2>2
<1>. QED  BY <1>3 DEF Finished

\* With a lock or an atomic no increment is lost.
LEMMA CounterInvStep ==
    ASSUME ExperimentAssumption, ExperimentInv, [Experiment!Next]_experimentVars
    PROVE  CounterInv'
<1>. USE ExperimentAssumption
<1>0. TypeInv /\ CounterInv /\ LockInv
  BY DEF ExperimentInv
<1>1. CASE UNCHANGED experimentVars
  <2>1. Finished' = Finished
    BY <1>1 DEF experimentVars, Finished
  <2>. QED  BY <1>0, <1>1, <2>1 DEF experimentVars, CounterInv
<1>2. CASE exp' = exp /\ exp \notin {"fetch_add", "mutex", "spin"}
  BY <1>2 DEF CounterInv
<1>3. CASE exp' = exp /\ exp = "fetch_add" /\ FetchAddStep
  <2>1. PICK x \in Thread : Experiment!FetchAdd(x)
    BY <1>3 DEF FetchAddStep
  <2>2. counter' = counter + 1 /\ Experiment!EndIterations(x, 1) /\ a_pc[x] = "add"
    BY <1>3, <2>1 DEF Experiment!FetchAdd
  <2>3. exp \in Experiment!Counters /\ 1 \in 1 .. a_ops[x]
    BY <1>0, <1>3, <2>2, OneMore DEF Experiment!Counters
  <2>4. Cardinality(Finished') = Cardinality(Finished) + 1
    BY <1>0, <1>3, <2>2, <2>3, FinishBlock
  <2>5. /\ a_pc' = [a_pc EXCEPT ![x] = IF a_ops[x] = 1 THEN "done" ELSE Experiment!Start]
        /\ Experiment!Start # "write"
    BY <1>0, <1>3, <2>2, <2>3, EndControl
  <2>6. \A y \in Thread : a_pc'[y] # "write"
    BY <1>0, <1>3, <2>5 DEF TypeInv, Labels
  <2>. QED  BY <1>0, <1>3, <2>2, <2>4, <2>6 DEF CounterInv
<1>4. CASE exp' = exp /\ exp = "mutex" /\ MutexStep
  <2>0. /\ exp \in Experiment!Counters /\ counter = Cardinality(Finished)
        /\ \A y \in Thread : a_pc[y] = "write" => reg[y] = counter
        /\ \A x, y \in Thread : a_pc[x] \in Experiment!Guarded /\ a_pc[y] \in Experiment!Guarded
              => x = y
    BY <1>0, <1>4 DEF Experiment!Counters, CounterInv, LockInv
  <2>1. ASSUME NEW x \in Thread, Experiment!MutexLock(x)
        PROVE  CounterInv'
    <3>1. /\ \A y \in Thread : a_pc'[y] = "unlock" <=> a_pc[y] = "unlock"
          /\ \A y \in Thread : a_pc'[y] = "write" <=> a_pc[y] = "write"
          /\ UNCHANGED <<a_ops, counter, reg>>
      BY <1>0, <2>1 DEF Experiment!MutexLock, Experiment!Goto, TypeInv
    <3>. QED  BY <2>0, <3>1, SameFinished DEF CounterInv
  <2>2. ASSUME NEW x \in Thread, Experiment!Read(x)
        PROVE  CounterInv'
    <3>1. /\ \A y \in Thread : a_pc'[y] = "unlock" <=> a_pc[y] = "unlock"
          /\ \A y \in Thread : a_pc'[y] = "write" => reg'[y] = counter
          /\ UNCHANGED <<a_ops, counter>>
      BY <1>0, <2>0, <2>2 DEF Experiment!Read, Experiment!Goto, Experiment!SetReg, TypeInv
    <3>. QED  BY <2>0, <3>1, SameFinished DEF CounterInv
  <2>3. ASSUME NEW x \in Thread, Experiment!Write(x)
        PROVE  CounterInv'
    <3>1. /\ a_pc[x] = "write" /\ counter' = reg[x] + 1 /\ Experiment!Goto(x, "unlock")
          /\ a_ops' = a_ops
          /\ UNCHANGED reg
      BY <1>4, <2>3 DEF Experiment!Write
    <3>2. Cardinality(Finished') = Cardinality(Finished) + 1
      BY <1>0, <2>0, <3>1, FinishLocked
    <3>3. \A y \in Thread : a_pc'[y] # "write"
      BY <1>0, <2>0, <3>1 DEF Experiment!Goto, TypeInv, Experiment!Guarded
    <3>. QED  BY <2>0, <3>1, <3>2, <3>3 DEF CounterInv
  <2>4. ASSUME NEW x \in Thread, Experiment!Unlock(x)
        PROVE  CounterInv'
    <3>1. a_pc[x] = "unlock" /\ Experiment!EndIterations(x, 1) /\ UNCHANGED <<counter, reg>>
      BY <2>4 DEF Experiment!Unlock
    <3>2. Finished' = Finished
      BY <1>0, <1>4, <2>0, <3>1, FinishUnlocked
    <3>3. /\ a_pc' = [a_pc EXCEPT ![x] = IF a_ops[x] = 1 THEN "done" ELSE Experiment!Start]
          /\ Experiment!Start # "write"
      BY <1>0, <1>4, <2>0, <3>1, OneMore, EndControl
    <3>4. \A y \in Thread : a_pc'[y] = "write" => a_pc[y] = "write"
      BY <1>0, <3>3 DEF TypeInv
    <3>. QED  BY <2>0, <3>1, <3>2, <3>4 DEF CounterInv
  <2>. QED  BY <1>4, <2>1, <2>2, <2>3, <2>4 DEF MutexStep
<1>5. CASE exp' = exp /\ exp = "spin" /\ SpinStep
  <2>0. /\ exp \in Experiment!Counters /\ counter = Cardinality(Finished)
        /\ \A y \in Thread : a_pc[y] # "write"
    BY <1>0, <1>5 DEF Experiment!Counters, CounterInv, TypeInv, Labels
  <2>1. ASSUME NEW x \in Thread, Experiment!SpinLock(x) \/ Experiment!SpinFails(x)
        PROVE  CounterInv'
    <3>1. /\ \A y \in Thread : a_pc'[y] = "unlock" <=> a_pc[y] = "unlock"
          /\ \A y \in Thread : a_pc'[y] # "write"
          /\ UNCHANGED <<a_ops, counter>>
      BY <1>0, <2>0, <2>1 DEF Experiment!SpinLock, Experiment!SpinFails, Experiment!Goto, TypeInv
    <3>. QED  BY <2>0, <3>1, SameFinished DEF CounterInv
  <2>2. ASSUME NEW x \in Thread, Experiment!FetchAdd(x)
        PROVE  CounterInv'
    <3>1. a_pc[x] = "add" /\ counter' = counter + 1 /\ Experiment!Goto(x, "unlock")
          /\ a_ops' = a_ops
      BY <1>5, <2>2 DEF Experiment!FetchAdd
    <3>2. Cardinality(Finished') = Cardinality(Finished) + 1
      BY <1>0, <2>0, <3>1, FinishLocked
    <3>3. \A y \in Thread : a_pc'[y] # "write"
      BY <1>0, <2>0, <3>1 DEF Experiment!Goto, TypeInv
    <3>. QED  BY <2>0, <3>1, <3>2, <3>3 DEF CounterInv
  <2>3. ASSUME NEW x \in Thread, Experiment!Unlock(x)
        PROVE  CounterInv'
    <3>1. a_pc[x] = "unlock" /\ Experiment!EndIterations(x, 1) /\ UNCHANGED <<counter, reg>>
      BY <2>3 DEF Experiment!Unlock
    <3>2. Finished' = Finished
      BY <1>0, <1>5, <2>0, <3>1, FinishUnlocked
    <3>3. /\ a_pc' = [a_pc EXCEPT ![x] = IF a_ops[x] = 1 THEN "done" ELSE Experiment!Start]
          /\ Experiment!Start # "write"
      BY <1>0, <1>5, <2>0, <3>1, OneMore, EndControl
    <3>4. \A y \in Thread : a_pc'[y] # "write"
      BY <1>0, <2>0, <3>3 DEF TypeInv
    <3>. QED  BY <2>0, <3>1, <3>2, <3>4 DEF CounterInv
  <2>. QED  BY <1>5, <2>1, <2>2, <2>3 DEF SpinStep
<1>. QED  BY <1>0, <1>1, <1>2, <1>3, <1>4, <1>5, StepOf

\* Without protection, some increments are lost, but not nearly all.
LEMMA PlainInvStep ==
    ASSUME ExperimentAssumption, ExperimentInv, [Experiment!Next]_experimentVars
    PROVE  PlainInv'
<1>. USE ExperimentAssumption
<1>0. TypeInv /\ PlainInv
  BY DEF ExperimentInv
<1>1. CASE UNCHANGED experimentVars
  <2>1. Finished' = Finished
    BY <1>1 DEF experimentVars, Finished
  <2>. QED  BY <1>0, <1>1, <2>1 DEF experimentVars, PlainInv, Experiment!AllDone
<1>2. CASE exp' = exp /\ exp # "plain"
  BY <1>2 DEF PlainInv
<1>3. ASSUME exp' = exp, exp = "plain", NEW x \in Thread, Experiment!Read(x) \/ Experiment!Write(x)
      PROVE  PlainInv'
  <2>. DEFINE least == IF ITERS > 1 THEN 2 ELSE 1
  <2>1. /\ counter <= Cardinality(Finished)
        /\ \A y \in Thread :
              /\ a_ops[y] < ITERS => counter >= 1
              /\ a_pc[y] = "write" => /\ reg[y] \in Nat /\ reg[y] <= Cardinality(Finished)
                                      /\ a_ops[y] < ITERS => reg[y] >= 1
    BY <1>0, <1>3 DEF PlainInv
  <2>2. /\ exp \in Experiment!Counters /\ counter \in Nat /\ Cardinality(Finished) \in Nat
        /\ ITERS \in Nat /\ \A y \in Thread : a_ops[y] \in 0 .. ITERS
    BY <1>0, <1>3, FinishedIsFinite DEF Experiment!Counters, TypeInv, ExperimentAssumption
  <2>3. CASE Experiment!Read(x)
    <3>1. /\ a_pc'[x] = "write" /\ reg'[x] = counter
          /\ \A y \in Thread : y # x => a_pc'[y] = a_pc[y] /\ reg'[y] = reg[y]
          /\ UNCHANGED <<a_ops, counter>> /\ a_pc[x] = "read"
      BY <1>0, <2>3 DEF Experiment!Read, Experiment!Goto, Experiment!SetReg, TypeInv
    <3>2. Finished' = Finished
      BY <3>1, SameFinished
    <3>3. ~ Experiment!AllDone'
      BY <3>1 DEF Experiment!AllDone
    <3>. QED  BY <2>1, <2>2, <3>1, <3>2, <3>3 DEF PlainInv
  <2>4. CASE Experiment!Write(x)
    <3>1. PICK k \in 1 .. a_ops[x] :
             a_pc[x] = "write" /\ counter' = reg[x] + k /\ Experiment!EndIterations(x, k)
                   /\ UNCHANGED reg
      BY <1>3, <2>4 DEF Experiment!Write
    <3>2. /\ a_ops' = [a_ops EXCEPT ![x] = a_ops[x] - k]
          /\ a_pc' = [a_pc EXCEPT ![x] = IF a_ops[x] = k THEN "done" ELSE Experiment!Start]
          /\ a_ops[x] \in 1 .. ITERS /\ Experiment!Start \notin {"done", "write"}
      BY <1>0, <1>3, <2>2, <3>1, EndControl
    <3>3. /\ a_ops'[x] = a_ops[x] - k /\ a_pc'[x] # "write" /\ (a_pc'[x] = "done" => a_ops[x] = k)
          /\ \A y \in Thread : y # x => a_ops'[y] = a_ops[y] /\ a_pc'[y] = a_pc[y]
      BY <1>0, <3>2 DEF TypeInv
    <3>4. Cardinality(Finished') = Cardinality(Finished) + k
      BY <1>0, <1>3, <2>2, <3>1, FinishBlock
    <3>5. /\ k \in Nat /\ k >= 1 /\ reg[x] \in Nat /\ reg[x] <= Cardinality(Finished)
          /\ a_ops[x] < ITERS => reg[x] >= 1
      BY <2>1, <2>2, <3>1
    <3>6. counter' <= Cardinality(Finished') /\ counter' >= 1
      BY <2>2, <3>1, <3>4, <3>5
    <3>7. \A y \in Thread : a_pc'[y] = "write" =>
             /\ reg[y] \in Nat /\ reg[y] <= Cardinality(Finished')
             /\ a_ops'[y] < ITERS => reg[y] >= 1
      BY <2>1, <2>2, <3>3, <3>4, <3>5
    <3>8. Experiment!AllDone' => counter' >= least
      <4>1. SUFFICES ASSUME a_ops[x] = k PROVE counter' >= least
        BY <3>3 DEF Experiment!AllDone
      <4>. QED  BY <2>2, <3>1, <3>2, <3>5, <4>1
    <3>. QED  BY <3>1, <3>6, <3>7, <3>8 DEF PlainInv
  <2>. QED  BY <1>3, <2>3, <2>4
<1>. QED  BY <1>0, <1>1, <1>2, <1>3, StepOf DEF PlainStep

-----------------------------------------------------------------------------
(* What the experiments' invariant is for.                                 *)

\* The initial states satisfy the invariant.
LEMMA ExperimentInit ==
    ASSUME ExperimentAssumption, Experiment!Init
    PROVE  ExperimentInv
<1>. USE ExperimentAssumption DEF ExperimentAssumption
<1>1. /\ exp \in Experiment!Counters \union {"publish", "singleton"}
      /\ counter = 0 /\ word = IF exp = "singleton" THEN NULL ELSE 0
      /\ a_ops = [x \in Thread |-> ITERS] /\ reg = [x \in Thread |-> 0] /\ greatest = 0
  BY DEF Experiment!Init
<1>2. exp # "publish" => a_pc = [x \in Thread |-> Experiment!Start]
  BY DEF Experiment!Init
<1>3. exp = "publish" => a_pc \in [Thread -> {"fill", "wait"}]
  BY DEF Experiment!Init
<1>4. exp # "publish" =>
         /\ Experiment!Start \in Labels(exp)
               /\ Experiment!Start \notin {"done", "write", "unlock", "max_cas"}
         /\ Experiment!Start \notin {"initialize", "publish", "lost"}
         /\ exp \in {"mutex", "spin"} => Experiment!Start \notin Experiment!Guarded
  BY <1>1 DEF Experiment!Start, Labels, Experiment!Counters, Experiment!Guarded
<1>5. a_pc \in [Thread -> Labels(exp)]
  BY <1>2, <1>3, <1>4 DEF Labels
<1>6. TypeInv
  BY <1>1, <1>2, <1>4, <1>5 DEF Experiment!Init, TypeInv, Word, Experiment!Counters
<1>7. LockInv
  BY <1>1, <1>2, <1>4 DEF LockInv
<1>8. exp # "publish" => Finished = {} /\ Cardinality(Finished) = 0 /\ ~ Experiment!AllDone
  <2>1. exp # "publish" => \A x \in Thread : a_pc[x] \notin {"done", "unlock"} /\ a_ops[x] = ITERS
    BY <1>1, <1>2, <1>4
  <2>2. exp # "publish" => Finished = {}
    BY <2>1 DEF Finished
  <2>. QED  BY <2>1, <2>2, FS_EmptySet DEF Experiment!AllDone
<1>9. CounterInv /\ PlainInv
  BY <1>1, <1>2, <1>4, <1>8 DEF CounterInv, PlainInv, Experiment!Counters
<1>10. MaxInv
  BY <1>1, <1>2, <1>4 DEF MaxInv
<1>11. PublishInv
  BY <1>1, <1>3 DEF PublishInv
<1>12. SingletonInv
  BY <1>1, <1>2, <1>4 DEF SingletonInv, Making
<1>. QED  BY <1>6, <1>7, <1>9, <1>10, <1>11, <1>12 DEF ExperimentInv

\* Every step keeps the invariant.
LEMMA ExperimentStep ==
    ASSUME ExperimentAssumption, ExperimentInv, [Experiment!Next]_experimentVars
    PROVE  ExperimentInv'
<1>1. TypeInv'
  BY TypeInvStep DEF ExperimentInv
<1>. QED  BY <1>1, LockInvStep, CounterInvStep, PlainInvStep, MaxInvStep, PublishInvStep,
             SingletonInvStep DEF ExperimentInv

\* The properties follow from the invariant.
LEMMA ExperimentShows ==
    ASSUME ExperimentAssumption, ExperimentInv
    PROVE  Experiment!CriticalSection /\ Experiment!PublishedObjects /\ Experiment!Totals
<1>. USE ExperimentAssumption DEF ExperimentAssumption
<1>1. Experiment!CriticalSection
  BY DEF ExperimentInv, LockInv, Experiment!CriticalSection
<1>2. Experiment!PublishedObjects
  BY DEF ExperimentInv, PublishInv, SingletonInv, Experiment!PublishedObjects
<1>3. ASSUME Experiment!AllDone
      PROVE  /\ exp \in {"fetch_add", "mutex", "spin"} => counter = Cardinality(Thread) * ITERS
             /\ exp = "max" => counter = greatest
             /\ exp = "plain" =>
                  counter \in (IF ITERS > 1 THEN 2 ELSE 1) .. Cardinality(Thread) * ITERS
  <2>1. exp \in Experiment!Counters => \A x \in Thread : a_ops[x] = 0
    BY <1>3 DEF ExperimentInv, TypeInv, Experiment!AllDone
  <2>2. exp \in Experiment!Counters => Finished = Thread \X (1 .. ITERS)
    BY <2>1 DEF Finished
  <2>3. exp \in {"fetch_add", "mutex", "spin"} => counter = Cardinality(Thread) * ITERS
    BY <2>2, FinishedIsFinite DEF ExperimentInv, CounterInv, Experiment!Counters
  <2>4. exp = "max" => counter = greatest
    BY <1>3 DEF ExperimentInv, MaxInv, Experiment!AllDone
  <2>5. exp = "plain" => counter >= (IF ITERS > 1 THEN 2 ELSE 1) /\ counter <= Cardinality(Finished)
    BY <1>3 DEF ExperimentInv, PlainInv
  <2>6. /\ counter \in Nat /\ Cardinality(Finished) \in Nat /\ Cardinality(Thread) \in Nat
        /\ Cardinality(Finished) <= Cardinality(Thread) * ITERS
    BY FinishedIsFinite DEF ExperimentInv, TypeInv
  <2>. DEFINE total == Cardinality(Thread) * ITERS
  <2>7. total \in Nat
    BY <2>6
  <2>8. exp = "plain" => counter \in (IF ITERS > 1 THEN 2 ELSE 1) .. total
    <3>1. Cardinality(Finished) <= total
      BY <2>6
    <3>. HIDE DEF total
    <3>. QED  BY <2>5, <2>6, <2>7, <3>1
  <2>. QED  BY <2>3, <2>4, <2>8
<1>4. Experiment!Totals
  BY <1>3, ExperimentConstants DEF Experiment!Totals
<1>. QED  BY <1>1, <1>2, <1>4

\* The mutex and the spin lock exclude each other's holders, publication shows
\* complete objects, and the totals are right, for any number of threads
\* (atomics_basics.c, tsan_demo.c and memory_ordering.c), in the experiments alone.
THEOREM ExperimentsAreRight ==
  Experiment!Spec
    => [](Experiment!CriticalSection /\ Experiment!PublishedObjects /\ Experiment!Totals)
<1>1. Experiment!Init => ExperimentInv
  BY ExperimentInit, ExperimentConstants
<1>2. ExperimentInv /\ [Experiment!Next]_experimentVars => ExperimentInv'
  BY ExperimentStep, ExperimentConstants
<1>3. ExperimentInv
        => Experiment!CriticalSection /\ Experiment!PublishedObjects /\ Experiment!Totals
  BY ExperimentShows, ExperimentConstants
<1>. QED  BY <1>1, <1>2, <1>3, PTL DEF Experiment!Spec, Experiment!vars, experimentVars

-----------------------------------------------------------------------------
(* The other programs: their proofs, with the variables they have here.    *)

TaggedProofs == INSTANCE TaggedStackProofs WITH
    Thread <- Pushers, next <- t_next, pc <- t_pc, node <- t_node

QueueProofs == INSTANCE LockFreeQueueProofs WITH
    Dequeuers <- Poppers, OPS <- QUEUE_OPS,
    head <- q_head, tail <- q_tail, next <- q_next, heap <- q_heap, pc <- q_pc,
    ops <- q_ops, node <- q_node, old_head <- q_old_head

\* The tagged stack takes the steps its proofs are about, if it is what runs.
LEMMA TaggedStep ==
    ASSUME [Tagged!Next]_taggedVars
    PROVE  [TaggedProofs!Next]_(TaggedProofs!vars)
<1>1. CASE UNCHANGED taggedVars
  BY <1>1 DEF taggedVars, TaggedProofs!vars
<1>2. \A x \in Pushers : Tagged!CallPush(x) => TaggedProofs!CallPush(x)
  BY DEF Tagged!CallPush, TaggedProofs!CallPush, Tagged!Goto, TaggedProofs!Goto
<1>3. \A x \in Pushers : Tagged!CallPop(x) => TaggedProofs!CallPop(x)
  BY DEF Tagged!CallPop, TaggedProofs!CallPop, Tagged!Goto, TaggedProofs!Goto
<1>4. \A x \in Pushers : Tagged!PushLoad(x) => TaggedProofs!PushLoad(x)
  BY DEF Tagged!PushLoad, TaggedProofs!PushLoad, Tagged!LoadWord,
         TaggedProofs!LoadWord, Tagged!Goto, TaggedProofs!Goto
<1>5. \A x \in Pushers : Tagged!PushLink(x) => TaggedProofs!PushLink(x)
  BY DEF Tagged!PushLink, TaggedProofs!PushLink, Tagged!MAKE_TV, TaggedProofs!MAKE_TV,
         Tagged!Goto, TaggedProofs!Goto
<1>6. \A x \in Pushers : Tagged!PushCas(x) => TaggedProofs!PushCas(x)
  BY DEF Tagged!PushCas, TaggedProofs!PushCas, Tagged!Install, TaggedProofs!Install,
         Tagged!Goto, TaggedProofs!Goto
<1>7. \A x \in Pushers : Tagged!PushCasFails(x) => TaggedProofs!PushCasFails(x)
  BY DEF Tagged!PushCasFails, TaggedProofs!PushCasFails, Tagged!Goto,
         TaggedProofs!Goto
<1>8. \A x \in Pushers : Tagged!PopLoad(x) => TaggedProofs!PopLoad(x)
  BY DEF Tagged!PopLoad, TaggedProofs!PopLoad, Tagged!LoadWord, TaggedProofs!LoadWord,
         Tagged!Goto, TaggedProofs!Goto
<1>9. \A x \in Pushers : Tagged!PopNext(x) => TaggedProofs!PopNext(x)
  BY DEF Tagged!PopNext, TaggedProofs!PopNext, Tagged!MAKE_TV, TaggedProofs!MAKE_TV,
         Tagged!Goto, TaggedProofs!Goto
<1>10. \A x \in Pushers : Tagged!PopCas(x) => TaggedProofs!PopCas(x)
  BY DEF Tagged!PopCas, TaggedProofs!PopCas, Tagged!Install, TaggedProofs!Install,
         Tagged!Goto, TaggedProofs!Goto
<1>11. \A x \in Pushers : Tagged!PopCasFails(x) => TaggedProofs!PopCasFails(x)
  BY DEF Tagged!PopCasFails, TaggedProofs!PopCasFails, Tagged!Goto, TaggedProofs!Goto
<1>. QED  BY <1>1, <1>2, <1>3, <1>4, <1>5, <1>6, <1>7, <1>8, <1>9, <1>10, <1>11
         DEF Tagged!Next, TaggedProofs!Next, Tagged!Push, TaggedProofs!Push, Tagged!Pop,
             TaggedProofs!Pop

LEMMA TaggedInit ==
    ASSUME MCInit, unit = "tagged"
    PROVE  TaggedProofs!Init
<1>1. Tagged!EmptyStack /\ owner \in [Node -> Pushers]
  BY DEF MCInit
<1>2. TaggedProofs!EmptyStack
  BY <1>1 DEF Tagged!EmptyStack, TaggedProofs!EmptyStack, Tagged!MAKE_TV, TaggedProofs!MAKE_TV
<1>. QED  BY <1>1, <1>2 DEF TaggedProofs!Init

\* The queue is the one its proofs are about.
LEMMA QueueSame ==
    /\ Queue!Addr = QueueProofs!Addr
    /\ Queue!Value = QueueProofs!Value
    /\ Queue!Thread = QueueProofs!Thread
    /\ Queue!Nodes = QueueProofs!Nodes
    /\ Queue!Contents = QueueProofs!Contents
    /\ Queue!Contents' = QueueProofs!Contents'
    /\ \A c \in Poppers : Queue!Taken(c) = QueueProofs!Taken(c)
    /\ \A c \in Poppers : Queue!Taken(c)' = QueueProofs!Taken(c)'
    /\ \A a : Queue!InUse(a) <=> QueueProofs!InUse(a)
<1>1. Queue!Addr = QueueProofs!Addr
  BY Zenon DEF Queue!Addr, QueueProofs!Addr, Queue!Cardinality, QueueProofs!Cardinality
<1>2. Queue!Value = QueueProofs!Value /\ Queue!Thread = QueueProofs!Thread
  BY DEF Queue!Value, QueueProofs!Value, Queue!Thread, QueueProofs!Thread
<1>3. Queue!Nodes = QueueProofs!Nodes
  BY Zenon DEF Queue!Nodes, QueueProofs!Nodes, Queue!Chain, QueueProofs!Chain,
               Queue!Cardinality, QueueProofs!Cardinality
<1>4. Queue!Nodes' = QueueProofs!Nodes'
  BY Zenon DEF Queue!Nodes, QueueProofs!Nodes, Queue!Chain, QueueProofs!Chain,
               Queue!Cardinality, QueueProofs!Cardinality
<1>5. Queue!Contents = QueueProofs!Contents
  BY Zenon, <1>3 DEF Queue!Contents, QueueProofs!Contents
<1>6. Queue!Contents' = QueueProofs!Contents'
  BY Zenon, <1>4 DEF Queue!Contents, QueueProofs!Contents
<1>7. \A c \in Poppers : Queue!Taken(c) = QueueProofs!Taken(c)
  BY DEF Queue!Taken, QueueProofs!Taken
<1>8. \A c \in Poppers : Queue!Taken(c)' = QueueProofs!Taken(c)'
  BY DEF Queue!Taken, QueueProofs!Taken
<1>9. \A a : Queue!InUse(a) <=> QueueProofs!InUse(a)
  BY DEF Queue!InUse, QueueProofs!InUse
<1>. QED  BY <1>1, <1>2, <1>3, <1>5, <1>6, <1>7, <1>8, <1>9

\* The queue's steps are those its proofs are about.
LEMMA QueueStep ==
    ASSUME [Queue!MCNext]_queueVars
    PROVE  [QueueProofs!MCNext]_<<QueueProofs!vars, sawEmpty, stale>>
<1>1. CASE UNCHANGED queueVars
  BY <1>1 DEF queueVars, QueueProofs!vars, QueueProofs!nodeVars, QueueProofs!localVars
<1>2. Queue!Addr = QueueProofs!Addr /\ Queue!Thread = QueueProofs!Thread
  BY QueueSame
<1>3. \A x \in Enqueuers : Queue!Malloc(x) => QueueProofs!Malloc(x)
  BY <1>2 DEF Queue!Malloc, QueueProofs!Malloc, Queue!Allocatable, QueueProofs!Allocatable,
              Queue!Goto, QueueProofs!Goto, Queue!nodeVars, QueueProofs!nodeVars,
              Queue!localVars, QueueProofs!localVars
<1>4. \A x \in Enqueuers : Queue!EnqClear(x) => QueueProofs!EnqClear(x)
  BY DEF Queue!EnqClear, QueueProofs!EnqClear, Queue!Goto, QueueProofs!Goto, Queue!nodeVars,
         QueueProofs!nodeVars, Queue!localVars, QueueProofs!localVars
<1>5. \A x \in Enqueuers : Queue!EnqTail(x) => QueueProofs!EnqTail(x)
  BY DEF Queue!EnqTail, QueueProofs!EnqTail, Queue!Goto, QueueProofs!Goto, Queue!nodeVars,
         QueueProofs!nodeVars, Queue!localVars, QueueProofs!localVars
<1>6. \A x \in Enqueuers : Queue!EnqNext(x) => QueueProofs!EnqNext(x)
  BY DEF Queue!EnqNext, QueueProofs!EnqNext, Queue!Goto, QueueProofs!Goto, Queue!nodeVars,
         QueueProofs!nodeVars, Queue!localVars, QueueProofs!localVars
<1>7. \A x \in Enqueuers : Queue!EnqCheck(x) => QueueProofs!EnqCheck(x)
  BY DEF Queue!EnqCheck, QueueProofs!EnqCheck, Queue!Goto, QueueProofs!Goto, Queue!nodeVars,
         QueueProofs!nodeVars, Queue!localVars, QueueProofs!localVars
<1>8. \A x \in Enqueuers : Queue!EnqLink(x) => QueueProofs!EnqLink(x)
  BY DEF Queue!EnqLink, QueueProofs!EnqLink, Queue!Goto, QueueProofs!Goto, Queue!nodeVars,
         QueueProofs!nodeVars, Queue!localVars, QueueProofs!localVars
<1>9. \A x \in Enqueuers : Queue!EnqLinkFails(x) => QueueProofs!EnqLinkFails(x)
  BY DEF Queue!EnqLinkFails, QueueProofs!EnqLinkFails, Queue!Goto, QueueProofs!Goto,
         Queue!nodeVars, QueueProofs!nodeVars, Queue!localVars, QueueProofs!localVars
<1>10. \A x \in Enqueuers : Queue!EnqHelp(x) => QueueProofs!EnqHelp(x)
  BY DEF Queue!EnqHelp, QueueProofs!EnqHelp, Queue!SwingTail, QueueProofs!SwingTail,
         Queue!Goto, QueueProofs!Goto, Queue!nodeVars, QueueProofs!nodeVars,
         Queue!localVars, QueueProofs!localVars
<1>11. \A x \in Enqueuers : Queue!EnqSwing(x) => QueueProofs!EnqSwing(x)
  BY DEF Queue!EnqSwing, QueueProofs!EnqSwing, Queue!SwingTail, QueueProofs!SwingTail,
         Queue!EndIteration, QueueProofs!EndIteration, Queue!LoopHead, QueueProofs!LoopHead,
         Queue!Goto, QueueProofs!Goto, Queue!nodeVars, QueueProofs!nodeVars,
         Queue!localVars, QueueProofs!localVars
<1>12. \A x \in Poppers : Queue!DeqHead(x) => QueueProofs!DeqHead(x)
  BY DEF Queue!DeqHead, QueueProofs!DeqHead, Queue!Goto, QueueProofs!Goto, Queue!nodeVars,
         QueueProofs!nodeVars, Queue!localVars, QueueProofs!localVars
<1>13. \A x \in Poppers : Queue!DeqTail(x) => QueueProofs!DeqTail(x)
  BY DEF Queue!DeqTail, QueueProofs!DeqTail, Queue!Goto, QueueProofs!Goto, Queue!nodeVars,
         QueueProofs!nodeVars, Queue!localVars, QueueProofs!localVars
<1>14. \A x \in Poppers : Queue!DeqNext(x) => QueueProofs!DeqNext(x)
  BY DEF Queue!DeqNext, QueueProofs!DeqNext, Queue!Goto, QueueProofs!Goto, Queue!nodeVars,
         QueueProofs!nodeVars, Queue!localVars, QueueProofs!localVars
<1>15. \A x \in Poppers : Queue!DeqCheck(x) => QueueProofs!DeqCheck(x)
  BY DEF Queue!DeqCheck, QueueProofs!DeqCheck, Queue!Goto, QueueProofs!Goto, Queue!nodeVars,
         QueueProofs!nodeVars, Queue!localVars, QueueProofs!localVars
<1>16. \A x \in Poppers : Queue!DeqHelp(x) => QueueProofs!DeqHelp(x)
  BY DEF Queue!DeqHelp, QueueProofs!DeqHelp, Queue!SwingTail, QueueProofs!SwingTail,
         Queue!Goto, QueueProofs!Goto, Queue!nodeVars, QueueProofs!nodeVars,
         Queue!localVars, QueueProofs!localVars
<1>17. \A x \in Poppers : Queue!DeqValue(x) => QueueProofs!DeqValue(x)
  BY DEF Queue!DeqValue, QueueProofs!DeqValue, Queue!Goto, QueueProofs!Goto, Queue!nodeVars,
         QueueProofs!nodeVars, Queue!localVars, QueueProofs!localVars
<1>18. \A x \in Poppers : Queue!DeqCas(x) => QueueProofs!DeqCas(x)
  BY DEF Queue!DeqCas, QueueProofs!DeqCas, Queue!Goto, QueueProofs!Goto, Queue!nodeVars,
         QueueProofs!nodeVars, Queue!localVars, QueueProofs!localVars
<1>19. \A x \in Poppers : Queue!DeqCasFails(x) => QueueProofs!DeqCasFails(x)
  BY DEF Queue!DeqCasFails, QueueProofs!DeqCasFails, Queue!Goto, QueueProofs!Goto,
         Queue!nodeVars, QueueProofs!nodeVars, Queue!localVars, QueueProofs!localVars
<1>20. \A x \in Poppers : Queue!DeqStore(x) => QueueProofs!DeqStore(x)
  BY DEF Queue!DeqStore, QueueProofs!DeqStore, Queue!Goto, QueueProofs!Goto, Queue!nodeVars,
         QueueProofs!nodeVars, Queue!localVars, QueueProofs!localVars
<1>21. \A x \in Poppers : Queue!Free(x) => QueueProofs!Free(x)
  BY DEF Queue!Free, QueueProofs!Free, Queue!EndIteration, QueueProofs!EndIteration,
         Queue!LoopHead, QueueProofs!LoopHead, Queue!Goto, QueueProofs!Goto, Queue!nodeVars,
         QueueProofs!nodeVars, Queue!localVars, QueueProofs!localVars
<1>22. Queue!Terminating => QueueProofs!Terminating
  BY <1>2 DEF Queue!Terminating, QueueProofs!Terminating, Queue!AllDone, QueueProofs!AllDone,
         Queue!vars, QueueProofs!vars, Queue!nodeVars, QueueProofs!nodeVars, Queue!localVars,
         QueueProofs!localVars
<1>23. Queue!Next => QueueProofs!Next
  BY <1>3, <1>4, <1>5, <1>6, <1>7, <1>8, <1>9, <1>10, <1>11, <1>12, <1>13, <1>14, <1>15, <1>16, <1>17, <1>18, <1>19, <1>20, <1>21, <1>22
     DEF Queue!Next, QueueProofs!Next, Queue!EnqueuerStep, QueueProofs!EnqueuerStep,
         Queue!DequeuerStep, QueueProofs!DequeuerStep
<1>24. Queue!MCNext => QueueProofs!MCNext
  <2>1. ASSUME Queue!MCNext
        PROVE  /\ QueueProofs!Next
               /\ sawEmpty' = [c \in Poppers |->
                     \/ QueueProofs!Contents' = <<>>
                     \/ sawEmpty[c] /\ q_pc[c] # "deq_head"]
    BY <1>23, <2>1, QueueSame DEF Queue!MCNext
  <2>2. ASSUME Queue!MCNext
        PROVE  stale' = (stale \/ \E a \in QueueProofs!Addr :
                           q_heap[a] = "freed" /\ q_heap'[a] = "private" /\ QueueProofs!InUse(a))
    BY <2>2, QueueSame, Zenon DEF Queue!MCNext
  <2>. QED  BY <2>1, <2>2 DEF QueueProofs!MCNext
<1>. QED  BY <1>1, <1>24

LEMMA QueueInit ==
    ASSUME MCInit
    PROVE  QueueProofs!MCInit
<1>1. Queue!Init
  BY DEF MCInit, Queue!MCInit
<1>2. QueueProofs!Init
  BY <1>1, QueueSame DEF Queue!Init, QueueProofs!Init, Queue!LoopHead, QueueProofs!LoopHead
<1>. QED  BY <1>2 DEF MCInit, Queue!MCInit, QueueProofs!MCInit

\* The types of the tagged stack, also when it is not what runs.
LEMMA TaggedTypes ==
    ASSUME Tagged!EmptyStack,
           owner \in IF unit = "tagged" THEN [Node -> Pushers] ELSE {[a \in Node |-> NULL]}
    PROVE  Tagged!TypeOK
<1>1. TagMod \in Nat \ {0} /\ MaxCas \in Nat
  BY MCLockFreeAssumption DEF Tagged!TaggedStackAssumption
<1>2. 0 % TagMod \in 0 .. TagMod - 1
  BY <1>1, TaggedProofs!DivMod
<1>3. Tagged!MAKE_TV(NULL, 0) \in Tagged!Word
  BY <1>2 DEF Tagged!MAKE_TV, Tagged!Word, Tagged!Ptr
<1>4. owner \in [Node -> Pushers \union {NULL}] /\ cas \in 0 .. MaxCas
  BY <1>1 DEF Tagged!EmptyStack
<1>5. aba \in BOOLEAN
  BY Zenon DEF Tagged!EmptyStack
<1>. QED  BY <1>3, <1>4, <1>5 DEF Tagged!EmptyStack, Tagged!TypeOK, Tagged!Ptr, Tagged!PC

LEMMA TaggedTypesStay ==
    ASSUME Tagged!TypeOK, UNCHANGED taggedVars
    PROVE  Tagged!TypeOK'
BY DEF Tagged!TypeOK, taggedVars

LEMMA TaggedTypesOfProofs == TaggedProofs!IInv' => Tagged!TypeOK'
BY DEF TaggedProofs!IInv, TaggedProofs!TypeOK, Tagged!TypeOK, TaggedProofs!Ptr, Tagged!Ptr,
       TaggedProofs!Word, Tagged!Word, TaggedProofs!PC, Tagged!PC

\* What the proofs assume of the constants.
LEMMA ProofAssumptions ==
    /\ TaggedProofs!TaggedStackAssumption
    /\ QueueProofs!LockFreeQueueAssumption
<1>1. Tagged!TaggedStackAssumption /\ Queue!LockFreeQueueAssumption
  BY MCLockFreeAssumption
<1>2. TaggedProofs!TaggedStackAssumption
  BY <1>1 DEF Tagged!TaggedStackAssumption, TaggedProofs!TaggedStackAssumption,
              Tagged!IsFiniteSet, TaggedProofs!IsFiniteSet
<1>3. QueueProofs!LockFreeQueueAssumption
  BY <1>1 DEF Queue!LockFreeQueueAssumption, QueueProofs!LockFreeQueueAssumption,
              Queue!IsFiniteSet, QueueProofs!IsFiniteSet, Queue!Thread, QueueProofs!Thread
<1>. QED  BY <1>2, <1>3

-----------------------------------------------------------------------------
(* The theorems of the whole.                                              *)

\* The invariant of a behaviour of any of the programs.
MCInv ==
    /\ IInv
    /\ ExperimentInv
    /\ QueueProofs!IInv
    /\ Tagged!TypeOK
    /\ unit = "tagged" => TaggedProofs!IInv

\* Each program takes its own steps, and the others stand still.
LEMMA UnitStep ==
    ASSUME [MCNext]_allVars
    PROVE  /\ unit' = unit /\ [Next]_vars
           /\ [Experiment!Next]_experimentVars
           /\ [Queue!MCNext]_queueVars
           /\ [Tagged!Next]_taggedVars
           /\ unit # "tagged" => UNCHANGED taggedVars
BY DEF MCNext, allVars

THEOREM MCInvariance == MCSpec => []MCInv
<1>1. ASSUME MCInit PROVE MCInv
  <2>1. IInv
    BY <1>1, InitIInv DEF MCInit
  <2>2. ExperimentInv
    BY <1>1, ExperimentConstants, ExperimentInit DEF MCInit
  <2>3. unit = "tagged" => TaggedProofs!IInv
    BY <1>1, TaggedInit, ProofAssumptions, TaggedProofs!InitIInv
  <2>4. QueueProofs!IInv
    BY <1>1, QueueInit, ProofAssumptions, QueueProofs!InitIInv
  <2>5. Tagged!TypeOK
    BY <1>1, TaggedTypes DEF MCInit
  <2>. QED  BY <2>1, <2>2, <2>3, <2>4, <2>5 DEF MCInv
<1>2. ASSUME MCInv, [MCNext]_allVars PROVE MCInv'
  <2>1. IInv'
    BY <1>2, UnitStep, StackStep DEF MCInv
  <2>2. ExperimentInv'
    BY <1>2, UnitStep, ExperimentConstants, ExperimentStep DEF MCInv
  <2>3. unit' = "tagged" => TaggedProofs!IInv'
    <3>1. [TaggedProofs!Next]_(TaggedProofs!vars)
      BY <1>2, UnitStep, TaggedStep
    <3>. QED  BY <1>2, <3>1, UnitStep, ProofAssumptions, TaggedProofs!IInvStep DEF MCInv
  <2>4. QueueProofs!IInv'
    <3>1. [QueueProofs!MCNext]_<<QueueProofs!vars, sawEmpty, stale>>
      BY <1>2, UnitStep, QueueStep
    <3>. QED  BY <1>2, <3>1, ProofAssumptions, QueueProofs!IInvStep DEF MCInv
  <2>5. Tagged!TypeOK'
    <3>1. CASE unit = "tagged"
      BY <2>3, <1>2, <3>1, UnitStep, TaggedTypesOfProofs
    <3>2. CASE unit # "tagged"
      BY <1>2, <3>2, UnitStep, TaggedTypesStay DEF MCInv
    <3>. QED  BY <3>1, <3>2
  <2>. QED  BY <2>1, <2>2, <2>3, <2>4, <2>5 DEF MCInv
<1>. QED  BY <1>1, <1>2, PTL DEF MCSpec

\* Each property, read in either module, is the same.
LEMMA SameProperties ==
    /\ TaggedProofs!IntactUntilAba => Tagged!IntactUntilAba
    /\ QueueProofs!QueueIntact => QueueIntact
    /\ QueueProofs!EmptyIsTrue => EmptyIsTrue
    /\ QueueProofs!TypeOK => Queue!TypeOK
<1>1. TaggedProofs!IntactUntilAba => Tagged!IntactUntilAba
  <2>1. TaggedProofs!Nodes = Tagged!Nodes
    BY Zenon DEF TaggedProofs!Nodes, Tagged!Nodes, TaggedProofs!Chain, Tagged!Chain,
                 TaggedProofs!Cardinality, Tagged!Cardinality
  <2>2. TaggedProofs!TagCountsChanges = Tagged!TagCountsChanges
    BY DEF TaggedProofs!TagCountsChanges, Tagged!TagCountsChanges, TaggedProofs!Succeeds,
           Tagged!Succeeds
  <2>3. TaggedProofs!PopInstallsSuccessor = Tagged!PopInstallsSuccessor
    BY DEF TaggedProofs!PopInstallsSuccessor, Tagged!PopInstallsSuccessor,
           TaggedProofs!Succeeds, Tagged!Succeeds
  <2>. QED  BY <2>1, <2>2, <2>3 DEF TaggedProofs!IntactUntilAba, Tagged!IntactUntilAba
<1>2. QueueProofs!QueueIntact => QueueIntact
  BY QueueSame DEF QueueIntact, Queue!QueueIntact, QueueProofs!QueueIntact
<1>3. QueueProofs!EmptyIsTrue => EmptyIsTrue
  BY DEF EmptyIsTrue, Queue!EmptyIsTrue, QueueProofs!EmptyIsTrue
<1>4. QueueProofs!TypeOK => Queue!TypeOK
  BY QueueSame DEF Queue!TypeOK, QueueProofs!TypeOK, Queue!Ptr, QueueProofs!Ptr, Queue!Status,
                   QueueProofs!Status, Queue!EnqueuerPC, QueueProofs!EnqueuerPC,
                   Queue!DequeuerPC, QueueProofs!DequeuerPC
<1>. QED  BY <1>1, <1>2, <1>3, <1>4

\* The mutex and the spin lock let one thread at a time into the critical
\* section, for any number of threads (lines 46-69 of atomics_basics.c).
THEOREM LocksExclude == MCSpec => []CriticalSection
<1>1. MCInv => CriticalSection
  BY ExperimentShows, ExperimentConstants DEF MCInv, CriticalSection
<1>. QED  BY <1>1, MCInvariance, PTL

\* Consumers see all of the data, and every thread of get_instance the one
\* complete singleton, for any number of threads (memory_ordering.c).
THEOREM PublicationIsSafe == MCSpec => []PublishedObjects
<1>1. MCInv => PublishedObjects
  BY ExperimentShows, ExperimentConstants DEF MCInv, PublishedObjects
<1>. QED  BY <1>1, MCInvariance, PTL

\* The totals the programs print when the threads are joined are right, for any
\* number of threads and iterations (line 121 of lockfree_stack.c).
THEOREM TotalsAreRight == MCSpec => []EndResults
<1>1. MCInv => EndResults
  BY CountsAtEnd, ExperimentShows, ExperimentConstants DEF MCInv, EndResults
<1>. QED  BY <1>1, MCInvariance, PTL

\* The tagged stack is intact until a CAS has missed a multiple of TagMod
\* changes, for any number of threads, nodes and tags (cas_aba_demo.c).
THEOREM TaggedStackIsIntact == MCSpec => []IntactUntilAba
<1>1. MCInv => IntactUntilAba
  BY TaggedProofs!IInvImplies, SameProperties, ProofAssumptions DEF MCInv, IntactUntilAba
<1>. QED  BY <1>1, MCInvariance, PTL
\* What the queue's proofs use of MCInv.
LEMMA QueueFacts ==
    ASSUME MCInv
    PROVE  QueueProofs!QueueIntact /\ QueueProofs!EmptyIsTrue /\ QueueProofs!TypeOK
<1>1. QueueProofs!IInv
  BY DEF MCInv
<1>2. QueueProofs!QueueIntact /\ QueueProofs!EmptyIsTrue
  BY <1>1, ProofAssumptions, QueueProofs!IntactIfIInv, QueueProofs!EmptyIsTrueIfIInv
<1>3. QueueProofs!TypeOK
  BY <1>1 DEF QueueProofs!IInv, QueueProofs!BaseInv
<1>. QED  BY <1>2, <1>3

\* The variables of the stack, of the queue and of the tagged stack keep their
\* types for any number of threads, nodes and iterations.
THEOREM TypesAreRight == MCSpec => []MCTypeOK
<1>1. MCInv => MCTypeOK
  BY QueueFacts, SameProperties DEF MCInv, MCTypeOK, IInv
<1>. QED  BY <1>1, MCInvariance, PTL

\* Up to the step with which malloc hands out a node that some worker still uses:
\* the tail stays near the end, a dequeuer that goes on to read a value has a node
\* to read it from, and what it frees nobody else has, for any number of threads
\* and iterations (lines 46, 83-95 and 131 of lockfree_queue.c).
THEOREM QueueIsIntact == MCSpec => []QueueIntact
<1>1. MCInv => QueueIntact
  BY QueueFacts, SameProperties
<1>. QED  BY <1>1, MCInvariance, PTL

\* Up to that step, when lf_queue_dequeue answers NULL, the queue was empty at some
\* instant since it read head (line 81).
THEOREM EmptyAnswersAreTrue == MCSpec => []EmptyIsTrue
<1>1. MCInv => EmptyIsTrue
  BY QueueFacts, SameProperties
<1>. QED  BY <1>1, MCInvariance, PTL

\* Up to that step, lf_queue_enqueue and lf_queue_dequeue implement a queue, for any
\* number of threads and iterations.
THEOREM QueueIsImplemented == MCSpec => ImplementsQueue
<1>1. ASSUME MCInit PROVE Queue!Fifo!Init
  <2>1. QueueProofs!Fifo!Init
    BY <1>1, QueueInit, ProofAssumptions, QueueProofs!RefinementInit DEF QueueProofs!MCInit
  <2>. QED  BY <2>1, QueueSame DEF Queue!Fifo!Init, QueueProofs!Fifo!Init
<1>2. ASSUME MCInv, [MCNext]_allVars
      PROVE  [stale' \/ Queue!Fifo!QueueNext]_<<Queue!Contents, [c \in Poppers |-> Queue!Taken(c)]>>
  <2>1. [QueueProofs!MCNext]_<<QueueProofs!vars, sawEmpty, stale>>
    BY <1>2, UnitStep, QueueStep
  <2>2. [stale' \/ QueueProofs!Fifo!QueueNext]_<<QueueProofs!Contents, [c \in Poppers |-> QueueProofs!Taken(c)]>>
    BY <1>2, <2>1, ProofAssumptions, QueueProofs!RefinementMCStep DEF MCInv
  <2>3. (QueueProofs!Fifo!QueueNext) => (Queue!Fifo!QueueNext)
    BY QueueSame DEF Queue!Fifo!QueueNext, QueueProofs!Fifo!QueueNext, Queue!Fifo!Put,
                     QueueProofs!Fifo!Put, Queue!Fifo!Take, QueueProofs!Fifo!Take, Queue!Fifo!Pop,
                     QueueProofs!Fifo!Pop, Queue!Fifo!Dispose, QueueProofs!Fifo!Dispose
  <2>. QED  BY <2>2, <2>3, QueueSame
<1>. QED
  BY <1>1, <1>2, MCInvariance, PTL DEF MCSpec, ImplementsQueue, Queue!ImplementsQueue

\* The stack keeps its promise, and reads without a data race, also here.
THEOREM StackAlone == MCSpec => Spec /\ ImplementsStack /\ PublishedIsFrozen
<1>1. MCSpec => Spec
  <2>1. MCInit => Init
    BY DEF MCInit
  <2>. QED  BY <2>1, UnitStep, PTL DEF MCSpec, Spec
<1>. QED  BY <1>1, StackIsImplemented, NoDataRace
=============================================================================
