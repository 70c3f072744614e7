--------------------------- MODULE LockFreeStack ----------------------------
(***************************************************************************)
(* The Treiber stack of src/lockfree_stack.c and its test: push_worker     *)
(* takes every node once from node_pool, so no address is ever reused.     *)
(* Every action is one access to memory that another thread can see.       *)
(***************************************************************************)
EXTENDS Chains

CONSTANTS
    Pushers,         \* threads running push_worker
    Poppers,         \* threads running pop_worker
    NULL,
    OPS_PER_TH,
    SpuriousFailure  \* may compare_exchange_weak fail although the values agree

Thread == Pushers \union Poppers
POOL_SIZE == Cardinality(Pushers) * OPS_PER_TH
Pool == 0 .. POOL_SIZE - 1

ASSUME LockFreeStackAssumption ==
    /\ IsFiniteSet(Thread)
    /\ Pushers \intersect Poppers = {}
    /\ OPS_PER_TH \in Nat
    /\ NULL \notin Nat
    /\ SpuriousFailure \in BOOLEAN

VARIABLES
    head,         \* LFStack.head
    next,         \* next of every node of node_pool
    alloc_idx,
    push_total,
    pop_total,
    local_sum,    \* local of pop_worker
    pc,
    ops,          \* iterations a worker still has to do
    node,         \* the node a pusher pushes, the node a popper popped last
    old_head,
    new_head      \* locals of lf_stack_push and lf_stack_pop

totals == <<push_total, pop_total, local_sum>>
vars == <<head, next, alloc_idx, totals, pc, ops, node, old_head, new_head>>

\* Where a worker continues when it has k iterations left.
LoopHead(x, k) ==
    IF x \in Pushers THEN IF k = 0 THEN "done" ELSE "alloc"
    ELSE IF k = 0 THEN "count" ELSE "pop_load"

Init ==
    /\ head = NULL
    /\ next = [a \in Pool |-> NULL]
    /\ alloc_idx = 0
    /\ push_total = 0
    /\ pop_total = 0
    /\ local_sum = [c \in Poppers |-> 0]
    /\ ops = [x \in Thread |-> OPS_PER_TH]
    /\ pc = [x \in Thread |-> LoopHead(x, OPS_PER_TH)]
    /\ node = [x \in Thread |-> NULL]
    /\ old_head = [x \in Thread |-> NULL]
    /\ new_head = [x \in Thread |-> NULL]

-----------------------------------------------------------------------------
Goto(x, label) == pc' = [pc EXCEPT ![x] = label]

EndIteration(x) ==
    /\ ops' = [ops EXCEPT ![x] = @ - 1]
    /\ Goto(x, LoopHead(x, ops[x] - 1))

\* alloc_node: the fetch_add makes the node private to the thread.
AllocNode(p) ==
    /\ pc[p] = "alloc"
    /\ alloc_idx' = alloc_idx + 1
    /\ next' = [next EXCEPT ![alloc_idx] = NULL]
    /\ node' = [node EXCEPT ![p] = alloc_idx]
    /\ Goto(p, "push_load")
    /\ UNCHANGED <<head, totals, ops, old_head, new_head>>

PushLoad(p) ==
    /\ pc[p] = "push_load"
    /\ old_head' = [old_head EXCEPT ![p] = head]
    /\ Goto(p, "push_link")
    /\ UNCHANGED <<head, next, alloc_idx, totals, ops, node, new_head>>

\* Mutant: the link is written into the wrong node.
PushLinkSwapped(p) ==
    /\ pc[p] = "push_link"
    /\ next' = [next EXCEPT ![old_head[p]] = node[p]]
    /\ Goto(p, "push_cas")
    /\ UNCHANGED <<head, alloc_idx, totals, ops, node, old_head, new_head>>

PushLink(p) ==
    /\ pc[p] = "push_link"
    /\ next' = [next EXCEPT ![node[p]] = old_head[p]]
    /\ Goto(p, "push_cas")
    /\ UNCHANGED <<head, alloc_idx, totals, ops, node, old_head, new_head>>

PushCas(p) ==
    /\ pc[p] = "push_cas"
    /\ head = old_head[p]
    /\ head' = node[p]
    /\ Goto(p, "push_count")
    /\ UNCHANGED <<next, alloc_idx, totals, ops, node, old_head, new_head>>

\* Mutant: the node is linked once, before the loop.
PushRetryUnlinked(p) ==
    /\ pc[p] = "push_cas"
    /\ head # old_head[p] \/ SpuriousFailure
    /\ old_head' = [old_head EXCEPT ![p] = head]
    /\ UNCHANGED <<head, next, alloc_idx, totals, pc, ops, node, new_head>>

PushCasFails(p) ==
    /\ pc[p] = "push_cas"
    /\ head # old_head[p] \/ SpuriousFailure
    /\ Goto(p, "push_load")
    /\ UNCHANGED <<head, next, alloc_idx, totals, ops, node, old_head, new_head>>

PushCount(p) ==
    /\ pc[p] = "push_count"
    /\ push_total' = push_total + 1
    /\ EndIteration(p)
    /\ UNCHANGED <<head, next, alloc_idx, pop_total, local_sum, node, old_head, new_head>>

-----------------------------------------------------------------------------
\* An empty stack makes lf_stack_pop return NULL and pop_worker call it again.
PopEmpty(c) ==
    /\ pc[c] = "pop_load"
    /\ head = NULL
    /\ old_head' = [old_head EXCEPT ![c] = NULL]
    /\ UNCHANGED <<head, next, alloc_idx, totals, pc, ops, node, new_head>>

PopLoad(c) ==
    /\ pc[c] = "pop_load"
    /\ head # NULL
    /\ old_head' = [old_head EXCEPT ![c] = head]
    /\ Goto(c, "pop_next")
    /\ UNCHANGED <<head, next, alloc_idx, totals, ops, node, new_head>>

PopNext(c) ==
    /\ pc[c] = "pop_next"
    /\ new_head' = [new_head EXCEPT ![c] = next[old_head[c]]]
    /\ Goto(c, "pop_cas")
    /\ UNCHANGED <<head, next, alloc_idx, totals, ops, node, old_head>>

PopCas(c) ==
    /\ pc[c] = "pop_cas"
    /\ head = old_head[c]
    /\ head' = new_head[c]
    /\ node' = [node EXCEPT ![c] = old_head[c]]
    /\ local_sum' = [local_sum EXCEPT ![c] = @ + 1]
    /\ EndIteration(c)
    /\ UNCHANGED <<next, alloc_idx, push_total, pop_total, old_head, new_head>>

PopCasFails(c) ==
    /\ pc[c] = "pop_cas"
    /\ head # old_head[c] \/ SpuriousFailure
    /\ Goto(c, "pop_load")
    /\ UNCHANGED <<head, next, alloc_idx, totals, ops, node, old_head, new_head>>

\* After its loop a popper adds what it popped to the total.
PopCount(c) ==
    /\ pc[c] = "count"
    /\ pop_total' = pop_total + local_sum[c]
    /\ Goto(c, "done")
    /\ UNCHANGED <<head, next, alloc_idx, push_total, local_sum, ops, node, old_head, new_head>>

-----------------------------------------------------------------------------
PusherStep(p) ==
    AllocNode(p) \/ PushLoad(p) \/ PushLink(p) \/ PushCas(p) \/ PushCasFails(p) \/ PushCount(p)

PopperStep(c) ==
    PopEmpty(c) \/ PopLoad(c) \/ PopNext(c) \/ PopCas(c) \/ PopCasFails(c) \/ PopCount(c)

AllDone == \A x \in Thread : pc[x] = "done"

\* main joins every thread and ends.
Terminating == AllDone /\ UNCHANGED vars

Next ==
    \/ \E p \in Pushers : PusherStep(p)
    \/ \E c \in Poppers : PopperStep(c)
    \/ Terminating

Spec == Init /\ [][Next]_vars

-----------------------------------------------------------------------------
PusherPC == {"alloc", "push_load", "push_link", "push_cas", "push_count", "done"}
PopperPC == {"pop_load", "pop_next", "pop_cas", "count", "done"}
Ptr == Pool \union {NULL}

TypeOK ==
    /\ head \in Ptr
    /\ next \in [Pool -> Ptr]
    /\ alloc_idx \in 0 .. POOL_SIZE
    /\ push_total \in Nat
    /\ pop_total \in Nat
    /\ local_sum \in [Poppers -> Nat]
    /\ pc \in [Thread -> PusherPC \union PopperPC]
    /\ \A p \in Pushers : pc[p] \in PusherPC
    /\ \A c \in Poppers : pc[c] \in PopperPC
    /\ ops \in [Thread -> 0 .. OPS_PER_TH]
    /\ node \in [Thread -> Ptr]
    /\ old_head \in [Thread -> Ptr]
    /\ new_head \in [Thread -> Ptr]

\* The nodes alloc_node handed out that their pusher has not published yet.
Private == {node[p] : p \in {q \in Pushers : pc[q] \in {"push_load", "push_link", "push_cas"}}}

\* lf_stack_pop reads next with a plain load (line 42).  That is no data race,
\* because no step writes the next of a node that was ever published.
PublishedIsFrozen ==
    [][\A a \in Pool : a < alloc_idx /\ a \notin Private => next'[a] = next[a]]_vars

\* What main prints (lines 121-124): as many nodes were pushed and popped as
\* the workers' loops ask for, and the stack is empty.
EndResult ==
    AllDone /\ Cardinality(Pushers) = Cardinality(Poppers) =>
        /\ push_total = POOL_SIZE
        /\ pop_total = POOL_SIZE
        /\ head = NULL

-----------------------------------------------------------------------------
Stack == INSTANCE SharedSequence WITH
    Item  <- Pool,
    Taker <- Poppers,
    None  <- NULL,
    items <- Chain(head, next, NULL),
    taken <- [c \in Poppers |-> node[c]]

\* lf_stack_push and lf_stack_pop implement a stack: the list from head is the
\* stack, the successful CAS (lines 30 and 43) the instant they take effect.
ImplementsStack == Stack!StackSpec
=============================================================================
