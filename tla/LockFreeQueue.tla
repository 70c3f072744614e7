--------------------------- MODULE LockFreeQueue ----------------------------
(***************************************************************************)
(* The Michael-Scott queue of src/lockfree_queue.c and its test.           *)
(*                                                                         *)
(* Every action is one access to memory that another thread can see, with  *)
(* the local computation up to the next one.  dequeue_worker gives the old *)
(* sentinel to free() at once, although other threads may still use it,    *)
(* and malloc may hand out its address again at any time.  A freed node    *)
(* keeps its contents; malloc leaves the old link in the node or, as glibc *)
(* does with the key at that offset, a NULL.                               *)
(***************************************************************************)
EXTENDS Chains, TLC

CONSTANTS
    Enqueuers,        \* the ids of the threads running enqueue_worker
    Dequeuers,        \* the threads running dequeue_worker
    NULL,
    OPS,              \* iterations of every worker loop
    SpuriousFailure   \* may compare_exchange_weak fail although the values agree

Thread == Enqueuers \union Dequeuers
Addr == 0 .. Cardinality(Enqueuers) * OPS    \* a node for each value, and the dummy
Ptr == Addr \union {NULL}
Value == {id * OPS + k : id \in Enqueuers, k \in 0 .. OPS - 1}

LockFreeQueueAssumption ==
    /\ IsFiniteSet(Thread)
    /\ Enqueuers \subseteq Nat
    /\ Enqueuers \intersect Dequeuers = {}
    /\ NULL \notin Int
    /\ OPS \in Nat
    /\ SpuriousFailure \in BOOLEAN

VARIABLES
    head, tail,       \* of the LFQueue
    next, value,      \* of every node
    heap,             \* life cycle of every address
    pc,
    ops,              \* iterations a worker still has to do
    node,             \* the node that is enqueued, or that lf_queue_dequeue returns
    old_head, old_tail, nxt, val

nodeVars == <<next, value, heap>>
localVars == <<old_head, old_tail, nxt, val>>
vars == <<head, tail, nodeVars, pc, ops, node, localVars>>

LoopHead(x, k) ==
    IF k = 0 THEN "done" ELSE IF x \in Enqueuers THEN "malloc" ELSE "deq_head"

\* lf_queue_init: node 0 is the dummy.
Init ==
    /\ head = 0
    /\ tail = 0
    /\ next = [a \in Addr |-> NULL]
    /\ value = [a \in Addr |-> -1]
    /\ heap = [a \in Addr |-> IF a = 0 THEN "linked" ELSE "unused"]
    /\ ops = [x \in Thread |-> OPS]
    /\ pc = [x \in Thread |-> LoopHead(x, OPS)]
    /\ node = [x \in Thread |-> NULL]
    /\ old_head = [x \in Thread |-> NULL]
    /\ old_tail = [x \in Thread |-> NULL]
    /\ nxt = [x \in Thread |-> NULL]
    /\ val = [x \in Thread |-> -1]

-----------------------------------------------------------------------------
Goto(x, label) == pc' = [pc EXCEPT ![x] = label]

EndIteration(x) ==
    /\ ops' = [ops EXCEPT ![x] = @ - 1]
    /\ Goto(x, LoopHead(x, ops[x] - 1))

\* Unused addresses are handed out in order: they are all alike.
Allocatable(a) ==
    \/ heap[a] = "unused" /\ \A b \in Addr : b < a => heap[b] # "unused"
    \/ heap[a] = "freed"

\* enqueue_worker allocates the node and fills in its value.
Malloc(p) ==
    /\ pc[p] = "malloc"
    /\ \E a \in Addr :
         /\ Allocatable(a)
         /\ heap' = [heap EXCEPT ![a] = "private"]
         /\ value' = [value EXCEPT ![a] = p * OPS + (OPS - ops[p])]
         /\ \E left \in {next[a], NULL} : next' = [next EXCEPT ![a] = left]
         /\ node' = [node EXCEPT ![p] = a]
    /\ Goto(p, "enq_clear")
    /\ UNCHANGED <<head, tail, ops, localVars>>

EnqClear(p) ==
    /\ pc[p] = "enq_clear"
    /\ next' = [next EXCEPT ![node[p]] = NULL]
    /\ Goto(p, "enq_tail")
    /\ UNCHANGED <<head, tail, value, heap, ops, node, localVars>>

EnqTail(p) ==
    /\ pc[p] = "enq_tail"
    /\ old_tail' = [old_tail EXCEPT ![p] = tail]
    /\ Goto(p, "enq_next")
    /\ UNCHANGED <<head, tail, nodeVars, ops, node, old_head, nxt, val>>

EnqNext(p) ==
    /\ pc[p] = "enq_next"
    /\ nxt' = [nxt EXCEPT ![p] = next[old_tail[p]]]
    /\ Goto(p, "enq_check")
    /\ UNCHANGED <<head, tail, nodeVars, ops, node, old_head, old_tail, val>>

\* Is tail still the same?  Then link the node, or help with the lagging tail.
EnqCheck(p) ==
    /\ pc[p] = "enq_check"
    /\ Goto(p, IF old_tail[p] # tail THEN "enq_tail"
               ELSE IF nxt[p] = NULL THEN "enq_link" ELSE "enq_help")
    /\ UNCHANGED <<head, tail, nodeVars, ops, node, localVars>>

\* Mutant: a plain store instead of the compare-and-swap.
EnqLinkStore(p) ==
    /\ pc[p] = "enq_link"
    /\ next' = [next EXCEPT ![old_tail[p]] = node[p]]
    /\ heap' = [heap EXCEPT ![node[p]] = "linked"]
    /\ Goto(p, "enq_swing")
    /\ UNCHANGED <<head, tail, value, ops, node, localVars>>

EnqLink(p) ==
    /\ pc[p] = "enq_link"
    /\ next[old_tail[p]] = NULL
    /\ next' = [next EXCEPT ![old_tail[p]] = node[p]]
    /\ heap' = [heap EXCEPT ![node[p]] = "linked"]
    /\ Goto(p, "enq_swing")
    /\ UNCHANGED <<head, tail, value, ops, node, localVars>>

EnqLinkFails(p) ==
    /\ pc[p] = "enq_link"
    /\ next[old_tail[p]] # NULL \/ SpuriousFailure
    /\ Goto(p, "enq_tail")
    /\ UNCHANGED <<head, tail, nodeVars, ops, node, localVars>>

\* compare_exchange_weak(&q->tail, &old_tail, a), whose result is not looked at
SwingTail(x, a) ==
    \/ tail' = IF tail = old_tail[x] THEN a ELSE tail
    \/ SpuriousFailure /\ tail' = tail

EnqHelp(p) ==
    /\ pc[p] = "enq_help"
    /\ SwingTail(p, nxt[p])
    /\ Goto(p, "enq_tail")
    /\ UNCHANGED <<head, nodeVars, ops, node, localVars>>

EnqSwing(p) ==
    /\ pc[p] = "enq_swing"
    /\ SwingTail(p, node[p])
    /\ EndIteration(p)
    /\ UNCHANGED <<head, nodeVars, node, localVars>>

-----------------------------------------------------------------------------
DeqHead(c) ==
    /\ pc[c] = "deq_head"
    /\ old_head' = [old_head EXCEPT ![c] = head]
    /\ Goto(c, "deq_tail")
    /\ UNCHANGED <<head, tail, nodeVars, ops, node, old_tail, nxt, val>>

DeqTail(c) ==
    /\ pc[c] = "deq_tail"
    /\ old_tail' = [old_tail EXCEPT ![c] = tail]
    /\ Goto(c, "deq_next")
    /\ UNCHANGED <<head, tail, nodeVars, ops, node, old_head, nxt, val>>

\* Mutant: next is loaded again only when head has moved.
DeqNextOnce(c) ==
    /\ pc[c] = "deq_next"
    /\ nxt' = [nxt EXCEPT ![c] = IF old_head[c] = old_tail[c] THEN @ ELSE next[old_head[c]]]
    /\ Goto(c, "deq_check")
    /\ UNCHANGED <<head, tail, nodeVars, ops, node, old_head, old_tail, val>>

DeqNext(c) ==
    /\ pc[c] = "deq_next"
    /\ nxt' = [nxt EXCEPT ![c] = next[old_head[c]]]
    /\ Goto(c, "deq_check")
    /\ UNCHANGED <<head, tail, nodeVars, ops, node, old_head, old_tail, val>>

\* Mutant: a lagging tail is not helped.
DeqCheckNoHelp(c) ==
    /\ pc[c] = "deq_check"
    /\ Goto(c, IF old_head[c] # head \/ nxt[c] = NULL THEN "deq_head" ELSE "deq_value")
    /\ UNCHANGED <<head, tail, nodeVars, ops, node, localVars>>

\* Is head still the same?  Then the queue is empty (lf_queue_dequeue returns
\* NULL and dequeue_worker calls it again), or tail lags, or there is a value.
DeqCheck(c) ==
    /\ pc[c] = "deq_check"
    /\ Goto(c, IF old_head[c] # head THEN "deq_head"
               ELSE IF old_head[c] # old_tail[c] THEN "deq_value"
               ELSE IF nxt[c] = NULL THEN "deq_head" ELSE "deq_help")
    /\ UNCHANGED <<head, tail, nodeVars, ops, node, localVars>>

DeqHelp(c) ==
    /\ pc[c] = "deq_help"
    /\ SwingTail(c, nxt[c])
    /\ Goto(c, "deq_head")
    /\ UNCHANGED <<head, nodeVars, ops, node, localVars>>

\* A NULL in nxt ends the program here: there is no next step.
DeqValue(c) ==
    /\ pc[c] = "deq_value"
    /\ nxt[c] # NULL
    /\ val' = [val EXCEPT ![c] = value[nxt[c]]]
    /\ Goto(c, "deq_cas")
    /\ UNCHANGED <<head, tail, nodeVars, ops, node, old_head, old_tail, nxt>>

DeqCas(c) ==
    /\ pc[c] = "deq_cas"
    /\ head = old_head[c]
    /\ head' = nxt[c]
    /\ node' = [node EXCEPT ![c] = old_head[c]]
    /\ heap' = [heap EXCEPT ![old_head[c]] = "dequeued"]
    /\ Goto(c, "deq_store")
    /\ UNCHANGED <<tail, next, value, ops, localVars>>

DeqCasFails(c) ==
    /\ pc[c] = "deq_cas"
    /\ head # old_head[c] \/ SpuriousFailure
    /\ Goto(c, "deq_head")
    /\ UNCHANGED <<head, tail, nodeVars, ops, node, localVars>>

\* The old sentinel carries the value back to the caller.
DeqStore(c) ==
    /\ pc[c] = "deq_store"
    /\ value' = [value EXCEPT ![old_head[c]] = val[c]]
    /\ Goto(c, "free")
    /\ UNCHANGED <<head, tail, next, heap, ops, node, localVars>>

\* dequeue_worker
Free(c) ==
    /\ pc[c] = "free"
    /\ heap' = [heap EXCEPT ![node[c]] = "freed"]
    /\ EndIteration(c)
    /\ UNCHANGED <<head, tail, next, value, node, localVars>>

-----------------------------------------------------------------------------
EnqueuerStep(p) ==
    \/ Malloc(p) \/ EnqClear(p) \/ EnqTail(p) \/ EnqNext(p) \/ EnqCheck(p)
    \/ EnqLink(p) \/ EnqLinkFails(p) \/ EnqHelp(p) \/ EnqSwing(p)

DequeuerStep(c) ==
    \/ DeqHead(c) \/ DeqTail(c) \/ DeqNext(c) \/ DeqCheck(c) \/ DeqHelp(c)
    \/ DeqValue(c) \/ DeqCas(c) \/ DeqCasFails(c) \/ DeqStore(c) \/ Free(c)

AllDone == \A x \in Thread : pc[x] = "done"

\* main joins every thread and ends.
Terminating == AllDone /\ UNCHANGED vars

Next ==
    \/ \E p \in Enqueuers : EnqueuerStep(p)
    \/ \E c \in Dequeuers : DequeuerStep(c)
    \/ Terminating

Spec == Init /\ [][Next]_vars

-----------------------------------------------------------------------------
Status == {"unused", "private", "linked", "dequeued", "freed"}
EnqueuerPC ==
    {"malloc", "enq_clear", "enq_tail", "enq_next", "enq_check",
     "enq_link", "enq_help", "enq_swing", "done"}
DequeuerPC ==
    {"deq_head", "deq_tail", "deq_next", "deq_check", "deq_help",
     "deq_value", "deq_cas", "deq_store", "free", "done"}

TypeOK ==
    /\ head \in Addr
    /\ tail \in Addr
    /\ next \in [Addr -> Ptr]
    /\ value \in [Addr -> Value \union {-1}]
    /\ heap \in [Addr -> Status]
    /\ pc \in [Thread -> EnqueuerPC \union DequeuerPC]
    /\ \A p \in Enqueuers : pc[p] \in EnqueuerPC
    /\ \A c \in Dequeuers : pc[c] \in DequeuerPC
    /\ ops \in [Thread -> 0 .. OPS]
    /\ node \in [Thread -> Ptr]
    /\ old_head \in [Thread -> Ptr]
    /\ old_tail \in [Thread -> Ptr]
    /\ nxt \in [Thread -> Ptr]
    /\ val \in [Thread -> Value \union {-1}]

-----------------------------------------------------------------------------
(* The refinement, and two history variables, which no step reads.         *)

Nodes == Chain(head, next, NULL)

\* The values behind the sentinel.
Contents == [k \in 1 .. Len(Nodes) - 1 |-> value[Nodes[k + 1]]]

\* What lf_queue_dequeue has taken: it is in val until line 95 stores it.
Taken(c) ==
    IF pc[c] = "deq_store" THEN val[c]
    ELSE IF pc[c] = "free" THEN value[node[c]] ELSE NULL

VARIABLES
    sawEmpty,    \* was the queue empty since c last read head
    stale        \* was a node handed out again that some worker still used

\* A worker goes on to read or to compare what it read as tail (lines 39-64) or
\* as head (lines 73-89).
InUse(a) ==
    \/ \E p \in Enqueuers :
          /\ pc[p] \in {"enq_next", "enq_check", "enq_link", "enq_help", "enq_swing"}
          /\ old_tail[p] = a
    \/ \E c \in Dequeuers :
          /\ pc[c] \in {"deq_tail", "deq_next", "deq_check", "deq_help", "deq_value", "deq_cas"}
          /\ old_head[c] = a

MCInit ==
    /\ Init
    /\ sawEmpty = [c \in Dequeuers |-> FALSE]
    /\ stale = FALSE

MCNext ==
    /\ Next
    /\ sawEmpty' = [c \in Dequeuers |->
          \/ Contents' = <<>>
          \/ sawEmpty[c] /\ pc[c] # "deq_head"]
    /\ stale' = (stale \/ \E a \in Addr : heap[a] = "freed" /\ heap'[a] = "private" /\ InUse(a))

MCSpec == MCInit /\ [][MCNext]_<<vars, sawEmpty, stale>>

-----------------------------------------------------------------------------
\* As long as malloc has not handed out a node that some worker still used: tail
\* never falls behind head, although dequeuers help with a tail they read before
\* (lines 83-85): it is the last node of the list or the one before, and was not
\* dequeued.  When lf_queue_dequeue goes on to read next->value ("next has the
\* data", line 94) there is a next node.  An enqueuer gets its node linked behind
\* the end of the live list only.  The worker that dequeues owns the node it gives
\* to free(): the list does not contain it any more, and nobody else gives it to
\* free().
QueueIntact ==
    ~ stale =>
    /\ heap[tail] = "linked"
    /\ next[tail] = NULL \/ next[next[tail]] = NULL
    /\ \A c \in Dequeuers : pc[c] = "deq_value" => nxt[c] # NULL /\ value[nxt[c]] # -1
    /\ \A p \in Enqueuers :
          pc[p] = "enq_link" /\ next[old_tail[p]] = NULL => heap[old_tail[p]] = "linked"
    /\ \A c \in Dequeuers : pc[c] \in {"deq_store", "free"} =>
          /\ heap[node[c]] = "dequeued"
          /\ node[c] # head /\ node[c] # tail
          /\ \A a \in Addr : heap[a] = "linked" => next[a] # node[c]
          /\ \A d \in Dequeuers \ {c} :
                pc[d] \in {"deq_store", "free"} => node[d] # node[c]

\* "Really an empty queue" (line 81): when lf_queue_dequeue is about to answer
\* NULL, the queue was empty at some instant since it read head, unless malloc
\* has handed out a node that some worker still used.
EmptyIsTrue ==
    \A c \in Dequeuers :
        /\ ~ stale
        /\ pc[c] = "deq_check"
        /\ old_head[c] = head
        /\ old_head[c] = old_tail[c]
        /\ nxt[c] = NULL
        => sawEmpty[c]

Fifo == INSTANCE SharedSequence WITH
    Item  <- Value,
    Taker <- Dequeuers,
    None  <- NULL,
    items <- Contents,
    taken <- [c \in Dequeuers |-> Taken(c)]

\* lf_queue_enqueue and lf_queue_dequeue implement a queue: the instants they
\* take effect are the successful CASes of lines 46 and 89.  They do so up to the
\* step with which malloc hands out a node that some worker still used.
ImplementsQueue ==
    Fifo!Init /\ [][stale' \/ Fifo!QueueNext]_<<Contents, [c \in Dequeuers |-> Taken(c)]>>

Symmetry == Permutations(Dequeuers)

\* "Success" (line 50): what an enqueuer linked is in the queue until it is
\* dequeued.  Asked when the enqueuers have ended, for then nothing is under way.
EnqueuedIsKept ==
    (\A p \in Enqueuers : pc[p] = "done") =>
        \A a \in Addr : heap[a] = "linked" => \E k \in DOMAIN Nodes : Nodes[k] = a
=============================================================================
