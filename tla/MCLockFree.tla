----------------------------- MODULE MCLockFree -----------------------------
(* The lock-free programs: the Treiber stack, the Michael-Scott queue, the *)
(* stack with tagged pointers and the experiments with atomics and locks.  *)
(* A behaviour is one of them, chosen in the initial state; the variables  *)
(* of the others keep their first values.  All share the names of their    *)
(* threads, and the nodes of the tagged stack are named after threads too, *)
(* so that one small symmetry group serves them all.                       *)
EXTENDS LockFreeStack, TLC

CONSTANTS
    Node,                       \* addresses in the tagged stack
    QUEUE_OPS, Enqueuers,
    TagMod, MaxCas,
    ITERS, MaxValue, PIECES

VARIABLES
    unit,                       \* the program
    q_head, q_tail, q_next, value, q_heap, q_pc, q_ops, q_node,
    q_old_head, old_tail, nxt, val, sawEmpty, stale,
    tagged, t_next, owner, t_pc, t_node, old_tv, new_tv, since, cas, aba,
    exp, counter, word, a_heap, a_pc, a_ops, reg, arg, greatest

Queue == INSTANCE LockFreeQueue WITH
    Dequeuers <- Poppers, OPS <- QUEUE_OPS,
    head <- q_head, tail <- q_tail, next <- q_next, heap <- q_heap, pc <- q_pc,
    ops <- q_ops, node <- q_node, old_head <- q_old_head

Tagged == INSTANCE TaggedStack WITH
    Thread <- Pushers, next <- t_next, pc <- t_pc, node <- t_node

Experiment == INSTANCE Atomics WITH
    heap <- a_heap, pc <- a_pc, ops <- a_ops

ASSUME MCLockFreeAssumption ==
    /\ Queue!LockFreeQueueAssumption /\ Tagged!TaggedStackAssumption
    /\ Experiment!AtomicsAssumption

queueVars == <<q_head, q_tail, q_next, value, q_heap, q_pc, q_ops, q_node,
               q_old_head, old_tail, nxt, val, sawEmpty, stale>>
taggedVars == <<tagged, t_next, owner, t_pc, t_node, old_tv, new_tv, since, cas, aba>>
experimentVars == <<exp, counter, word, a_heap, a_pc, a_ops, reg, arg, greatest>>
allVars == <<vars, queueVars, taggedVars, experimentVars, unit>>

\* What does not run has one initial value.
MCInit ==
    /\ unit \in {"stack", "queue", "tagged", "experiment"}
    /\ Init /\ Queue!MCInit /\ Experiment!Init
    /\ Tagged!EmptyStack
    /\ owner \in IF unit = "tagged" THEN [Node -> Pushers] ELSE {[a \in Node |-> NULL]}
    /\ unit # "experiment" => exp = "plain"

MCNext ==
    /\ UNCHANGED unit
    /\ \/ unit = "stack" /\ Next /\ UNCHANGED <<queueVars, taggedVars, experimentVars>>
       \/ unit = "queue" /\ Queue!MCNext /\ UNCHANGED <<vars, taggedVars, experimentVars>>
       \/ unit = "tagged" /\ Tagged!Next /\ UNCHANGED <<vars, queueVars, experimentVars>>
       \/ unit = "experiment" /\ Experiment!Next /\ UNCHANGED <<vars, queueVars, taggedVars>>

MCSpec == MCInit /\ [][MCNext]_allVars

Symmetry == Permutations(Pushers) \union Permutations(Poppers)

MCTypeOK == TypeOK /\ Queue!TypeOK /\ Tagged!TypeOK

-----------------------------------------------------------------------------
\* lf_queue_enqueue and lf_queue_dequeue implement a queue: the instants they
\* take effect are the successful CASes of lines 46 and 89.  They do so up to the
\* step with which malloc hands out a node that some worker still uses, for
\* dequeue_worker frees nodes that others hold (line 131 of lockfree_queue.c).
ImplementsQueue == Queue!ImplementsQueue

\* Up to that step, no enqueuer links its node anywhere but behind the end, tail
\* stays near the end, a dequeuer finds its value, and frees a node of its own.
QueueIntact == Queue!QueueIntact

\* "Really an empty queue" (line 81 of lockfree_queue.c): when lf_queue_dequeue
\* is about to answer NULL, the queue was empty at some instant since it read head,
\* up to that step.
EmptyIsTrue == Queue!EmptyIsTrue

\* The tagged stack is intact until a CAS has missed a multiple of 4 changes,
\* all that a tag of two bits can guarantee (cas_aba_demo.c).
IntactUntilAba == unit = "tagged" => Tagged!IntactUntilAba

\* The mutex and the spin lock let one thread at a time into the critical
\* section (lines 46-69 of atomics_basics.c, 22-30 of tsan_demo.c).
CriticalSection == Experiment!CriticalSection

\* Consumers see all of the data, every thread gets the one complete singleton,
\* and none uses the object it has freed (memory_ordering.c, lines 34 and 53-59).
PublishedObjects == Experiment!PublishedObjects

\* When the threads are joined the totals the programs print are right: of the
\* stack (lines 121-124 of lockfree_stack.c), and of every counter.
EndResults == EndResult /\ Experiment!Totals
=============================================================================
