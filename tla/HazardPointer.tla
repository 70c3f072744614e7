--------------------------- MODULE HazardPointer ---------------------------
(***************************************************************************)
(* The lock-free stack of src/hazard_pointer.c whose popped nodes are      *)
(* reclaimed with hazard pointers.                                         *)
(*                                                                         *)
(* Every action is one access to shared memory together with the local     *)
(* computation up to the next one.  Atomic accesses are interleaved        *)
(* (sequential consistency).  A node is its address; its int value is left *)
(* out, its life cycle is kept in heap:                                    *)
(*    free     not allocated: never malloc'ed, or given back by free()     *)
(*    private  malloc'ed by a producer, not yet published                  *)
(*    stack    published by a successful push                              *)
(*    popped   unlinked by a successful pop, held by that consumer         *)
(*    retired  in the retired list of a consumer                           *)
(* malloc may return any free address: freed nodes are recycled at once.   *)
(***************************************************************************)
EXTENDS Chains, TLC

CONSTANTS
    Producers,       \* threads running hps_producer
    Consumers,       \* threads running hps_consumer
    Addr,            \* addresses malloc can return
    NULL,
    OPS,             \* iterations of every worker loop
    MAX_THREADS,     \* records of hp_table
    HP_PER_THREAD,   \* slots of a record
    RETIRE_LIMIT,    \* length of a retired list
    SpuriousFailure  \* may compare_exchange_weak fail although the values agree

Thread == Producers \union Consumers
Ids == 0 .. MAX_THREADS - 1
Slots == 0 .. HP_PER_THREAD - 1
Indices == 0 .. RETIRE_LIMIT - 1
Ptr == Addr \union {NULL}

ASSUME ThreadsAssumption ==
    /\ IsFiniteSet(Thread)
    /\ Producers \intersect Consumers = {}
    /\ MAX_THREADS \in Nat
    /\ Cardinality(Thread) <= MAX_THREADS

ASSUME ConstantsAssumption ==
    /\ IsFiniteSet(Addr)
    /\ NULL \notin Addr
    /\ OPS \in Nat
    /\ HP_PER_THREAD \in Nat \ {0}
    /\ RETIRE_LIMIT \in Nat \ {0}
    /\ SpuriousFailure \in BOOLEAN

VARIABLES
    head,             \* HPStack.head
    next,             \* SNode.next of every address
    heap,             \* life cycle of every address
    hp_table,         \* the hazard pointer a thread id published in a slot
    hp_thread_count,
    tl_thread_id,     \* -1 until the thread registers
    pc,
    ops,              \* iterations a worker still has to do
    old_head,         \* local of hps_push and hps_pop
    new_next,         \* local next of hps_pop
    node,             \* the producer's node, the consumer's popped node
    retired,          \* retired[] of every consumer
    retired_count,
    i, new_count,     \* locals of the scan in hp_retire
    n, t, s           \* locals of hp_is_protected

threadVars == <<hp_table, hp_thread_count, tl_thread_id>>
stackVars  == <<head, next, heap>>
popVars    == <<old_head, new_next, node>>
retireVars == <<retired, retired_count>>
scanVars   == <<i, new_count, n, t, s>>
vars == <<threadVars, stackVars, pc, ops, popVars, retireVars, scanVars>>

Init ==
    /\ head = NULL
    /\ next = [a \in Addr |-> NULL]
    /\ heap = [a \in Addr |-> "free"]
    /\ hp_table = [id \in Ids |-> [z \in Slots |-> NULL]]
    /\ hp_thread_count = 0
    /\ tl_thread_id = [x \in Thread |-> -1]
    /\ pc = [x \in Thread |-> "register"]
    /\ ops = [x \in Thread |-> OPS]
    /\ old_head = [x \in Thread |-> NULL]
    /\ new_next = [x \in Thread |-> NULL]
    /\ node = [x \in Thread |-> NULL]
    /\ retired = [c \in Consumers |-> [k \in Indices |-> NULL]]
    /\ retired_count = [c \in Consumers |-> 0]
    /\ i = [c \in Consumers |-> 0]
    /\ new_count = [c \in Consumers |-> 0]
    /\ n = [c \in Consumers |-> 0]
    /\ t = [c \in Consumers |-> 0]
    /\ s = [c \in Consumers |-> 0]

-----------------------------------------------------------------------------
Goto(x, label) == pc' = [pc EXCEPT ![x] = label]

\* Mutant: the loop runs once more.
LoopHeadOnceMore(x, k) ==
    IF k < 0 THEN "done" ELSE IF x \in Producers THEN "malloc" ELSE "pop_load"

\* Where a worker continues when it has k iterations left.
LoopHead(x, k) ==
    IF k = 0 THEN "done" ELSE IF x \in Producers THEN "malloc" ELSE "pop_load"

EndIteration(x) ==
    /\ ops' = [ops EXCEPT ![x] = @ - 1]
    /\ Goto(x, LoopHead(x, ops[x] - 1))

(* hp_thread_register: take the next thread id and clear its record.  The  *)
(* record is NULL until then, so the two kinds of stores are one action.   *)
Register(x) ==
    /\ pc[x] = "register"
    /\ tl_thread_id' = [tl_thread_id EXCEPT ![x] = hp_thread_count]
    /\ hp_thread_count' = hp_thread_count + 1
    /\ hp_table' = [hp_table EXCEPT ![hp_thread_count] = [z \in Slots |-> NULL]]
    /\ Goto(x, LoopHead(x, ops[x]))
    /\ UNCHANGED <<stackVars, ops, popVars, retireVars, scanVars>>

-----------------------------------------------------------------------------
(* hps_producer and hps_push *)

Malloc(p) ==
    /\ pc[p] = "malloc"
    /\ \E a \in Addr :
         /\ heap[a] = "free"
         /\ heap' = [heap EXCEPT ![a] = "private"]
         /\ node' = [node EXCEPT ![p] = a]
    /\ Goto(p, "push_load")
    /\ UNCHANGED <<threadVars, head, next, ops, old_head, new_next,
                   retireVars, scanVars>>

PushLoad(p) ==
    /\ pc[p] = "push_load"
    /\ old_head' = [old_head EXCEPT ![p] = head]
    /\ Goto(p, "push_link")
    /\ UNCHANGED <<threadVars, stackVars, ops, new_next, node,
                   retireVars, scanVars>>

PushLink(p) ==
    /\ pc[p] = "push_link"
    /\ next' = [next EXCEPT ![node[p]] = old_head[p]]
    /\ Goto(p, "push_cas")
    /\ UNCHANGED <<threadVars, head, heap, ops, popVars, retireVars, scanVars>>

\* Mutant: a plain store instead of the compare-and-swap.
PushStore(p) ==
    /\ pc[p] = "push_cas"
    /\ head' = node[p]
    /\ heap' = [heap EXCEPT ![node[p]] = "stack"]
    /\ EndIteration(p)
    /\ UNCHANGED <<threadVars, next, popVars, retireVars, scanVars>>

PushCas(p) ==
    /\ pc[p] = "push_cas"
    /\ head = old_head[p]
    /\ head' = node[p]
    /\ heap' = [heap EXCEPT ![node[p]] = "stack"]
    /\ EndIteration(p)
    /\ UNCHANGED <<threadVars, next, popVars, retireVars, scanVars>>

PushCasFails(p) ==
    /\ pc[p] = "push_cas"
    /\ head # old_head[p] \/ SpuriousFailure
    /\ Goto(p, "push_load")
    /\ UNCHANGED <<threadVars, stackVars, ops, popVars, retireVars, scanVars>>

-----------------------------------------------------------------------------
(* hps_consumer and hps_pop *)

\* An empty stack makes hps_pop return NULL and hps_consumer call it again.
PopEmpty(c) ==
    /\ pc[c] \in {"pop_load", "pop_reload"}
    /\ head = NULL
    /\ old_head' = [old_head EXCEPT ![c] = NULL]
    /\ Goto(c, "pop_load")
    /\ UNCHANGED <<threadVars, stackVars, ops, new_next, node,
                   retireVars, scanVars>>

PopLoad(c) ==
    /\ pc[c] \in {"pop_load", "pop_reload"}
    /\ head # NULL
    /\ old_head' = [old_head EXCEPT ![c] = head]
    /\ Goto(c, "pop_protect")
    /\ UNCHANGED <<threadVars, stackVars, ops, new_next, node,
                   retireVars, scanVars>>

\* hp_protect(0, old_head)
PopProtect(c) ==
    /\ pc[c] = "pop_protect"
    /\ hp_table' = [hp_table EXCEPT ![tl_thread_id[c]][0] = old_head[c]]
    /\ Goto(c, "pop_validate")
    /\ UNCHANGED <<hp_thread_count, tl_thread_id, stackVars, ops, popVars,
                   retireVars, scanVars>>

\* Mutants: the hazard pointer is not validated, or validated the wrong way.
PopNotValidated(c) ==
    /\ pc[c] = "pop_validate"
    /\ Goto(c, "pop_next")
    /\ UNCHANGED <<threadVars, stackVars, ops, popVars, retireVars, scanVars>>

PopValidateInverted(c) ==
    /\ pc[c] = "pop_validate"
    /\ Goto(c, IF head # old_head[c] THEN "pop_next" ELSE "pop_reload")
    /\ UNCHANGED <<threadVars, stackVars, ops, popVars, retireVars, scanVars>>

PopValidate(c) ==
    /\ pc[c] = "pop_validate"
    /\ Goto(c, IF head = old_head[c] THEN "pop_next" ELSE "pop_reload")
    /\ UNCHANGED <<threadVars, stackVars, ops, popVars, retireVars, scanVars>>

PopNext(c) ==
    /\ pc[c] = "pop_next"
    /\ new_next' = [new_next EXCEPT ![c] = next[old_head[c]]]
    /\ Goto(c, "pop_cas")
    /\ UNCHANGED <<threadVars, stackVars, ops, old_head, node,
                   retireVars, scanVars>>

\* Mutant: a plain store instead of the compare-and-swap.
PopStore(c) ==
    /\ pc[c] = "pop_cas"
    /\ head' = new_next[c]
    /\ heap' = [heap EXCEPT ![old_head[c]] = "popped"]
    /\ node' = [node EXCEPT ![c] = old_head[c]]
    /\ Goto(c, "pop_release")
    /\ UNCHANGED <<threadVars, next, ops, old_head, new_next,
                   retireVars, scanVars>>

PopCas(c) ==
    /\ pc[c] = "pop_cas"
    /\ head = old_head[c]
    /\ head' = new_next[c]
    /\ heap' = [heap EXCEPT ![old_head[c]] = "popped"]
    /\ node' = [node EXCEPT ![c] = old_head[c]]
    /\ Goto(c, "pop_release")
    /\ UNCHANGED <<threadVars, next, ops, old_head, new_next,
                   retireVars, scanVars>>

\* A failed CAS leaves the hazard pointer published and starts over.
PopCasFails(c) ==
    /\ pc[c] = "pop_cas"
    /\ head # old_head[c] \/ SpuriousFailure
    /\ Goto(c, "pop_reload")
    /\ UNCHANGED <<threadVars, stackVars, ops, popVars, retireVars, scanVars>>

\* hp_release(0)
PopRelease(c) ==
    /\ pc[c] = "pop_release"
    /\ hp_table' = [hp_table EXCEPT ![tl_thread_id[c]][0] = NULL]
    /\ Goto(c, "retire")
    /\ UNCHANGED <<hp_thread_count, tl_thread_id, stackVars, ops, popVars,
                   retireVars, scanVars>>

-----------------------------------------------------------------------------
(* hp_retire and hp_is_protected *)

\* Append to the list; scan it when it has RETIRE_LIMIT entries.
Retire(c) ==
    /\ pc[c] = "retire"
    /\ retired' = [retired EXCEPT ![c][retired_count[c]] = node[c]]
    /\ retired_count' = [retired_count EXCEPT ![c] = @ + 1]
    /\ heap' = [heap EXCEPT ![node[c]] = "retired"]
    /\ IF retired_count[c] + 1 < RETIRE_LIMIT
         THEN /\ EndIteration(c)
              /\ UNCHANGED <<i, new_count>>
         ELSE /\ Goto(c, "scan_count")
              /\ i' = [i EXCEPT ![c] = 0]
              /\ new_count' = [new_count EXCEPT ![c] = 0]
              /\ UNCHANGED ops
    /\ UNCHANGED <<threadVars, head, next, popVars, n, t, s>>

\* int n = atomic_load(&hp_thread_count)
ScanCount(c) ==
    /\ pc[c] = "scan_count"
    /\ n' = [n EXCEPT ![c] = hp_thread_count]
    /\ t' = [t EXCEPT ![c] = 0]
    /\ s' = [s EXCEPT ![c] = 0]
    /\ Goto(c, "scan_load")
    /\ UNCHANGED <<threadVars, stackVars, ops, popVars, retireVars,
                   i, new_count>>

\* Mutant: retired_count is not set to new_count after the scan.
NextEntryKeepsCount(c, kept) ==
    /\ new_count' = [new_count EXCEPT ![c] = kept]
    /\ UNCHANGED retired_count
    /\ IF i[c] + 1 < retired_count[c]
         THEN /\ i' = [i EXCEPT ![c] = @ + 1]
              /\ Goto(c, "scan_count")
              /\ UNCHANGED ops
         ELSE EndIteration(c) /\ UNCHANGED i

\* Go on to the next entry, or leave hp_retire after the last one.
NextEntry(c, kept) ==
    /\ new_count' = [new_count EXCEPT ![c] = kept]
    /\ IF i[c] + 1 < retired_count[c]
         THEN /\ i' = [i EXCEPT ![c] = @ + 1]
              /\ Goto(c, "scan_count")
              /\ UNCHANGED <<retired_count, ops>>
         ELSE /\ retired_count' = [retired_count EXCEPT ![c] = kept]
              /\ EndIteration(c)
              /\ UNCHANGED i

\* One slot is loaded: it protects the entry, which is kept ...
ScanKeep(c) ==
    /\ pc[c] = "scan_load"
    /\ hp_table[t[c]][s[c]] = retired[c][i[c]]
    /\ retired' = [retired EXCEPT ![c][new_count[c]] = retired[c][i[c]]]
    /\ NextEntry(c, new_count[c] + 1)
    /\ UNCHANGED <<threadVars, stackVars, popVars, n, t, s>>

\* ... or it does not, and the next slot, record or finally free() follows.
ScanMiss(c) ==
    /\ pc[c] = "scan_load"
    /\ hp_table[t[c]][s[c]] # retired[c][i[c]]
    /\ IF s[c] + 1 < HP_PER_THREAD
         THEN /\ s' = [s EXCEPT ![c] = @ + 1]
              /\ UNCHANGED <<t, pc>>
         ELSE /\ s' = [s EXCEPT ![c] = 0]
              /\ t' = [t EXCEPT ![c] = @ + 1]
              /\ Goto(c, IF t[c] + 1 < n[c] THEN "scan_load" ELSE "scan_free")
    /\ UNCHANGED <<threadVars, stackVars, ops, popVars, retireVars,
                   i, new_count, n>>

ScanFree(c) ==
    /\ pc[c] = "scan_free"
    /\ heap' = [heap EXCEPT ![retired[c][i[c]]] = "free"]
    /\ NextEntry(c, new_count[c])
    /\ UNCHANGED <<threadVars, head, next, popVars, retired, n, t, s>>

-----------------------------------------------------------------------------
ProducerStep(p) ==
    Register(p) \/ Malloc(p) \/ PushLoad(p) \/ PushLink(p)
        \/ PushCas(p) \/ PushCasFails(p)

PopStep(c) ==
    PopEmpty(c) \/ PopLoad(c) \/ PopProtect(c) \/ PopValidate(c)
        \/ PopNext(c) \/ PopCas(c) \/ PopCasFails(c) \/ PopRelease(c)

RetireStep(c) ==
    Retire(c) \/ ScanCount(c) \/ ScanKeep(c) \/ ScanMiss(c) \/ ScanFree(c)

ConsumerStep(c) == Register(c) \/ PopStep(c) \/ RetireStep(c)

AllDone == \A x \in Thread : pc[x] = "done"

Next ==
    \/ \E p \in Producers : ProducerStep(p)
    \/ \E c \in Consumers : ConsumerStep(c)

Spec == Init /\ [][Next]_vars

-----------------------------------------------------------------------------
Status == {"free", "private", "stack", "popped", "retired"}
ProducerPC == {"register", "malloc", "push_load", "push_link", "push_cas", "done"}
ConsumerPC ==
    {"register", "pop_load", "pop_reload", "pop_protect", "pop_validate",
     "pop_next", "pop_cas", "pop_release", "retire",
     "scan_count", "scan_load", "scan_free", "done"}
ScanPC == {"scan_count", "scan_load", "scan_free"}

TypeOK ==
    /\ head \in Ptr
    /\ next \in [Addr -> Ptr]
    /\ heap \in [Addr -> Status]
    /\ hp_table \in [Ids -> [Slots -> Ptr]]
    /\ hp_thread_count \in Nat
    /\ tl_thread_id \in [Thread -> Int]
    /\ pc \in [Thread -> ProducerPC \union ConsumerPC]
    /\ \A p \in Producers : pc[p] \in ProducerPC
    /\ \A c \in Consumers : pc[c] \in ConsumerPC
    /\ ops \in [Thread -> Nat]
    /\ old_head \in [Thread -> Ptr]
    /\ new_next \in [Thread -> Ptr]
    /\ node \in [Thread -> Ptr]
    /\ retired \in [Consumers -> [Indices -> Ptr]]
    /\ retired_count \in [Consumers -> Nat]
    /\ i \in [Consumers -> Nat]
    /\ new_count \in [Consumers -> Nat]
    /\ n \in [Consumers -> Nat]
    /\ t \in [Consumers -> Nat]
    /\ s \in [Consumers -> Nat]

-----------------------------------------------------------------------------
(* A consumer between the validation of its hazard pointer and the CAS.    *)
Validated(c) == pc[c] \in {"pop_next", "pop_cas"}

\* No use after free: the node hps_pop reads next from, after it published
\* and re-validated it (lines 106-116), has not been given to free() since,
\* however many other consumers popped, retired and scanned it meanwhile.
ProtectedIsLive ==
    \A c \in Consumers :
        Validated(c) => heap[old_head[c]] \in {"stack", "popped", "retired"}

\* No ABA: when the CAS of hps_pop (line 117) is about to succeed, the next
\* pointer it installs is still the successor of the node it unlinks.
CasInstallsSuccessor ==
    \A c \in Consumers :
        pc[c] = "pop_cas" /\ head = old_head[c] =>
            /\ heap[head] = "stack"
            /\ new_next[c] = next[head]

\* hp_retire never writes behind retired[RETIRE_LIMIT]: although a scan may
\* have to keep entries (line 70), the next call finds a place (line 63).
RetireFits ==
    \A c \in Consumers : pc[c] = "retire" => retired_count[c] < RETIRE_LIMIT

\* The entries of a retired list that hp_retire still has to look at or has
\* decided to keep.
Pending(c) ==
    IF pc[c] \in ScanPC
      THEN 0 .. new_count[c] - 1 \union i[c] .. retired_count[c] - 1
      ELSE 0 .. retired_count[c] - 1

\* No double free and no lost entry: the lists of all consumers hold every
\* retired node exactly once and nothing else, also while hp_retire compacts
\* a list in place (lines 67-75).
RetiredOnce ==
    /\ \A c \in Consumers : \A k \in Pending(c) :
          retired[c][k] \in Addr /\ heap[retired[c][k]] = "retired"
    /\ \A c, d \in Consumers : \A k \in Pending(c), l \in Pending(d) :
          retired[c][k] = retired[d][l] => c = d /\ k = l

\* The published nodes form a list from head: every link stays inside, no
\* node has two predecessors and head has none.
InStack(a) == a \in Addr /\ heap[a] = "stack"
StackShape ==
    /\ head = NULL \/ InStack(head)
    /\ \A a \in Addr : InStack(a) =>
          /\ next[a] = NULL \/ InStack(next[a])
          /\ next[a] = NULL \/ next[a] # head
    /\ \A a, b \in Addr :
          InStack(a) /\ InStack(b) /\ next[a] = next[b] /\ next[a] # NULL => a = b

\* What main prints (line 173): when all workers of a balanced workload have
\* ended, every pushed node was popped and the stack is empty.
EmptyAtEnd ==
    AllDone /\ Cardinality(Producers) = Cardinality(Consumers) =>
        head = NULL /\ \A a \in Addr : heap[a] # "stack"

\* Every worker ends: main's pthread_join calls return.
Termination == <>AllDone

-----------------------------------------------------------------------------
\* hps_push and hps_pop implement a stack: the list from head is the stack,
\* the successful CAS (lines 96 and 117) is the instant they take effect.
Stack == INSTANCE SharedSequence WITH
    Item  <- Addr,
    Taker <- Consumers,
    None  <- NULL,
    items <- Chain(head, next, NULL),
    taken <- [c \in Consumers |-> node[c]]

ImplementsStack == Stack!StackSpec

\* The names of threads and nodes do not matter, except to liveness.
Symmetry ==
    Permutations(Producers) \union Permutations(Consumers) \union Permutations(Addr)
=============================================================================
