---------------------------- MODULE UserspaceRcu ----------------------------
(***************************************************************************)
(* The RCU protected list of src/userspace_rcu.c: readers that traverse    *)
(* it, writers that insert at the head, and deleters, which delete the     *)
(* head, wait for a grace period and free the node.  main starts readers   *)
(* and writers; rcu_list_delete is the part of the interface it does not   *)
(* use, called here by threads of its own that main waits for as well.     *)
(*                                                                         *)
(* Every action is one access to memory that another thread can see.  A    *)
(* node is its address, which stands for its value; malloc may return any  *)
(* free address.                                                           *)
(***************************************************************************)
EXTENDS Integers, FiniteSets, Chains, TLC

CONSTANTS
    Readers,
    Writers,
    Deleters,
    Main,            \* the thread that runs main
    Addr,
    NULL,
    Key,
    MAX_THREADS,     \* length of reader_counts
    INITIAL,         \* nodes main inserts before it starts the threads
    WRITE_OPS,       \* inserts of a writer
    DELETE_OPS,      \* calls of rcu_list_delete of a deleter
    SpuriousFailure  \* may compare_exchange_weak fail although the values agree

Inserters == Writers \union {Main}
Thread == Readers \union Deleters \union Inserters
Ids == 0 .. MAX_THREADS - 1
Ptr == Addr \union {NULL}

ASSUME UserspaceRcuAssumption ==
    /\ IsFiniteSet(Thread)
    /\ Cardinality(Thread) <= MAX_THREADS
    /\ Readers \intersect (Deleters \union Inserters) = {}
    /\ Deleters \intersect Inserters = {}
    /\ Main \notin Writers
    /\ MAX_THREADS \in Nat
    /\ IsFiniteSet(Addr)
    /\ NULL \notin Addr
    /\ Key # {}
    /\ INITIAL \in Nat
    /\ WRITE_OPS \in Nat
    /\ DELETE_OPS \in Nat
    /\ SpuriousFailure \in BOOLEAN

VARIABLES
    rcu_list_head,
    key, next,         \* of every node
    heap,              \* life cycle of every address
    reader_counts,
    rcu_thread_count,
    tl_rcu_id,         \* -1 until the thread registers
    stop_flag,
    pc,
    ops,               \* iterations a thread still has to do
    old_head, new_node, new_head,   \* locals of insert and delete
    n, i,              \* locals of urcu_synchronize
    wanted, p          \* argument and local of rcu_list_find

listVars == <<rcu_list_head, key, next, heap>>
rcuVars == <<reader_counts, rcu_thread_count, tl_rcu_id>>
updateVars == <<old_head, new_node, new_head>>
syncVars == <<n, i>>
findVars == <<wanted, p>>
vars == <<listVars, rcuVars, stop_flag, pc, ops, updateVars, syncVars, findVars>>

Junk == CHOOSE k \in Key : TRUE    \* what a variable holds before it is written

\* main has registered, with id 0: its later calls of rcu_register_thread
\* return at once.
Init ==
    /\ rcu_list_head = NULL
    /\ key = [a \in Addr |-> Junk]
    /\ next = [a \in Addr |-> NULL]
    /\ heap = [a \in Addr |-> "free"]
    /\ reader_counts = [id \in Ids |-> 0]
    /\ rcu_thread_count = 1
    /\ tl_rcu_id = [x \in Thread |-> IF x = Main THEN 0 ELSE -1]
    /\ stop_flag = FALSE
    /\ ops = [x \in Thread |-> IF x = Main THEN INITIAL
                               ELSE IF x \in Writers THEN WRITE_OPS
                               ELSE IF x \in Deleters THEN DELETE_OPS ELSE 0]
    /\ pc = [x \in Thread |-> IF x # Main THEN "create"
                              ELSE IF INITIAL = 0 THEN "start" ELSE "insert"]
    /\ old_head = [x \in Thread |-> NULL]
    /\ new_node = [x \in Thread |-> NULL]
    /\ new_head = [x \in Thread |-> NULL]
    /\ n = [d \in Deleters |-> 0]
    /\ i = [d \in Deleters |-> 0]
    /\ wanted = [r \in Readers |-> Junk]
    /\ p = [r \in Readers |-> NULL]

-----------------------------------------------------------------------------
Goto(x, label) == pc' = [pc EXCEPT ![x] = label]

\* Where a thread continues when it has k iterations left.
LoopHead(x, k) ==
    IF x \in Readers THEN "check_stop"
    ELSE IF k = 0 THEN IF x = Main THEN "start" ELSE "done"
    ELSE IF x \in Deleters THEN "del_load" ELSE "insert"

EndIteration(x) ==
    /\ ops' = [ops EXCEPT ![x] = @ - 1]
    /\ Goto(x, LoopHead(x, ops[x] - 1))

\* rcu_register_thread
Register(x) ==
    /\ pc[x] = "register"
    /\ tl_rcu_id' = [tl_rcu_id EXCEPT ![x] = rcu_thread_count]
    /\ rcu_thread_count' = rcu_thread_count + 1
    /\ Goto(x, LoopHead(x, ops[x]))
    /\ UNCHANGED <<listVars, reader_counts, stop_flag, ops, updateVars, syncVars, findVars>>

-----------------------------------------------------------------------------
(* rcu_list_insert *)

Insert(x) ==
    /\ pc[x] = "insert"
    /\ \E a \in Addr, k \in Key :
         /\ heap[a] = "free"
         /\ heap' = [heap EXCEPT ![a] = "private"]
         /\ key' = [key EXCEPT ![a] = k]
         /\ new_node' = [new_node EXCEPT ![x] = a]
    /\ Goto(x, "ins_load")
    /\ UNCHANGED <<rcu_list_head, next, rcuVars, stop_flag, ops, old_head, new_head,
                   syncVars, findVars>>

InsertLoad(x) ==
    /\ pc[x] = "ins_load"
    /\ old_head' = [old_head EXCEPT ![x] = rcu_list_head]
    /\ Goto(x, "ins_link")
    /\ UNCHANGED <<listVars, rcuVars, stop_flag, ops, new_node, new_head, syncVars, findVars>>

InsertLink(x) ==
    /\ pc[x] = "ins_link"
    /\ next' = [next EXCEPT ![new_node[x]] = old_head[x]]
    /\ Goto(x, "ins_cas")
    /\ UNCHANGED <<rcu_list_head, key, heap, rcuVars, stop_flag, ops, updateVars,
                   syncVars, findVars>>

InsertCas(x) ==
    /\ pc[x] = "ins_cas"
    /\ rcu_list_head = old_head[x]
    /\ rcu_list_head' = new_node[x]
    /\ heap' = [heap EXCEPT ![new_node[x]] = "list"]
    /\ EndIteration(x)
    /\ UNCHANGED <<key, next, rcuVars, stop_flag, updateVars, syncVars, findVars>>

\* Mutant: the node is linked once, before the loop.
InsertRetryUnlinked(x) ==
    /\ pc[x] = "ins_cas"
    /\ rcu_list_head # old_head[x] \/ SpuriousFailure
    /\ old_head' = [old_head EXCEPT ![x] = rcu_list_head]
    /\ UNCHANGED <<listVars, rcuVars, stop_flag, pc, ops, new_node, new_head, syncVars, findVars>>

InsertCasFails(x) ==
    /\ pc[x] = "ins_cas"
    /\ rcu_list_head # old_head[x] \/ SpuriousFailure
    /\ Goto(x, "ins_load")
    /\ UNCHANGED <<listVars, rcuVars, stop_flag, ops, updateVars, syncVars, findVars>>

-----------------------------------------------------------------------------
(* rcu_list_delete and urcu_synchronize *)

DeleteLoad(d) ==
    /\ pc[d] = "del_load"
    /\ old_head' = [old_head EXCEPT ![d] = rcu_list_head]
    /\ IF rcu_list_head = NULL
         THEN EndIteration(d)
         ELSE Goto(d, "del_key") /\ UNCHANGED ops
    /\ UNCHANGED <<listVars, rcuVars, stop_flag, new_node, new_head, syncVars, findVars>>

\* k is the argument of rcu_list_delete.
DeleteKey(d) ==
    /\ pc[d] = "del_key"
    /\ \E k \in Key :
         IF key[old_head[d]] # k
           THEN EndIteration(d)
           ELSE Goto(d, "del_next") /\ UNCHANGED ops
    /\ UNCHANGED <<listVars, rcuVars, stop_flag, updateVars, syncVars, findVars>>

DeleteNext(d) ==
    /\ pc[d] = "del_next"
    /\ new_head' = [new_head EXCEPT ![d] = next[old_head[d]]]
    /\ Goto(d, "del_cas")
    /\ UNCHANGED <<listVars, rcuVars, stop_flag, ops, old_head, new_node, syncVars, findVars>>

\* Mutant: the node is freed without a grace period.
DeleteCasNoGrace(d) ==
    /\ pc[d] = "del_cas"
    /\ rcu_list_head = old_head[d]
    /\ rcu_list_head' = new_head[d]
    /\ heap' = [heap EXCEPT ![old_head[d]] = "unlinked"]
    /\ Goto(d, "del_free")
    /\ UNCHANGED <<key, next, rcuVars, stop_flag, ops, updateVars, syncVars, findVars>>

DeleteCas(d) ==
    /\ pc[d] = "del_cas"
    /\ rcu_list_head = old_head[d]
    /\ rcu_list_head' = new_head[d]
    /\ heap' = [heap EXCEPT ![old_head[d]] = "unlinked"]
    /\ Goto(d, "sync")
    /\ UNCHANGED <<key, next, rcuVars, stop_flag, ops, updateVars, syncVars, findVars>>

DeleteCasFails(d) ==
    /\ pc[d] = "del_cas"
    /\ rcu_list_head # old_head[d]
    /\ EndIteration(d)
    /\ UNCHANGED <<listVars, rcuVars, stop_flag, updateVars, syncVars, findVars>>

\* Mutant: the last registered thread is not waited for.
SynchronizeOneLess(d) ==
    /\ pc[d] = "sync"
    /\ n' = [n EXCEPT ![d] = rcu_thread_count - 1]
    /\ i' = [i EXCEPT ![d] = 0]
    /\ Goto(d, "sync_read")
    /\ UNCHANGED <<listVars, rcuVars, stop_flag, ops, updateVars, findVars>>

\* int n = atomic_load(&rcu_thread_count)
Synchronize(d) ==
    /\ pc[d] = "sync"
    /\ n' = [n EXCEPT ![d] = rcu_thread_count]
    /\ i' = [i EXCEPT ![d] = 0]
    /\ Goto(d, "sync_read")
    /\ UNCHANGED <<listVars, rcuVars, stop_flag, ops, updateVars, findVars>>

\* Mutant: a reader in its section is passed over.
SyncReadNoWait(d) ==
    /\ pc[d] = "sync_read"
    /\ i' = [i EXCEPT ![d] = @ + 1]
    /\ Goto(d, IF i'[d] < n[d] THEN "sync_read" ELSE "del_free")
    /\ UNCHANGED <<listVars, rcuVars, stop_flag, ops, updateVars, n, findVars>>

\* A reader in its section makes urcu_synchronize begin again with id 0.
SyncRead(d) ==
    /\ pc[d] = "sync_read"
    /\ i' = [i EXCEPT ![d] = IF reader_counts[i[d]] > 0 THEN 0 ELSE @ + 1]
    /\ Goto(d, IF i'[d] < n[d] THEN "sync_read" ELSE "del_free")
    /\ UNCHANGED <<listVars, rcuVars, stop_flag, ops, updateVars, n, findVars>>

Free(d) ==
    /\ pc[d] = "del_free"
    /\ heap' = [heap EXCEPT ![old_head[d]] = "free"]
    /\ EndIteration(d)
    /\ UNCHANGED <<rcu_list_head, key, next, rcuVars, stop_flag, updateVars, syncVars, findVars>>

-----------------------------------------------------------------------------
(* rcu_reader and rcu_list_find *)

CheckStop(r) ==
    /\ pc[r] = "check_stop"
    /\ IF stop_flag
         THEN Goto(r, "done") /\ UNCHANGED wanted
         ELSE /\ \E k \in Key : wanted' = [wanted EXCEPT ![r] = k]
              /\ Goto(r, "read_lock")
    /\ UNCHANGED <<listVars, rcuVars, stop_flag, ops, updateVars, syncVars, p>>

\* Mutant: a reader enters its section without being counted.
ReadLockUncounted(r) ==
    /\ pc[r] = "read_lock"
    /\ Goto(r, "find_head")
    /\ UNCHANGED <<listVars, rcuVars, stop_flag, ops, updateVars, syncVars, findVars>>

ReadLock(r) ==
    /\ pc[r] = "read_lock"
    /\ reader_counts' = [reader_counts EXCEPT ![tl_rcu_id[r]] = @ + 1]
    /\ Goto(r, "find_head")
    /\ UNCHANGED <<listVars, rcu_thread_count, tl_rcu_id, stop_flag, ops, updateVars,
                   syncVars, findVars>>

FindHead(r) ==
    /\ pc[r] = "find_head"
    /\ p' = [p EXCEPT ![r] = rcu_list_head]
    /\ Goto(r, "find_key")
    /\ UNCHANGED <<listVars, rcuVars, stop_flag, ops, updateVars, syncVars, wanted>>

FindKey(r) ==
    /\ pc[r] = "find_key"
    /\ Goto(r, IF p[r] = NULL \/ (p[r] # NULL /\ key[p[r]] = wanted[r])
                 THEN "read_unlock" ELSE "find_next")
    /\ UNCHANGED <<listVars, rcuVars, stop_flag, ops, updateVars, syncVars, findVars>>

FindNext(r) ==
    /\ pc[r] = "find_next"
    /\ p' = [p EXCEPT ![r] = next[p[r]]]
    /\ Goto(r, "find_key")
    /\ UNCHANGED <<listVars, rcuVars, stop_flag, ops, updateVars, syncVars, wanted>>

\* Mutant: one way out of rcu_list_find forgets urcu_read_unlock.
ReadUnlockForgotten(r) ==
    /\ pc[r] = "read_unlock"
    /\ reader_counts' = [reader_counts EXCEPT ![tl_rcu_id[r]] = IF p[r] = NULL THEN @ - 1 ELSE @]
    /\ p' = [p EXCEPT ![r] = NULL]
    /\ wanted' = [wanted EXCEPT ![r] = Junk]
    /\ Goto(r, "check_stop")
    /\ UNCHANGED <<listVars, rcu_thread_count, tl_rcu_id, stop_flag, ops, updateVars,
                   syncVars>>

\* The locals of rcu_list_find end here.
ReadUnlock(r) ==
    /\ pc[r] = "read_unlock"
    /\ reader_counts' = [reader_counts EXCEPT ![tl_rcu_id[r]] = @ - 1]
    /\ p' = [p EXCEPT ![r] = NULL]
    /\ wanted' = [wanted EXCEPT ![r] = Junk]
    /\ Goto(r, "check_stop")
    /\ UNCHANGED <<listVars, rcu_thread_count, tl_rcu_id, stop_flag, ops, updateVars,
                   syncVars>>

-----------------------------------------------------------------------------
(* main *)

\* pthread_create: a thread that is created later starts later.
Start ==
    /\ pc[Main] = "start"
    /\ pc' = [x \in Thread |-> IF x = Main THEN "join_writers" ELSE "register"]
    /\ UNCHANGED <<listVars, rcuVars, stop_flag, ops, updateVars, syncVars, findVars>>

\* After the last writer has ended, the readers are told to stop.
Stop ==
    /\ pc[Main] = "join_writers"
    /\ \A w \in Writers : pc[w] = "done"
    /\ stop_flag' = TRUE
    /\ Goto(Main, "join_readers")
    /\ UNCHANGED <<listVars, rcuVars, ops, updateVars, syncVars, findVars>>

Finish ==
    /\ pc[Main] = "join_readers"
    /\ \A x \in Readers \union Deleters : pc[x] = "done"
    /\ Goto(Main, "done")
    /\ UNCHANGED <<listVars, rcuVars, stop_flag, ops, updateVars, syncVars, findVars>>

-----------------------------------------------------------------------------
InsertStep(x) ==
    Insert(x) \/ InsertLoad(x) \/ InsertLink(x) \/ InsertCas(x) \/ InsertCasFails(x)

DeleteStep(d) ==
    \/ DeleteLoad(d) \/ DeleteKey(d) \/ DeleteNext(d) \/ DeleteCas(d) \/ DeleteCasFails(d)
    \/ Synchronize(d) \/ SyncRead(d) \/ Free(d)

FindStep(r) ==
    CheckStop(r) \/ ReadLock(r) \/ FindHead(r) \/ FindKey(r) \/ FindNext(r) \/ ReadUnlock(r)

ReaderStep(r) == Register(r) \/ FindStep(r)
WriterStep(w) == Register(w) \/ InsertStep(w)
DeleterStep(d) == Register(d) \/ DeleteStep(d)
MainStep == InsertStep(Main) \/ Start \/ Stop \/ Finish

AllDone == pc[Main] = "done"

Terminating == AllDone /\ UNCHANGED vars

Next ==
    \/ \E r \in Readers : ReaderStep(r)
    \/ \E w \in Writers : WriterStep(w)
    \/ \E d \in Deleters : DeleterStep(d)
    \/ MainStep
    \/ Terminating

Spec == Init /\ [][Next]_vars

-----------------------------------------------------------------------------
Status == {"free", "private", "list", "unlinked"}
InsertPC == {"insert", "ins_load", "ins_link", "ins_cas"}
DeletePC == {"del_load", "del_key", "del_next", "del_cas", "sync", "sync_read", "del_free"}
FindPC == {"check_stop", "read_lock", "find_head", "find_key", "find_next", "read_unlock"}
PC == InsertPC \union DeletePC \union FindPC
        \union {"create", "register", "start", "join_writers", "join_readers", "done"}

TypeOK ==
    /\ rcu_list_head \in Ptr
    /\ key \in [Addr -> Key]
    /\ next \in [Addr -> Ptr]
    /\ heap \in [Addr -> Status]
    /\ reader_counts \in [Ids -> Nat]
    /\ rcu_thread_count \in Nat
    /\ tl_rcu_id \in [Thread -> Int]
    /\ stop_flag \in BOOLEAN
    /\ pc \in [Thread -> PC]
    /\ ops \in [Thread -> Nat]
    /\ old_head \in [Thread -> Ptr]
    /\ new_node \in [Thread -> Ptr]
    /\ new_head \in [Thread -> Ptr]
    /\ n \in [Deleters -> Nat]
    /\ i \in [Deleters -> Nat]
    /\ wanted \in [Readers -> Key]
    /\ p \in [Readers -> Ptr]

-----------------------------------------------------------------------------
Nodes(first) == ChainSet(first, next, NULL)

\* The threads that are about to read from a node, and that node.
Reading(r) == pc[r] \in {"find_key", "find_next"} /\ p[r] # NULL
Deleting(d) == pc[d] \in {"del_key", "del_next"}

\* "Now it can be freed safely" (line 118): nobody reads from a node that was
\* given to free().
NoUseAfterFree ==
    /\ \A r \in Readers : Reading(r) => heap[p[r]] \in {"list", "unlinked"}
    /\ \A d \in Deleters : Deleting(d) => heap[old_head[d]] \in {"list", "unlinked"}

\* "Wait until all current readers have left their read section" (line 45):
\* after urcu_synchronize no reader can still arrive at the unlinked node, also
\* one that registered after rcu_thread_count was read.
GracePeriod ==
    \A d \in Deleters, r \in Readers :
        pc[d] = "del_free" /\ Reading(r) => old_head[d] \notin Nodes(p[r])

\* No insert is lost and no deleted node comes back: the list holds exactly the
\* nodes whose insert has succeeded and whose delete has not.
ListIsExact == Nodes(rcu_list_head) = {a \in Addr : heap[a] = "list"}

\* What rcu_list_find returns from a node on: the first node with the key.
Found(r, first) ==
    LET c == Chain(first, next, NULL)
        hits == {k \in DOMAIN c : key[c[k]] = wanted[r]}
    IN  IF hits = {} THEN NULL ELSE c[CHOOSE k \in hits : \A l \in hits : k <= l]

\* rcu_list_find returns what the list held at the instant it read the head,
\* however many inserts and deletes happen while it traverses: no step changes
\* what is to be found from p on.
FindSeesOneList ==
    [][\A r \in Readers :
          pc[r] \in {"find_key", "find_next"} /\ pc'[r] \in {"find_key", "find_next"} =>
              Found(r, p[r])' = Found(r, p[r])]_vars

\* The program ends: the grace period of a delete does, at the latest when the
\* readers have stopped.
Termination == <>AllDone

\* The names of threads and nodes do not matter, except to liveness.
Symmetry == Permutations(Readers) \union Permutations(Deleters) \union Permutations(Addr)
=============================================================================
