# A verification project for *c-ds-deep*

The repository holds the C programs of a textbook on data structures: about
ninety programs of one file each, from pointer basics to lock-free data
structures and memory allocators.  There is no common library; a component is a
file, or a few, with its data structure, its operations and the `main` that
exercises it.  This directory models the components that have a state or an
algorithm of their own, checks the models with TLC on small instances, and
proves the safety of the concurrent programs, and that both stacks
are stacks, with TLAPS for every instance.

Contents: [inventory](#inventory), [modules](#modules-and-how-they-correspond-to-the-code),
[runs](#runs), [bounds](#bounds), [fairness](#fairness), [findings](#findings),
[proofs](#proofs), [limits](#what-is-not-modelled-and-why), [plan](#plan).

## Inventory

### Components with threads

| component | state | operations | what is hard | what makes it correct |
|---|---|---|---|---|
| hazard pointers, `hazard_pointer.c` | `head`, nodes, the global table of published pointers, a retired list per thread | `hp_thread_register`, `hp_protect`, `hp_release`, `hp_retire` (with a scan by `hp_is_protected`), `hps_push`, `hps_pop`, the workers | a node is freed while another thread may be about to read it; a scan of several reads races with publications; addresses are recycled (ABA); fixed size of the retired list | no use after free, no ABA, no double free, no overflow, a stack |
| Treiber stack, `lockfree_stack.c` | `head`, a pool of nodes that are never reused, totals | push, pop, `alloc_node`, the workers | retries of the CAS; `next` is read without synchronisation | a stack; nothing is lost or taken twice |
| Michael-Scott queue, `lockfree_queue.c` | `head`, `tail`, nodes on the heap | enqueue, dequeue, helping a lagging tail, the workers with `malloc` and `free` | three reads that are not one snapshot; `tail` lags; the old sentinel is freed at once | a queue; NULL only for an empty queue |
| tagged stack, `cas_aba_demo.c` | one word of pointer and two bit tag | push, pop | the tag wraps round while a thread sleeps | ABA is noticed |
| user space RCU, `userspace_rcu.c` | list, counter per reader, thread ids, stop flag | read lock/unlock, `urcu_synchronize`, find, insert, delete, workers, `main` | a grace period that is a loop over counters; threads that register late; traversal during updates | no use after free, a reader sees one list, updates are not lost, everything ends |
| atomics, locks and publication: `atomics_basics.c`, `tsan_demo.c`, `memory_ordering.c` | counters, a mutex and a spin lock, a published buffer, a lazily made singleton | increments, lock/unlock, CAS maximum, publication, `get_instance` | lost updates; the failed CAS overwrites what it expects; a race of two initialisers | mutual exclusion, exact counters, complete data, one singleton |

The components do not call each other: each carries its own copy of what it
needs.  Inside a component, threads interact by shared memory only (no
condition variables, no messages); `main` creates the threads and joins them.

### Sequential components

| component | state and operations | hard | correct |
|---|---|---|---|
| slab cache, `slab_allocator.c` | two lists of slabs, bitmap and count in each; init, alloc, free | a slab moves between the lists; unlinking from the middle; an assertion that depends on the history | lists, bitmaps and counts agree; no object handed out twice |
| pools, `pool_allocator.c`, `embedded_pool.c` | a free list inside the free slots | the links lie in memory the client writes; one-time initialisation | the free list is exact |
| arena, `arena_allocator.c` | a bump pointer; alloc, reset | alignment, the last bytes | blocks aligned, disjoint, inside |
| hash tables: `hash_chaining.c`, `hash_open_addressing.c`, `robin_hood_hash.c`, `cuckoo_hash.c`, `hash_functions.c` | slots or chains, size | tombstones, displacement, rehashing, backward shift | a map |
| queues and heaps: `ring_buffer.c`, `priority_queue.c`, `min_heap.c` | a ring with absolute indices, a deque of nodes, heaps that grow | growth of a wrapped buffer, indices that overflow, the ends of a list | a queue at both ends; a priority queue |
| schedulers: `task_scheduler.c`, `event_scheduler.c` | a heap of tasks or events, time, callbacks | ties; handlers and callbacks that add to the heap while it is emptied | priority, then order of submission; events in their tick |
| lists: `singly_linked_list.c`, `doubly_linked_list.c` | nodes and links, an intrusive list in the style of the kernel | removal at the ends, reversal, cycles, iteration that frees | a sequence |
| vectors, stacks, strings: `dynamic_array.c`, `vector.c`, `stack.c`, `sds_simple.c`, `bracket_checker.c` | arrays that grow; infix to postfix, evaluation, brackets | growth at the limit, a full result buffer, line and column of a mistake | a sequence; the value of the expression; matched brackets |
| trees and tries: `avl_tree.c`, `rbtree_demo.c`, `trie.c`, `autocomplete.c` | nodes with heights, prefixes with counts | rotations, limits on candidates | ordered and balanced; a set of words |
| graphs without weights: `graph_repr.c`, `bfs.c`, `dfs.c`, `maze_bfs.c`, `bipartite_check.c`, `topological_sort.c`, `make_deps.c` | adjacency, distances, colours, explicit queues and stacks | size of the explicit stack, cycles, unreachable vertices | shortest paths, orders, colours |
| graphs with weights: `dijkstra.c`, `bellman_ford.c`, `floyd_warshall.c`, `kruskal.c`, `prim.c` | distances, a heap with stale entries, union-find | stale entries, negative cycles, infinity | distances are shortest, trees spanning and least |
| sorting and searching: `simple_sorts.c`, `merge_quick_sort.c`, `heap_sort.c`, `non_comparison_sorts.c`, `search_compare.c`, `static_array.c` | an array | pivots and thresholds, negative keys, stability, recursion limits | a sorted permutation; what is there is found |

Everything else measures time or layout, calls a foreign allocator, or makes a
deliberate mistake for a sanitizer to report.  `PROJECT.json` lists every file
under a component with its status, and every hazard at its line.

## Modules and how they correspond to the code

A module names its variables and its actions after the code.  In the concurrent
modules **an action is one access to memory that another thread can see**, with
the local computation up to the next such access; `pc[x]` is where thread x
stands.  Accesses interleave, that is, memory is sequentially consistent (see
limits).  A node is its address; `heap` is a ghost that follows the life cycle
of every address and decides what `malloc` may return.  In the sequential
modules **an action is one call**; `ret` is the answer of the last one.  What
has no state between calls is a function of its input.

| module | models | state and actions |
|---|---|---|
| `HazardPointer` | `hazard_pointer.c` | `hp_table`, `hp_thread_count`, `tl_thread_id` (`Register`); `head`, `next` (`Malloc`, `PushLoad` .. `PushCas`, `PopLoad`, `PopProtect`, `PopValidate`, `PopNext`, `PopCas`, `PopRelease`); `retired`, `retired_count` (`Retire`, then a scan that loads one slot in a step: `ScanCount`, `ScanKeep`, `ScanMiss`, `ScanFree`). `malloc` may return any free address, so memory is recycled as early as it can be. |
| `HazardPointerProofs`, `TaggedStackProofs`, `UserspaceRcuProofs`, `LockFreeQueueProofs`, `MCLockFreeProofs`, `AllocatorProofs`, `DictionaryProofs` | | the inductive invariants and the theorems; the Treiber stack and the experiments with atomics are in `MCLockFreeProofs` |
| `LockFreeStack` | `lockfree_stack.c` | the pool index, the stack, and both workers with their totals |
| `LockFreeQueue` | `lockfree_queue.c` | each of the reads and CASes of enqueue and dequeue, `free` by the worker. `malloc` may return a freed address at any time. `stale`, a history variable, says whether it has returned one that some worker still uses (`InUse`). |
| `TaggedStack` | `cas_aba_demo.c` | words `[ptr, tag]`; threads that pop nodes and push them back. `TagMod` is 4 for `TaggedStack`, 1 for `UnsafeStack`. `since` counts the changes a pending CAS has missed. |
| `UserspaceRcu` | `userspace_rcu.c` | `reader_counts`, registration, one load of a counter in a step of `urcu_synchronize`, traversal node by node, `main` with its start, stop flag and joins. `rcu_list_delete` is not called by `main`; it is called here by threads of its own ("deleters"), which `main` joins last. |
| `Atomics` | `atomics_basics.c`, `tsan_demo.c`, `memory_ordering.c` | one experiment is chosen in the initial state. The unprotected `++` is a read and a write between which the build may keep the value for some iterations; the locks, the CAS maximum (`MaxLoad`, `MaxSwap`, `MaxSwapFails`), the producer that fills the buffer piece by piece and then sets the flag, and `get_instance` with its loser that frees its own object |
| `SlabAllocator` | `slab_allocator.c` | allocation from the partial list, with a new slab, or failing; freeing from the full or the partial list. The lists are linked through `next` as in the code, the bitmap is a set of slots, addresses are slab and offset. |
| `PoolsAndArena` | `pool_allocator.c` (`Pool...`), `embedded_pool.c` (`Static...`), `arena_allocator.c` (`Arena...`) | pools: the links are the first words of the slots, which the client overwrites in the slots it holds (`Use`); arena: absolute addresses, rounding, sums modulo the word |
| `HashFunctions` | `hash_functions.c` and its copies | two arbitrary functions of the keys, chosen in the initial state: any keys may collide |
| `ChainingMap` | `hash_chaining.c` | a chain is a sequence of entries; `Put` with the rehashing it starts with |
| `OpenAddressingMap` | `hash_open_addressing.c` | slots with NULL and TOMBSTONE, the three probe sequences, the limit of 2/3; `UpdateBehindTombstone` says whether the client updates a key that a tombstone hides from `oa_put` |
| `RobinHoodMap` | `robin_hood_hash.c` | slots with dib; the loop of `rh_put` is a fold of `Probe`, backward shift deletion is `Shifted` |
| `CuckooMap` | `cuckoo_hash.c` | two tables; the loop of `ck_insert_entry` is a fold of `Evict`, and the entry left in hand after it is freed |
| `RingBuffer` | `ring_buffer.c` | `head` and `tail` are words that are only ever incremented and masked; `push_back` with `grow` |
| `Deque` | the first half of `priority_queue.c` | the ring of nodes through the sentinel, node by node, with `malloc` that returns any free address |
| `BinaryHeap` | the heap five files write out | `heapify_up`, `heapify_down` for an order given as a parameter |
| `HeapQueues` | `min_heap.c`, the second half of `priority_queue.c` | the two growing heaps over `BinaryHeap` |
| `Schedulers` | `task_scheduler.c`, `event_scheduler.c` | tasks: submission, execution in steps during which the task and its `on_done` may submit others, success and failure; events: ticks, where each handler is a step in the middle of `scheduler_tick` and may add events to the heap that is being emptied |
| `SinglyLinkedList`, `KernelList` | `singly_linked_list.c`, `doubly_linked_list.c` | the nodes and links of the two lists, with freed addresses taken again |
| `GrowableArrays` | `dynamic_array.c`, `vector.c`, `ArrayStack` of `stack.c`, `sds_simple.c` | memory as a function on its places, size and capacity; each growth policy |
| `Expressions` | `stack.c`, `bracket_checker.c` | `infix_to_postfix` with its bounded result, `eval_postfix`, both bracket checkers with line and column |
| `GraphSearch`, `WeightedGraphs` | the graph programs | one function for one function of the code; explicit queues, stacks and heaps are sequences whose fill level is kept where the code has a fixed array |
| `SearchTrees` | `avl_tree.c`, `rbtree_demo.c`, `trie.c`, `autocomplete.c` | a tree is its root; a trie is a map of the paths of its nodes |
| `Sorting` | the sort and search programs | an int is a key and a tag the program does not see, so that permutation and stability can be stated |
| `SharedSequence`, `Allocator`, `Dictionary`, `SequenceType`, `PriorityQueueType` | | what a shared stack, a shared queue, an allocator, a map, a sequence and a priority queue promise |
| `Chains`, `ChainTheorems` | | the nodes of a linked list as a sequence, and the laws of such lists |
| `MC...` | | constants, symmetry, refinement mappings, inputs |

`MCLockFree`, `MCAllocators`, `MCDictionaries` and `MCStructures` compose
components that do not meet in the code: a behaviour is one of them with its
client, chosen in the initial state (`unit`), and the variables of the others
do not change.  `MCAlgorithms` chooses an input and states, for every
function, what its result has to be by an independent definition (a shortest
path by all paths, a spanning tree by all sets of edges, an order by all its pairs).

The definitions named `...` in a comment "Mutant" are deliberate mistakes in
place of the definition that follows: with each of them one of the properties
fails, which shows that the property says something.

### Refinements

- `HazardPointer` and `LockFreeStack` implement the stack of `SharedSequence`: the abstract stack
  is the chain of nodes from `head`, and push and pop take effect at the
  successful CAS.
- `LockFreeQueue` implements the queue of `SharedSequence`, up to the step with which `malloc`
  hands out a node that some worker still uses (`stale`): the queue is the
  values behind the sentinel; enqueue takes effect at the CAS on `next`
  (line 46), dequeue at the CAS on `head` (line 89), and the value stays right
  until line 95 has stored it.  That NULL is returned only for an empty queue
  needs a witness for an instant in the past: `LockFreeQueue` adds `sawEmpty`.
- The four allocators implement `Allocator`: a pointer gets a block that shares
  no byte with what another pointer of the client holds.
- Three hash tables implement `Dictionary`, whose map is what the table's own
  lookup finds for every key: the refinement says that lookups, updates and
  removals agree with each other, and that `ret` is true.  The cuckoo table
  implements `Dictionary!LossySpec` only: a put that fails may have stored its
  key and have lost another one.
- The ring buffer, the deque, both lists, the three growing arrays and the sds
  string implement `SequenceType`: the abstract sequence is what a traversal of
  the memory finds, and each call changes it, and answers, as its name says.
- Both heaps and both schedulers implement `PriorityQueueType`: what is taken
  is in the bag and nothing in the bag precedes it; the task scheduler's
  order includes the order of submission.

## Runs

| run | instance | shows |
|---|---|---|
| `hazard_pointer` | 1 producer, 2 consumers, 3 addresses, 4 iterations, 2 slots, retired lists of 3 | `ProtectedIsLive`, `CasInstallsSuccessor`, `RetiredOnce`, `StackShape`, `RetireFits`, `ImplementsStack` |
| `lock_free` | stack: 2 pushers, 2 poppers, 2 iterations; queue: 2 enqueuers, 2 dequeuers, one value each; tagged stack: 2 threads, 3 nodes, at most 7 successful CASes; experiments: 4 threads of 2 iterations | `ImplementsStack`, `PublishedIsFrozen`, `ImplementsQueue`, `QueueIntact`, `EmptyIsTrue`, `IntactUntilAba`, `CriticalSection`, `PublishedObjects`, `EndResults` |
| `lockfree_queue_recycle` | 3 enqueuers, 1 dequeuer, any freed node handed out | finding: `EnqueuedIsKept` is violated |
| `tagged_stack_wrap` | 2 threads, 3 nodes, at most 7 successful CASes | finding: `TagPreventsAba` is violated |
| `userspace_rcu` | 2 readers, 1 writer, 1 deleter, 2 addresses, 2 keys | `NoUseAfterFree`, `GracePeriod`, `ListIsExact`, `FindSeesOneList` |
| `userspace_rcu_two_deleters` | 1 reader, 2 deleters | finding: `NoUseAfterFree` is violated |
| `allocators` | 3 slabs of 1, 2 or 3 objects; pools of 4 slots; an arena of 11 bytes; 5 pointers | `AllListsAreExact`, `BlocksAreAligned`, `ImplementsAllocator` |
| `liveness` | hazard pointers with 2 producers and 2 consumers, or RCU with 1 reader, 1 writer, 1 deleter | `WorkersEnd`, `EmptyAtEnd`, `RcuEnds` |
| `structures` | tables: 4 keys, 2 values, 1 or 2 buckets that grow, 8, 6 and 2 + 2 slots; containers: 3 addresses or 4 values; heaps of 5 items; 3 events in 4 ticks | `StructuresAreExact`, `ImplementsDictionary`, `LosesAtMostOne`, `ImplementsSequence`, `ImplementsPriorityQueue`, `EventsRunInTime` |
| `open_addressing_update` | 2 keys, linear probing, any update | finding: `DeletedIsGone` is violated |
| `algorithms` | every input up to a size, see below | `Sorted`, `StacksAnswer`, `GraphsAnswer`, `TreesAnswer` |
| `make_deps` | the dependencies `main` states | finding: `CyclesAreReported` is violated |

`QueueIntact` joins four invariants of the queue (nobody links a node anywhere
but behind the end, `tail` is the last node or the one before it, a dequeuer
finds its value, and frees what it owns), `AllListsAreExact` those of the
allocators, `StructuresAreExact` those of the containers, each named in its
module.

## Bounds

Why the interesting cases happen:

- `hazard_pointer`: an address is recycled as soon as it is freed, and four
  iterations over three addresses force it.  A consumer retires three nodes
  and scans while the other one protects; with a retired list of 3 the bound the
  theorem needs (more than two for each other consumer) is tight.  The second
  slot of a record is never written by the code, and the scan reads it.
- `liveness`: retired lists of one entry make every pop end in a scan, and the
  deleter's grace period meets the reader at every point.  Liveness is checked without symmetry and without spurious failures: a CAS that
  fails for no reason for ever is not excluded by any fairness of the scheduler.
- `lock_free`: two enqueuers make the tail lag and be helped; two dequeuers
  race for the last node.  A freed node is handed out to the second enqueuer, also while
  others use it; from then on the properties of the queue ask nothing.  Seven successes on the tagged stack are more than the four that bring the tag
  round, before and after which the threads may hold old words.  Two pieces of
  the published buffer can be seen half filled; a spin lock whose CAS has failed once
  and a maximum that is overtaken between load and CAS both occur with two
  threads, and four take part.
- `userspace_rcu`: the deleter unlinks, waits and frees a node on which readers
  stand, which register before, during and after the wait; the freed address is
  inserted again by the writer.
- `allocators`: five objects fill one slab of three and move it, and leave a slab
  in the middle of the full list if slabs hold one; totals wrap round modulo 6;
  a pool of four is exhausted by five pointers; 4, 2 and 1 byte requests leave
  gaps in the arena.
- `structures`, tables: four keys collide in every pattern small hash values allow.
  Chaining rehashes up to three times and meets its limit 0.75 exactly (three
  entries in four buckets).  Eight slots are the fewest where quadratic probing
  misses free slots (it visits three), so that `oa_put` finds no room below its
  limit; probing and shifting wrap round the end of the array.  Three keys that
  share both cuckoo slots make a put fail.
- `structures`, containers: the ring's indices are words of eight values (`WORD`), so that
  they overflow, and it grows from one and from three requested places while its
  content wraps round.  Three addresses are reused by the lists in every order.
  Arrays start with no place or one and grow to four.  The two values of one
  key tell stable from unstable removal, and equal keys exercise ties.  A scheduler
  sees three events, more than a heap needs to be out of order, over four instants,
  with handlers that add events for the past, the present and the future.
- `algorithms`: arrays of up to six of four keys, one of them negative, cross the
  insertion threshold (2) and fill two digits of radix 4; expressions of up to
  four operands with every size of the result buffer; texts of up to five characters with
  line ends; all undirected graphs of five vertices, all weights from four values on
  four; directed graphs with negative weights and a cycle; mazes of 3 x 4;
  trees of up to five of six keys meet all four rotations; words of up to three of
  two letters, with room for two candidates (`MAX_CAND`).

Deadlock is checked in every passing run of a system that goes on: all threads done is a step of
its own (`Terminating`, and for the hazard pointers in `MCLiveness`: with more
consumers than producers the last consumer searches for ever).  `algorithms` and
`make_deps` stop when the function has been applied.  Symmetry is used for thread, node and address
names only, never together with liveness.  In `MCLockFree` the threads of all
programs and the nodes of the tagged stack share names, so that one small group serves all.

## Fairness

`MCSpec` of `MCLiveness` assumes weak fairness of each thread's steps: the operating system
goes on scheduling a thread that can run.  That is what the code's busy waiting
relies on (`while ((n = hps_pop(&g_hps)) == NULL) ;`).  No fairness is assumed
between the alternatives inside a thread, nor for a CAS to succeed: that a
retry ends follows from the bounded work of the other threads.

## Findings

1. **Queue, freed sentinels** (`lockfree_queue.c:131`).  `dequeue_worker` frees
   the node `lf_queue_dequeue` returns while others may hold it.  If `malloc`
   hands it out again, the CAS of line 46 can link a node behind one that is no
   longer in the queue: the enqueue reports success and the value is lost.
   All properties hold up to the step with which `malloc` hands out a node that some worker
   still uses, also with recycled nodes: that step is the whole of the mistake.
2. **Two tag bits** (`cas_aba_demo.c:96`).  The tag prevents ABA only for fewer
   than four changes.  `IntactUntilAba` is what it does guarantee.
3. **Two deleters** (`userspace_rcu.c:108`).  `rcu_list_delete` reads the head's
   key and next outside of a read section, so a second deleter can free the node
   in between.  With one deleter the list is safe.
4. **Updating behind a tombstone** (`hash_open_addressing.c:84`).  `oa_put` takes the
   first tombstone although its key is in a later slot.  The key is then stored
   twice, `size` counts it twice, and after `oa_remove` the older value is found.
   A client that does not update such keys has a map.
5. **A module that is not there** (`make_deps.c:63`).  `main` makes module 7 depend
   on module 9 where `V` is 8.  The dependency is counted and never taken away, so
   `kahn_topo` orders seven modules, and `main` prints that the dependencies are
   circular, which they are not.

Observations without a run of their own:

- A put into the cuckoo table that
  gives up frees the entry in hand (`cuckoo_hash.c:106`), which may belong to another
  key, while the key it reports as failed is stored: `LosesAtMostOne` states
  what remains true, and the comment of line 105 says that a rehash is needed there.
- `hps_pop` returns NULL at line 107 without
  `hp_release` when an earlier attempt in the same call has published a pointer.
  The stale pointer delays the freeing of one node; safety is not affected, and the
  theorem on `RETIRE_LIMIT` counts such pointers.
- `infix_to_postfix` (`stack.c:86`, `99`, `111`) neither pops nor leaves its loop when
  the result is nearly full.  With two places for every token and one for the end it ends and
  is right, and with fewer it never answers true, as `StacksAnswer` states; but it need not
  end then, not even with the places the result would just fit: an outcome of its own in
  `Expressions`.
- The explicit stack of `dfs_iterative` (`dfs.c:49`) has one place for every vertex, but a
  vertex is pushed once for every edge that leads to it.  `GraphsAnswer` bounds the places by
  the number of edges; a graph with more than `MAX_V` of them may need more than there are.
- Line 81 of `dijkstra.c` changes no distance: without it the old entries of the heap would
  be relaxed from again, in vain.  `GraphsAnswer` states what it is for, that the edges of
  every vertex are relaxed once.
- `ac_suggest` cuts its candidates at `MAX_CAND` before it sorts them
  (`autocomplete.c:48`): the words it shows are the best of the first `MAX_CAND` in the order
  of the dictionary, which is what `TreesAnswer` states, and not of all.

## Proofs

Every theorem holds for all values of the constants that satisfy the named
assumptions.  The table names the property of a run that a theorem states.

| theorem | property | about |
|---|---|---|
| `HazardPointerProofs`: `TypeCorrect` | `TypeOK` | |
| `NoUseAfterFree` | `ProtectedIsLive` | line 116 of `hazard_pointer.c` |
| `NoAba` | `CasInstallsSuccessor` | line 117 |
| `NoDoubleFree` | `RetiredOnce` | lines 62-76 |
| `NoOverflow` | `RetireFits` | line 63 |
| `ListIsIntact` | `StackShape` | lines 90-124 |
| `StackIsImplemented` | `ImplementsStack` | refinement of the stack of `SharedSequence` |
| `BalancedRunsEndEmpty` | `EmptyAtEnd` | what `main` prints at its end |
| `MCLockFreeProofs`: `NoDataRace` | `PublishedIsFrozen` | line 42 of `lockfree_stack.c` |
| `StackIsImplemented` | `ImplementsStack` | refinement of the stack of `SharedSequence` |
| `TotalsAreRight` | `EndResults` | the totals of `lockfree_stack.c` and of every counter |
| `LocksExclude` | `CriticalSection` | `atomics_basics.c`, `tsan_demo.c` |
| `PublicationIsSafe` | `PublishedObjects` | `memory_ordering.c` |
| `TaggedStackIsIntact` | `IntactUntilAba` | `cas_aba_demo.c` |
| `QueueIsIntact` | `QueueIntact` | lines 46 and 83-95 of `lockfree_queue.c`, until `stale` |
| `EmptyAnswersAreTrue` | `EmptyIsTrue` | line 81 of `lockfree_queue.c`, until `stale` |
| `QueueIsImplemented` | `ImplementsQueue` | refinement of the queue of `SharedSequence`, until `stale` |
| `TypesAreRight` | `MCTypeOK` | |
| `AllocatorProofs`: `TypesAreRight` | `TypeOK` | |
| `AllListsExact` | `AllListsAreExact` | the lists of `slab_allocator.c`, its assertion on line 101, and both pools |
| `BlocksAligned` | `BlocksAreAligned` | `arena_alloc` |
| `PromiseIsKept` | `ImplementsAllocator` | refinement of `Allocator` by all four |
| `UserspaceRcuProofs`: `TypeCorrect` | `TypeOK` | |
| `NodesAreNotUsedAfterFree` | `NoUseAfterFree` | `userspace_rcu.c` |
| `GracePeriodProtects` | `GracePeriod` | `urcu_synchronize` |
| `ListIsRight` | `ListIsExact` | no update is lost |
| `FindAnswersFromOneList` | `FindSeesOneList` | an action property |
| `DictionaryProofs`: `TablesTyped` | `TypeOK` | all four hash tables |
| `TablesExact` | | `TablesAreExact`, the part of `StructuresAreExact` about the four hash tables |
| `TablesImplementDictionary` | `ImplementsDictionary` | refinement of `Dictionary`; if no key of the open addressing table is updated behind a tombstone |
| `CuckooLosesAtMostOne` | `LosesAtMostOne` | refinement of `Dictionary!LossySpec` by `cuckoo_hash.c` |

Further theorems (`TagTheorem`, `AbaNeedsWrap`, `CountsAreRight`,
`ExperimentsAreRight`, the invariants themselves) are stated in the modules.

### Lists

All lists of the concurrent programs and of the allocators are seen through `Chain(first, link, null)`,
the nodes from `first` along `link`.  It is a recursive function, and the
library's induction theorems cannot be used (they take an operator as
a parameter).  `ChainTheorems` replaces them: a set of counterexamples that is
not empty has a least element, which gives `ChainUnique`, that a sequence of distinct nodes each
linked to the next is what `Chain` computes.  From it follow the laws
the programs need: the first node can be taken off (`FirstOfChain`), a node can be
put in front (`PushOnChain`), and links outside the list do not matter
(`ChainKept`).  The queue also needs a node behind the last one
(`AppendToChain`) and the place of a node in its list (`PlacesOfChain`); the slab cache takes a node out of the middle
(`UnlinkFromChain`).  No later proof looks into the recursion.

### Hazard pointers

Assumptions: finitely many threads, at most `MAX_THREADS` of them (the table has
that many records and registration does not check), producers and consumers are
different threads, and `RetireLimitSuffices`:
`RETIRE_LIMIT > 2 * (Cardinality(Consumers) - 1)`.  In the code 64 against at
most 2 * 15.  Without it a scan could keep a full list and the next
`hp_retire` would write behind the array.

None of the properties is inductive alone, and they are
proved together as `IInv`:

- `IdsInv`: registered threads have different ids below `hp_thread_count`, so
  nobody writes another thread's record;
- `SlotsInv`: only slot 0 of a registered consumer is in use; it holds
  `old_head` from `PopProtect` to the CAS, and nothing while the owner retires;
- `OwnInv`: a node that is being pushed, or was popped, has one owner;
- `PopInv`: the copy of `next` a consumer took is still current;
- `RangeInv`: the locals of the scan stay in range;
- `StackShape`, `ProtectedIsLive`, `RetiredOnce`: as checked;
- `ScanInv`, the heart of `NoUseAfterFree`: if a scan is about to free a node that a
  validated consumer uses, then it has still to load the very slot in which that
  consumer published it.  It holds because a node in a retired list is not in
  the stack, so a consumer can validate it only if it did so before the node
  was popped, which is before the scan began; its id is then below the count
  the scan has read;
- `KeepInv`, the heart of `NoOverflow`: of the entries of a list that is being scanned, those kept
  and those that may still be kept are at most two for each other consumer, the
  node its slot holds and the node it is about to publish.

The refinement adds `ListInv`: the chain from `head` ends and holds exactly the
nodes of status "stack".  A push is `PushOnChain`, a pop `FirstOfChain`
(`NoAba` gives it the right successor), every other step `ChainKept`.
`BalancedRunsEndEmpty` adds `CountInv`.  An iteration is the pair of its thread and its
number; the pushed nodes and the popped ones are counted by bijections with sets of such pairs,
so that equal numbers of pushes and pops leave an empty stack.

### The Treiber stack

No assumption but that the threads are finitely many and NULL is no node.  The invariant
says who owns which node of the pool (`OwnInv`), that a popper's copy of `next` is
current (`PopInv`), that the list from `head` ends and holds published nodes
only (`ListInv`), and, by pairs again, how many were taken from the pool, pushed and
popped (`CountInv`).  `NoDataRace` is the reason why the plain load of line 42 is
none: only private nodes are written.

### The queue

Assumptions: finitely many threads, NULL is no number, enqueuers and dequeuers are
different threads.  Nothing is assumed of `malloc`: it may hand out every freed address.
That is where the code goes wrong (finding 1), and the theorems say exactly how far it is right:
`stale` becomes true with the step with which `malloc` hands out a node that some worker
has read as `tail` or `head` and goes on to use, and up to that step, however often other
nodes were recycled before, the properties hold.

So the invariant `IInv` has two tiers.  `BaseInv`, that pointers and values keep their types and
which pointers are not NULL at which step, holds always, and gives `TypeCorrectness`.  `SafeInv` and
`EmptyInv` hold as long as `stale` is false; a step that makes it true has nothing to show.

`SafeInv` is about the nodes that were linked and not handed out since, `Past`, and the
links between them.  The linked nodes are the chain from `head`, `tail` is the last or
the last but one, and what was taken off keeps a next (`QueueInv`; `AppendToChain` and
`FirstOfChain` for the two CASes).  What a worker has read is tied to the present by what cannot
change while the node is in use: an old tail whose next is NULL is the tail, an old head that is
still linked is the head, and a `next` that was read and is not NULL is still
right (`EnqOk`, `DeqOk`).  Three reads that are not one snapshot are then no
problem: an old head that differs from the old tail, which was read later, has a
successor (`nxt` is not NULL on line 87), and if it still is the head at the CAS, it
is not the tail, although `tail` may have moved.  `OwnInv` and `TakenInv` give
every node that is not in the queue to one worker.  Where a recycled node would break one
of these, the node was in use, and `stale` is true (`NoneReused`).

`EmptyInv` is the invariant for `EmptyIsTrue`: a NULL in the next of the old head
was read from the last node while that was the head, so the queue held only the
sentinel at the instant of the read.  For the refinement the contents are
the values of the chain behind the sentinel: a CAS on `next` puts one behind them
(`LinkPuts`), a CAS on `head` takes the first (`CasTakes`), and nothing else changes
them (`ContentsStay`).

### The tag

`TagTheorem`: a CAS that is about to succeed has missed a multiple of `TagMod`
changes; `AbaNeedsWrap`: so the first CAS that succeeds wrongly comes after at least
`TagMod` of them.  With `TagMod` = 1, the unsafe stack, a single change is enough, as it
should be.  `TagInv` says that the tag a thread has loaded and the changes since
add up, modulo `TagMod`, to the tag of the stack; a successful CAS adds one to
both sides (`NextTag`).  `LocalsInv` says what the threads hold, and, as long as no CAS has missed
a change, `ListInv`, `LinksInv` and `WholeInv` that the nodes of no thread are the
list from the top and that only the owner of a node changes its `next`; they give
`IntactUntilAba`.  The lemmas on remainders are proved
from the uniqueness of quotient and remainder, since the modulus is not a number.
Assumptions: there is at least one tag, NULL is no node, the nodes are finitely many.

### Atomics, locks, publication

The invariant has a part for each experiment.  `CounterInv` says that a protected counter is the number
of finished increments, as pairs of thread and iteration; `PlainInv` bounds the
unprotected one from both sides; `MaxInv` says that the greatest value offered
is stored or that a thread is about to store it; `PublishInv` and `SingletonInv` order the writes
before the publication.

### The RCU list

`ThreadInv` (ids, counts, and who runs which code) needs no assumption.
`MemoryInv` needs `OneDeleter`, at most one thread that runs
`rcu_list_delete`: that function reads the first node
outside of a read section, and `urcu_synchronize` protects a node
from readers, not one deleter from another (finding 3).  The program itself calls
it from no thread at all.  The heart is `GraceInv`: a reader
that a grace period has passed, or that registered after it began, walks a list
that does not contain the unlinked node.  It is proved from `FindInv` (a reader's list ends and
consists of nodes that were not freed) and from the fact that a
node once unlinked is in no list that starts at the head.

### The allocators

Assumptions: finitely many slabs and client pointers; NULL and the pattern `memset` writes are
no slot; the counters of the slab cache have more values than the client has
pointers; `malloc` gives the arena an address with the alignment of every request, and the
requests are far below the greatest number, as the callers in the files do it.
Every theorem on the arena needs the last two: `align_up` rounds an
offset, not an address, and its sum may wrap.

`FreeListInv` is the same for both pools, as an operator of the first slot, the links and
what the client's pointers hold: the list ends, it has exactly the slots no
pointer holds, and no two pointers hold the same slot.  Each operation is then one lemma on
lists (`TakeSlot`, `GiveSlot`, `WriteSlot`): a client may write any word, also one that looks
like a link, into the slot it holds, because that slot is on no list.  `PoolInv` adds
that no free slot has the pattern in its first word (`pool_free` writes the
pattern before the link, not after it) and `StaticInv` that nothing is held before the
first call, when the list is not there yet.

`SlabInv` relates four views of the same objects: what the client holds (`ObjectsInv`), the bitmaps
and the counts (`BitmapsInv`), the two lists (`SlabListsInv`) and the statistics
(`StatisticsInv`).  They have to be proved together.  The assertion `slot >= 0` follows from
a count that is positive on the partial list and a bitmap that has exactly the others
(`FreeSlotFound`); that free finds its slab on one of the lists follows from the
slab's being created; and that the bit it clears was set from the client's
holding it.  In `AllocInEffect` and `ClearSlotEffect` one slot changes and every other
slab keeps its slots, `AllocInLists` and `FreeFullInv` move the slab.  The two statistics
counters wrap, so the invariant says that their difference is the number of objects or
that number less `WORD`.

`ArenaInv` says that of two blocks one ends before the other begins and that all end where the
arena is used.  The refinement follows from these: the new block is disjoint from
every held one since its slot is held by nobody, and two slots of one slab share no byte
(`SlotsApart`), or because it begins behind what is used.

### The hash tables

Assumptions: every capacity is positive; the hash values are natural numbers; NULL, the tombstone and
what a lookup of an absent key returns are told from entries and values.  The hash functions
themselves are arbitrary, so everything holds under any collisions, and so are the
capacity, the probing method and the limit on evictions.

What a table holds is a set of pairs (`HmContent`, `OpenContent`, `RobinContent`,
`CuckooContent`).  Each proof has two halves: the invariant makes the table's own lookup find
exactly that set (`...FindsContent`), and each call changes the set as a map would change
(`ContentStep`, for the cuckoo table `LossyStep`), so that
the refinement is a fact on sets of pairs (`StepIsCall`, `LossIsCall`).

- *Chaining* (`HmInv`): each chain has the entries of its bucket and no key twice.
  Rehashing flattens the chains and relinks the entries one by one; what such a loop has done after
  any number of rounds is proved by induction on the number (`MovesUpTo`).
- *Open addressing* (`OpenInv`): no slot on the path of a key before its entry was never used
  (`OpenPaths`), which is why a removal leaves a tombstone.  This holds for any client.  That no key is in two
  slots (`OpenKeysOnce`) is kept only if no key is updated behind a tombstone (finding 4), and with
  it a lookup finds the value stored last: the assumption `UpdatesInPlace`.
- *Robin Hood* (`RobinInv`): an entry is at its distance from its home, and each cell before it on the
  way holds an entry at least as far from its own home.  So the lookup may stop at an entry that is
  nearer.  While an insertion carries an entry along (`Carrying`), table and hand together are the old
  content and the new key; it meets an empty cell since the table is never more than three quarters full.
  A removal moves a run of entries back by one, up to the first cell that is
  empty or holds an entry at home (`MovedBack`, `EndsRun`), also across the end of the array.
- *Cuckoo* (`CuckooInv`): each entry is in its own cell of its table and no key is in both.  The invariant
  of the loop includes the entry in hand (`CuckooWhole`), so that a put that gives
  up loses that entry and nothing else.  This needs no assumption on the client.

`TablesInv` is the conjunction, and a call of one table leaves the others' parts as they are.

### From a program to `MCSpec`

The run `lock_free` checks one specification for several programs.
`MCLockFreeProofs` has the invariants of the Treiber stack and of the experiments, instantiates the
proof modules of the queue and of the tagged stack with the variables they have there, and carries each
inductive invariant over to `MCSpec`: a step is a step of the chosen program, and the
variables of the others stay.

### What is not proved

- Liveness (`WorkersEnd`, `RcuEnds`): the prover does no reasoning about fairness.
- The queue after `malloc` has handed out a node in use: the run `lockfree_queue_recycle` shows
  what goes wrong then.
- `ImplementsDictionary` for a client that updates a key behind a tombstone: it is false (finding 4).
- What the algorithms compute, and the containers and schedulers of `MCStructures`: recursion over
  data.  The heap, the deque and the lists are written with recursive operators, and the
  ring buffer with bit operations, which the prover does not know.

## What is not modelled, and why

- *Weak memory.*  TLC explores interleavings of a sequentially consistent
  memory.  The code's `release`/`acquire`/`relaxed` arguments are not checked: a
  property that holds here could fail on hardware only through a missing order.
- *Data.*  Values are left out where no property speaks of them; counters
  that are only printed (`pushed`, `enq_count`, `read_count`) as well.  Numbers in
  expressions have one digit, text is a sequence of a few characters.
- *`malloc` failing* is modelled for the slab cache, which checks for it; the
  concurrent programs do not check, and there `malloc` waits for a free address.
  The sequential containers mostly `exit` then, and the models end there.
- *Huge sizes* in `arena_alloc`: the sum is modelled modulo a power of two, but the
  client asks for the sizes the program uses.  A size near the greatest `size_t` makes the sum wrap
  (line 39), which no property covers.
- *Callers.*  `atomic_update_max` is called by one thread in `main`; the model
  calls it from several, which is what it is for.  The release of the singleton
  at the end of `main` is left out.
- *Destructors* that run once at the end (`pool_destroy`, `arena_destroy`, `vec_destroy`
  and the like) and `transpose` of `static_array.c`.
- *`tree_traversal.c`, `bst.c`, `recursive_stack.c`, `qsort_usage.c`*: they print a fixed tree, or
  call the C library.
- *Measurements, demonstrations, deliberate mistakes, string functions*: see `PROJECT.json`.

## Plan

Done: the models of all components with a state or an algorithm of their own, their
abstract specifications, and the proofs of the hazard pointers, the Treiber
stack, the queue up to the reuse of a node in use, the tagged stack, the experiments with atomics,
the RCU list with one deleter, the four allocators and the four hash tables.  Of the safety
properties only those of `MCStructures` and `MCAlgorithms` are left to TLC.  What could come next:

1. the ring buffer, with `% capacity` in place of the bit mask, and the growing arrays: their state
   needs no recursion;
2. the heap, with `heapify_up` and `heapify_down` as recursive functions.
