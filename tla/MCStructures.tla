---------------------------- MODULE MCStructures ----------------------------
(* The sequential containers against what they promise: the four hash      *)
(* tables of MCDictionaries, the lists, arrays, queues and stacks, and the *)
(* heaps with the two schedulers built on them.  A behaviour is one        *)
(* container, chosen in the initial state, and its client.                 *)
EXTENDS MCDictionaries, Bags

CONSTANTS
    Addr,               \* addresses malloc can return, for the lists
    SENTINEL,
    WORD, RingSizes, MaxCount,
    ArraySizes, MaxSize,
    Priorities, MaxSeq, MAX_EVENTS, MaxNow

VARIABLES
    obj,            \* the container under test
    answer          \* its last call

containerVars == <<obj, answer>>

\* Two values of one key and one of another; 0 where a heap has an order.
Values == {<<1, 0, "a">>, <<1, 0, "b">>, <<2, 0, "a">>}
Names == {<<1, 0, "a">>, <<2, 0, "a">>}

Ring == INSTANCE RingBuffer WITH Value <- Names, Capacities <- RingSizes, rb <- obj, ret <- answer
Dq == INSTANCE Deque WITH Value <- Names, dq <- obj, ret <- answer
Sll == INSTANCE SinglyLinkedList WITH Value <- Values, list <- obj, ret <- answer
Dll == INSTANCE KernelList WITH Value <- Values, HEAD <- SENTINEL, list <- obj, ret <- answer
Array == INSTANCE GrowableArrays WITH Value <- Names, v <- obj, ret <- answer
Heap == INSTANCE HeapQueues WITH Item <- Values, Capacities <- ArraySizes \ {0}, h <- obj, ret <- answer
Scheduler == INSTANCE Schedulers WITH Capacities <- ArraySizes \ {0}, s <- obj, ret <- answer

Sequences == {"ring", "deque", "singly", "kernel", "vector", "dynamic array", "array stack", "sds"}
Heaps == {"min heap", "priority queue", "tasks", "events"}

ContainerInit ==
    CASE unit = "ring"           -> Ring!Init
      [] unit = "deque"          -> Dq!Init
      [] unit = "singly"         -> Sll!Init
      [] unit = "kernel"         -> Dll!Init
      [] unit = "vector"         -> answer = NULL /\ \E n \in ArraySizes : obj = Array!vec_create(n)
      [] unit = "dynamic array"  -> answer = NULL /\ obj = Array!da_init
      [] unit = "array stack"    -> answer = NULL /\ \E n \in ArraySizes \ {0} : obj = Array!astack_init(n)
      [] unit = "sds"            -> answer = NULL /\ obj = Array!sds_new(<<>>)
      [] unit \in {"min heap", "priority queue"} -> Heap!Init
      [] unit = "tasks"          -> Scheduler!TaskInit
      [] unit = "events"         -> Scheduler!EventInit
      [] OTHER                   -> obj = NULL /\ answer = NULL

StructuresInit == MCInit /\ ContainerInit

ContainerNext ==
    \/ unit = "ring" /\ Ring!Next
    \/ unit = "deque" /\ Dq!Next
    \/ unit = "singly" /\ Sll!Next
    \/ unit = "kernel" /\ Dll!Next
    \/ unit = "vector" /\ Array!VectorNext
    \/ unit = "dynamic array" /\ Array!DynArrayNext
    \/ unit = "array stack" /\ Array!StackNext
    \/ unit = "sds" /\ Array!SdsNext
    \/ unit = "min heap" /\ Heap!MinHeapNext
    \/ unit = "priority queue" /\ Heap!PriorityQueueNext
    \/ unit = "tasks" /\ Scheduler!TaskNext
    \/ unit = "events" /\ Scheduler!EventNext

StructuresNext ==
    \/ MCNext /\ UNCHANGED containerVars
    \/ ContainerNext /\ UNCHANGED allVars

StructuresSpec == StructuresInit /\ [][StructuresNext]_<<allVars, containerVars>>

-----------------------------------------------------------------------------
\* Every container is whole after every call: size, count and capacity are those
\* of its content; each list holds every node there is once and its links agree
\* in both directions; each array of a heap is a heap; every entry of a hash
\* table is where a lookup of its key comes.
StructuresAreExact ==
    CASE unit = "ring"   -> Ring!RingExact
      [] unit = "deque"  -> Dq!DequeExact
      [] unit = "singly" -> Sll!ListExact
      [] unit = "kernel" -> Dll!ListExact
      [] unit \in {"vector", "dynamic array", "array stack"} -> Array!ArrayExact
      [] unit = "sds"    -> Array!StringExact
      [] unit \in {"min heap", "priority queue"} -> Heap!HeapExact
      [] unit = "tasks"  -> Scheduler!TasksExact
      [] unit = "events" -> Scheduler!EventsExact
      [] OTHER           -> TablesAreExact

Contents ==
    CASE unit = "ring"   -> Ring!Contents
      [] unit = "deque"  -> Dq!Contents
      [] unit = "singly" -> Sll!Contents
      [] unit = "kernel" -> Dll!Contents
      [] unit \in {"vector", "dynamic array", "array stack", "sds"} -> Array!Contents
      [] OTHER           -> <<>>

Queued ==
    CASE unit \in {"min heap", "priority queue"} -> Heap!Bag
      [] unit = "tasks"  -> Scheduler!TaskBag
      [] unit = "events" -> Scheduler!EventBag
      [] OTHER           -> EmptyBag

AnswerOf(units) == IF unit \in units THEN answer ELSE <<"none">>

Sequence == INSTANCE SequenceType WITH
    seq <- Contents, ret <- AnswerOf(Sequences), None <- NULL

Queue == INSTANCE PriorityQueueType WITH items <- Queued, ret <- AnswerOf(Heaps)

\* Whatever way the memory goes (growth, wrapping round, nodes freed and taken
\* again), every call of a list, array, queue or stack changes the sequence it
\* stands for as it says, and answers what that sequence holds.
ImplementsSequence == Sequence!Spec

\* Every heap gives back what was put into it, each item once, and always one
\* that no other precedes; tasks of one priority in the order of submission.
ImplementsPriorityQueue == Queue!Spec

\* An event runs in the tick of its time, or at once in the tick in which it is
\* added too late, also by a handler; when a tick has ended none that was due
\* is left (scheduler_tick, lines 66-76 of event_scheduler.c).
EventsRunInTime == unit = "events" => Scheduler!RunsInTime
=============================================================================
