----------------------------- MODULE Schedulers -----------------------------
(***************************************************************************)
(* The two schedulers, each over a binary heap of its own.                 *)
(*                                                                         *)
(* src/task_scheduler.c: a heap of tasks by priority and, for the same     *)
(* priority, by the order of submission.  While a task executes, it or its *)
(* on_done may submit others.                                              *)
(*                                                                         *)
(* src/event_scheduler.c: events by the time they are due, and the ticks   *)
(* of main, one for every second.  A handler is called in the middle of    *)
(* scheduler_tick and may add events to the heap that is being emptied.    *)
(***************************************************************************)
EXTENDS Integers, SequencesExt

CONSTANTS
    NULL,
    Priorities,
    Capacities,     \* what sched_init is called with
    MaxSeq,         \* bound: the tasks submitted
    MAX_EVENTS,
    MaxNow          \* bound: the last tick

VARIABLES
    s,              \* the Scheduler, or the EventHeap with now and where scheduler_tick is
    ret

vars == <<s, ret>>

-----------------------------------------------------------------------------
(* Tasks: one in the heap is <<priority, seq>>.                            *)

\* Mutant: tasks of the same priority come in any order.
less_by_priority(a, b) == a[1] < b[1]

sched_less(a, b) == IF a[1] # b[1] THEN a[1] < b[1] ELSE a[2] < b[2]
TaskTree == INSTANCE BinaryHeap WITH Less <- sched_less

\* g_seq, and the task that runs with its status, belong to the program.
sched_init(capacity) ==
    [heap |-> <<>>, size |-> 0, capacity |-> capacity, g_seq |-> 0, running |-> NULL]

TaskInit == ret = NULL /\ \E c \in Capacities : s = sched_init(c)

sift_up(t) == TaskTree!push(s.heap, s.size, t)
sift_down == TaskTree!pop(s.heap, s.size)

sched_submit(priority) ==
    LET t == <<priority, s.g_seq>>
    IN  /\ s.g_seq < MaxSeq
        /\ s' = [s EXCEPT !.heap = sift_up(t),
                          !.size = @ + 1,
                          !.capacity = IF s.size >= @ THEN @ * 2 ELSE @,
                          !.g_seq = @ + 1]
        /\ ret' = <<"push", t>>

\* The realloc, or the malloc of the task, fails.  A realloc that succeeded
\* leaves the greater capacity.
SubmitRefused ==
    /\ s' \in {s} \union {[s EXCEPT !.capacity = IF s.size >= @ THEN @ * 2 ELSE @]}
    /\ ret' = <<"refused">>

\* sched_run_one up to the call of execute
sched_run_one ==
    /\ s.running = NULL
    /\ IF s.size = 0 THEN ret' = <<"empty">> /\ UNCHANGED s
       ELSE /\ ret' = <<"pop", s.heap[0]>>
            /\ s' = [s EXCEPT !.heap = sift_down, !.size = @ - 1,
                              !.running = [task |-> s.heap[0], status |-> "RUNNING"]]

\* execute returns, on_done is called.
Finish ==
    \E status \in {"DONE", "FAILED"} :
        /\ s.running # NULL /\ s.running.status = "RUNNING"
        /\ s' = [s EXCEPT !.running.status = status]
        /\ ret' = <<"other", status>>

\* on_done returns and the task is freed.
FreeTask ==
    /\ s.running # NULL /\ s.running.status # "RUNNING"
    /\ s' = [s EXCEPT !.running = NULL]
    /\ ret' = <<"other", "freed">>

TaskNext ==
    \/ \E p \in Priorities : sched_submit(p)
    \/ SubmitRefused \/ sched_run_one \/ Finish \/ FreeTask

Tasks == {s.heap[i] : i \in 0 .. s.size - 1}
TaskBag == [x \in Tasks |-> 1]

\* The heap is one, no task is in it twice or while it runs.
TasksExact ==
    /\ s.size <= s.capacity /\ TaskTree!IsHeap(s.heap, s.size)
    /\ Cardinality(Tasks) = s.size
    /\ s.running # NULL => s.running.task \notin Tasks

-----------------------------------------------------------------------------
(* Events: one is <<trigger_at, 0, the time at which it was added>>.       *)

Before(x, y) == x[1] < y[1]
EventTree == INSTANCE BinaryHeap WITH Less <- Before

EventInit ==
    /\ ret = NULL
    /\ s = [data |-> <<>>, size |-> 0, now |-> 0, pc |-> "main", running |-> NULL]

\* Mutant: an event is due one tick after its time.
DueLate == s.size > 0 /\ s.data[0][1] < s.now

Due == s.size > 0 /\ s.data[0][1] <= s.now

SiftedUp(e) == EventTree!push(s.data, s.size, e)
SiftedDown == EventTree!pop(s.data, s.size)

\* Called by main between two ticks, or by a handler
scheduler_add(trigger_at) ==
    LET e == <<trigger_at, 0, s.now>>
    IN  /\ s.pc \in {"main", "handler"}
        /\ IF s.size >= MAX_EVENTS THEN ret' = <<"refused">> /\ UNCHANGED s
           ELSE /\ s' = [s EXCEPT !.data = SiftedUp(e), !.size = @ + 1]
                /\ ret' = <<"push", e>>

scheduler_tick ==
    /\ s.pc = "main"
    /\ s' = [s EXCEPT !.pc = "tick"]
    /\ ret' = <<"other", "tick">>

\* The event is copied and taken out before its handler is called.
RunEvent ==
    /\ s.pc = "tick" /\ Due
    /\ s' = [s EXCEPT !.data = SiftedDown, !.size = @ - 1,
                      !.pc = "handler", !.running = s.data[0]]
    /\ ret' = <<"pop", s.data[0]>>

HandlerReturns ==
    /\ s.pc = "handler"
    /\ s' = [s EXCEPT !.pc = "tick", !.running = NULL]
    /\ ret' = <<"other", "returned">>

\* The loop ends, and main goes on with the next second.
EndOfTick ==
    /\ s.pc = "tick" /\ ~ Due /\ s.now < MaxNow
    /\ s' = [s EXCEPT !.pc = "main", !.now = @ + 1]
    /\ ret' = <<"other", "end">>

\* The last tick ends, and with it the program.
Terminating == s.pc = "tick" /\ ~ Due /\ s.now = MaxNow /\ UNCHANGED vars

EventNext ==
    \/ \E t \in 0 .. MaxNow : scheduler_add(t)
    \/ scheduler_tick \/ RunEvent \/ HandlerReturns \/ EndOfTick \/ Terminating

Events == {s.data[i] : i \in 0 .. s.size - 1}
EventBag == [x \in Events |-> Cardinality({i \in 0 .. s.size - 1 : s.data[i] = x})]

EventsExact == s.size <= MAX_EVENTS /\ EventTree!IsHeap(s.data, s.size)

\* An event runs in the tick of its time, or at once in the tick in which it is
\* added too late, also by a handler; when a tick has ended none that was due
\* is left.
RunsInTime ==
    /\ s.pc = "handler" =>
          s.now = IF s.running[1] > s.running[3] THEN s.running[1] ELSE s.running[3]
    /\ s.pc = "main" => \A x \in Events : x[1] >= s.now \/ x[3] = s.now
=============================================================================
