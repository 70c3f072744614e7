------------------------------ MODULE Atomics -------------------------------
(***************************************************************************)
(* The experiments of src/atomics_basics.c, src/tsan_demo.c and            *)
(* src/memory_ordering.c with threads, locks and publication.  Every       *)
(* action is one access to memory that another thread can see.             *)
(*                                                                         *)
(* Counters: threads increment one without protection ("plain"), with a    *)
(* fetch_add, under a mutex or under the spin lock; "max" is               *)
(* atomic_update_max.  Publication: "publish" is the producer with its     *)
(* consumers, "singleton" is get_instance.                                 *)
(***************************************************************************)
EXTENDS Integers, FiniteSets

CONSTANTS
    Thread,
    NULL,
    ITERS,           \* iterations of every worker loop
    MaxValue,        \* bound: the values atomic_update_max is called with
    PIECES,          \* parts in which snprintf fills data_buffer
    SpuriousFailure  \* may compare_exchange_weak fail although the values agree

\* What the programs give: some threads, each with a loop of some iterations.
AtomicsAssumption ==
    /\ IsFiniteSet(Thread) /\ Thread # {}
    /\ ITERS \in Nat \ {0}
    /\ MaxValue \in Nat
    /\ PIECES \in Nat
    /\ NULL \notin Nat

Counters == {"plain", "fetch_add", "mutex", "spin", "max"}
Addr == 1 .. Cardinality(Thread)    \* for an object of every thread

VARIABLES
    exp,        \* the experiment
    counter,    \* the counter, current_max, or the parts in data_buffer
    word,       \* the lock, data_ready, or instance_ptr
    heap,       \* the objects of get_instance
    pc,
    ops,        \* iterations a thread still has to do
    reg,        \* the value a thread read, its expected, or its p
    arg,        \* value of atomic_update_max, expected of get_instance
    greatest    \* the greatest value any atomic_update_max was called with

vars == <<exp, counter, word, heap, pc, ops, reg, arg, greatest>>

Start ==
    CASE exp = "plain" -> "read" [] exp = "fetch_add" -> "add" [] exp = "mutex" -> "lock"
      [] exp = "spin" -> "spin"  [] exp = "max" -> "load"      [] exp = "singleton" -> "get"

\* main starts the workers of one experiment; one of them is the producer.
Init ==
    /\ exp \in Counters \union {"publish", "singleton"}
    /\ IF exp = "publish"
       THEN \E p \in Thread : pc = [x \in Thread |-> IF x = p THEN "fill" ELSE "wait"]
       ELSE pc = [x \in Thread |-> Start]
    /\ counter = 0
    /\ word = IF exp = "singleton" THEN NULL ELSE 0
    /\ heap = [a \in Addr |-> "free"]
    /\ ops = [x \in Thread |-> ITERS]
    /\ reg = [x \in Thread |-> 0]
    /\ arg = [x \in Thread |-> 0]
    /\ greatest = 0

Goto(x, label) == pc' = [pc EXCEPT ![x] = label]
SetReg(x, value) == reg' = [reg EXCEPT ![x] = value]

\* x has done k iterations.
EndIterations(x, k) ==
    /\ ops' = [ops EXCEPT ![x] = @ - k]
    /\ Goto(x, IF ops[x] = k THEN "done" ELSE Start)

-----------------------------------------------------------------------------
(* Counters                                                                *)

\* plain_counter++ and counter_racy++ are a data race: the build reads the
\* counter, may keep it in a register for some iterations, and writes it.
\* counter_safe++ is the same increment under the mutex.
Read(x) ==
    /\ pc[x] = "read"
    /\ SetReg(x, counter) /\ Goto(x, "write")
    /\ UNCHANGED <<exp, counter, word, heap, ops, arg, greatest>>

Write(x) ==
    /\ pc[x] = "write"
    /\ IF exp = "mutex"
       THEN counter' = reg[x] + 1 /\ Goto(x, "unlock") /\ UNCHANGED ops
       ELSE \E k \in 1 .. ops[x] : counter' = reg[x] + k /\ EndIterations(x, k)
    /\ UNCHANGED <<exp, word, heap, reg, arg, greatest>>

\* atomic_fetch_add, and ++ of an _Atomic
FetchAdd(x) ==
    /\ pc[x] = "add"
    /\ counter' = counter + 1
    /\ IF exp = "spin" THEN Goto(x, "unlock") /\ UNCHANGED ops ELSE EndIterations(x, 1)
    /\ UNCHANGED <<exp, word, heap, reg, arg, greatest>>

MutexLock(x) ==
    /\ pc[x] = "lock" /\ word = 0
    /\ word' = 1 /\ Goto(x, "read")
    /\ UNCHANGED <<exp, counter, heap, ops, reg, arg, greatest>>

\* spin_lock: reg is zero, what the CAS expects.
SpinLock(x) ==
    /\ pc[x] = "spin" /\ word = reg[x]
    /\ word' = 1 /\ Goto(x, "add")
    /\ UNCHANGED <<exp, counter, heap, ops, reg, arg, greatest>>

\* Mutant: zero is not reset.
SpinFailsOnce(x) ==
    /\ pc[x] = "spin" /\ (word # reg[x] \/ SpuriousFailure)
    /\ SetReg(x, word)
    /\ UNCHANGED <<exp, counter, word, heap, pc, ops, arg, greatest>>

\* The failed CAS stores the 1 it found in zero, and the loop resets it.
SpinFails(x) ==
    /\ pc[x] = "spin" /\ (word # reg[x] \/ SpuriousFailure)
    /\ SetReg(x, 0)
    /\ UNCHANGED <<exp, counter, word, heap, pc, ops, arg, greatest>>

Unlock(x) ==
    /\ pc[x] = "unlock"
    /\ word' = 0 /\ EndIterations(x, 1)
    /\ UNCHANGED <<exp, counter, heap, reg, arg, greatest>>

\* The while of atomic_update_max, when reg has the current maximum.
MaxLoop(x, value, current) ==
    IF value > current THEN Goto(x, "max_cas") /\ UNCHANGED ops ELSE EndIterations(x, 1)

MaxLoad(x) ==
    \E value \in 1 .. MaxValue :
        /\ pc[x] = "load"
        /\ arg' = [arg EXCEPT ![x] = value] /\ SetReg(x, counter)
        /\ greatest' = IF value > greatest THEN value ELSE greatest
        /\ MaxLoop(x, value, counter)
        /\ UNCHANGED <<exp, counter, word, heap>>

MaxSwap(x) ==
    /\ pc[x] = "max_cas" /\ counter = reg[x]
    /\ counter' = arg[x] /\ EndIterations(x, 1)
    /\ UNCHANGED <<exp, word, heap, reg, arg, greatest>>

\* Mutant: an if instead of the while.
MaxSwapFailsOnce(x) ==
    /\ pc[x] = "max_cas" /\ (counter # reg[x] \/ SpuriousFailure)
    /\ SetReg(x, counter) /\ EndIterations(x, 1)
    /\ UNCHANGED <<exp, counter, word, heap, arg, greatest>>

\* The failed CAS leaves the latest value in expected.
MaxSwapFails(x) ==
    /\ pc[x] = "max_cas" /\ (counter # reg[x] \/ SpuriousFailure)
    /\ SetReg(x, counter) /\ MaxLoop(x, arg[x], counter)
    /\ UNCHANGED <<exp, counter, word, heap, arg, greatest>>

-----------------------------------------------------------------------------
(* Publication                                                             *)

Fill(x) ==
    /\ pc[x] = "fill" /\ counter < PIECES
    /\ counter' = counter + 1
    /\ UNCHANGED <<exp, word, heap, pc, ops, reg, arg, greatest>>

\* The release store: no part of the data is written after it.
StoreReady(x) ==
    /\ pc[x] = "fill" /\ counter = PIECES
    /\ word' = 1 /\ Goto(x, "done")
    /\ UNCHANGED <<exp, counter, heap, ops, reg, arg, greatest>>

\* The acquire load that ends the busy wait: the data is read after it.
Wait(x) ==
    /\ pc[x] = "wait" /\ word = 1
    /\ Goto(x, "receive")
    /\ UNCHANGED <<exp, counter, word, heap, ops, reg, arg, greatest>>

Receive(x) ==
    /\ pc[x] = "receive"
    /\ SetReg(x, counter) /\ Goto(x, "done")
    /\ UNCHANGED <<exp, counter, word, heap, ops, arg, greatest>>

\* get_instance
Get(x) ==
    /\ pc[x] = "get"
    /\ SetReg(x, word) /\ Goto(x, IF word = NULL THEN "malloc" ELSE "done")
    /\ UNCHANGED <<exp, counter, word, heap, ops, arg, greatest>>

Malloc(x) ==
    \E a \in Addr :
        /\ pc[x] = "malloc" /\ heap[a] = "free"
        /\ heap' = [heap EXCEPT ![a] = "raw"]
        /\ SetReg(x, a) /\ Goto(x, "initialize")
        /\ UNCHANGED <<exp, counter, word, ops, arg, greatest>>

Initialize(x) ==
    /\ pc[x] = "initialize"
    /\ heap' = [heap EXCEPT ![reg[x]] = "initialized"]
    /\ Goto(x, "publish")
    /\ UNCHANGED <<exp, counter, word, ops, reg, arg, greatest>>

Publish(x) ==
    /\ pc[x] = "publish" /\ word = NULL
    /\ word' = reg[x] /\ Goto(x, "done")
    /\ UNCHANGED <<exp, counter, heap, ops, reg, arg, greatest>>

\* Another thread was first.
PublishLost(x) ==
    /\ pc[x] = "publish" /\ word # NULL
    /\ arg' = [arg EXCEPT ![x] = word] /\ Goto(x, "lost")
    /\ UNCHANGED <<exp, counter, word, heap, ops, reg, greatest>>

\* Mutant: p still points to the object that was freed.
FreeLostKept(x) ==
    /\ pc[x] = "lost"
    /\ heap' = [heap EXCEPT ![reg[x]] = "free"]
    /\ Goto(x, "done")
    /\ UNCHANGED <<exp, counter, word, ops, reg, arg, greatest>>

FreeLost(x) ==
    /\ pc[x] = "lost"
    /\ heap' = [heap EXCEPT ![reg[x]] = "free"]
    /\ SetReg(x, arg[x]) /\ Goto(x, "done")
    /\ UNCHANGED <<exp, counter, word, ops, arg, greatest>>

-----------------------------------------------------------------------------
AllDone == \A x \in Thread : pc[x] = "done"

\* main joins the workers.
Terminating == AllDone /\ UNCHANGED vars

Next ==
    \/ \E x \in Thread :
          \/ Read(x) \/ Write(x) \/ FetchAdd(x) \/ MutexLock(x)
          \/ SpinLock(x) \/ SpinFails(x) \/ Unlock(x)
          \/ MaxLoad(x) \/ MaxSwap(x) \/ MaxSwapFails(x)
          \/ Fill(x) \/ StoreReady(x) \/ Wait(x) \/ Receive(x)
          \/ Get(x) \/ Malloc(x) \/ Initialize(x) \/ Publish(x) \/ PublishLost(x) \/ FreeLost(x)
    \/ Terminating

Spec == Init /\ [][Next]_vars

-----------------------------------------------------------------------------
Guarded == {"read", "write", "add", "unlock"}

\* The mutex and the spin lock let one thread at a time into the critical
\* section (lines 46-69 of atomics_basics.c, 22-30 of tsan_demo.c).
CriticalSection ==
    exp \in {"mutex", "spin"} =>
        \A x, y \in Thread : pc[x] \in Guarded /\ pc[y] \in Guarded => x = y

\* Consumers see all of the data (line 34 of memory_ordering.c).  There is one
\* singleton, complete when it can be seen, that every thread gets; the thread
\* that comes too late does not use the object it has freed.
PublishedObjects ==
    /\ exp = "publish" =>
          \A x \in Thread : pc[x] = "receive" => counter = PIECES
    /\ exp = "singleton" =>
          /\ word # NULL => heap[word] = "initialized"
          /\ \A x \in Thread : pc[x] = "done" => reg[x] = word

\* The totals the programs print: exact with a lock or an atomic, the greatest
\* value for the maximum; without protection updates are lost, but not so many
\* that less than 2 is left of two iterations or more.
Totals ==
    AllDone =>
        /\ exp \in {"fetch_add", "mutex", "spin"} => counter = Cardinality(Thread) * ITERS
        /\ exp = "max" => counter = greatest
        /\ exp = "plain" =>
              counter \in (IF ITERS > 1 THEN 2 ELSE 1) .. Cardinality(Thread) * ITERS
=============================================================================
