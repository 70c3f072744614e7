----------------------------- MODULE MCLiveness -----------------------------
(* The two programs that wait for other threads, under fair scheduling.  A *)
(* behaviour is one of them, chosen in the initial state; the variables of *)
(* the other keep their first values.                                      *)
EXTENDS HazardPointer

CONSTANTS
    Readers, Writers, Deleters, Main, Key,
    RCU_MAX_THREADS, INITIAL, WRITE_OPS, DELETE_OPS

VARIABLES
    rcu_list_head, rcu_key, rcu_next, rcu_heap,
    reader_counts, rcu_thread_count, tl_rcu_id,
    stop_flag, rcu_pc, rcu_ops,
    rcu_old_head, new_node, new_head,
    rcu_n, rcu_i, wanted, rcu_p,
    unit            \* the program that runs

Rcu == INSTANCE UserspaceRcu WITH
    MAX_THREADS <- RCU_MAX_THREADS,
    key <- rcu_key, next <- rcu_next, heap <- rcu_heap, pc <- rcu_pc,
    ops <- rcu_ops, old_head <- rcu_old_head, n <- rcu_n, i <- rcu_i, p <- rcu_p

rcuVars == <<rcu_list_head, rcu_key, rcu_next, rcu_heap,
             reader_counts, rcu_thread_count, tl_rcu_id,
             stop_flag, rcu_pc, rcu_ops, rcu_old_head, new_node, new_head,
             rcu_n, rcu_i, wanted, rcu_p>>

allVars == <<vars, rcuVars, unit>>

MCInit ==
    /\ Init /\ Rcu!Init
    /\ unit \in {"hazard_pointer", "userspace_rcu"}

MCNext ==
    /\ UNCHANGED unit
    /\ \/ unit = "hazard_pointer" /\ Next /\ UNCHANGED rcuVars
       \/ unit = "hazard_pointer" /\ AllDone /\ UNCHANGED <<vars, rcuVars>>
       \/ unit = "userspace_rcu" /\ Rcu!Next /\ UNCHANGED vars

InHazard(A) == unit = "hazard_pointer" /\ A /\ UNCHANGED <<rcuVars, unit>>
InRcu(A) == unit = "userspace_rcu" /\ A /\ UNCHANGED <<vars, unit>>

\* The operating system goes on scheduling every thread that can run.
MCFairness ==
    /\ \A p \in Producers : WF_allVars(InHazard(ProducerStep(p)))
    /\ \A c \in Consumers : WF_allVars(InHazard(ConsumerStep(c)))
    /\ \A r \in Readers : WF_allVars(InRcu(Rcu!ReaderStep(r)))
    /\ \A w \in Writers : WF_allVars(InRcu(Rcu!WriterStep(w)))
    /\ \A d \in Deleters : WF_allVars(InRcu(Rcu!DeleterStep(d)))
    /\ WF_allVars(InRcu(Rcu!MainStep))

MCSpec == MCInit /\ [][MCNext]_allVars /\ MCFairness

\* Every worker of the hazard pointer program ends: main's pthread_join calls
\* return.
WorkersEnd == unit = "hazard_pointer" => Termination

\* The RCU program ends: the grace period of a delete does, at the latest when
\* the readers have stopped.
RcuEnds == unit = "userspace_rcu" => Rcu!Termination
=============================================================================
