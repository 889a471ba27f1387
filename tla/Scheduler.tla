----------------------------- MODULE Scheduler ------------------------------
(***************************************************************************)
(* scheduler.c on its own, called as the kernel calls it: a process is     *)
(* queued only while it is not already waiting (trap_change_process queues *)
(* the process it takes off the hart, create_init_process a new one).      *)
(***************************************************************************)
EXTENDS Ring

VARIABLES
    ring,
    waiting,        \* queued, and neither returned nor removed since
    returned,       \* what the last scheduler_next returned
    panic

vars == <<ring, waiting, returned, panic>>

Init ==
    /\ ring = EmptyRing
    /\ waiting = {}
    /\ returned = Idle
    /\ panic = "NONE"

scheduler_queue_process(p) ==
    /\ panic = "NONE"
    /\ p \notin waiting
    /\ IF RingFull(ring)
         THEN /\ panic' = "KERNEL_SCHEDULER_QUEUE_FULL"
              /\ UNCHANGED <<ring, waiting>>
         ELSE /\ ring' = Queue(ring, p)
              /\ waiting' = waiting \union {p}
              /\ UNCHANGED panic
    /\ UNCHANGED returned

scheduler_next ==
    /\ panic = "NONE"
    /\ returned' = NextProcess(ring)
    /\ ring' = NextRing(ring)
    /\ waiting' = waiting \ {returned'}
    /\ UNCHANGED panic

scheduler_remove(p) ==
    /\ panic = "NONE"
    /\ ring' = Remove(ring, p)
    /\ waiting' = waiting \ {p}
    /\ UNCHANGED <<returned, panic>>

freeze_system ==
    /\ panic # "NONE"
    /\ UNCHANGED vars

\* The calls the kernel makes while no process is killed off the hart.
Next ==
    \/ \E p \in Process : scheduler_queue_process(p)
    \/ scheduler_next
    \/ freeze_system

Spec == Init /\ [][Next]_vars

\* The same with kill_process removing a process that waits.
NextWithRemove ==
    \/ Next
    \/ \E p \in waiting : scheduler_remove(p)

SpecWithRemove == Init /\ [][NextWithRemove]_vars

-----------------------------------------------------------------------------
(* Properties *)

\* The indices stay inside the page and the panic message is the code's.
TypeOK ==
    /\ ring \in Rings
    /\ waiting \subseteq Process
    /\ returned \in Process \union {Idle}
    /\ panic \in {"NONE", "KERNEL_SCHEDULER_QUEUE_FULL"}

\* Every waiting process occupies exactly one of the count slots that follow
\* start, and nothing else does (scheduler.c:26-44).
RingHoldsWaiting == HoldsExactly(ring, waiting)

\* scheduler_next never returns a process twice for one scheduler_queue_process
\* (the plan of tests/quick/run_quick_tests.c:25-29).
NotReturnedTwice ==
    [][scheduler_next /\ returned' \in Process => returned' \in waiting]_vars

RR == INSTANCE RoundRobin WITH
        Capacity <- process_queue_size,
        queue    <- Waiting(ring),
        taken    <- returned,
        halted   <- (panic # "NONE")

\* The ring is a first-in first-out queue (readme.md:8, "Basic round robin
\* scheduler").
ImplementsRoundRobin == RR!Spec
=============================================================================
