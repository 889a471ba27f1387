----------------------------- MODULE RoundRobin -----------------------------
(***************************************************************************)
(* What the scheduler promises: waiting processes are taken in the order   *)
(* they were put in, the idle process is taken when none waits, and the    *)
(* kernel stops when there is no place left for one more.                  *)
(***************************************************************************)
EXTENDS Naturals, Sequences

CONSTANTS Process, Idle, Capacity

VARIABLES
    queue,          \* the waiting processes, first to run first
    taken,          \* what the last Take returned
    halted

vars == <<queue, taken, halted>>

IsWaiting(p) == \E k \in 1..Len(queue) : queue[k] = p

Init ==
    /\ queue = << >>
    /\ taken = Idle
    /\ halted = FALSE

Put(p) ==
    /\ ~halted
    /\ ~IsWaiting(p)
    /\ Len(queue) < Capacity
    /\ queue' = Append(queue, p)
    /\ UNCHANGED <<taken, halted>>

Overflow ==
    /\ ~halted
    /\ Len(queue) = Capacity
    /\ halted' = TRUE
    /\ UNCHANGED <<queue, taken>>

Take ==
    /\ ~halted
    /\ IF queue = << >>
         THEN taken' = Idle /\ UNCHANGED queue
         ELSE taken' = Head(queue) /\ queue' = Tail(queue)
    /\ UNCHANGED halted

Next == (\E p \in Process : Put(p)) \/ Overflow \/ Take

Spec == Init /\ [][Next]_vars
=============================================================================
