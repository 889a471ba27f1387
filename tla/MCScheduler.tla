---------------------------- MODULE MCScheduler -----------------------------
(* Four processes and three slots: the ring wraps, and overflows. *)
EXTENDS Scheduler

CONSTANTS p1, p2, p3, p4

MCProcess == {p1, p2, p3, p4}
=============================================================================
