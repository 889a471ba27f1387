-------------------------------- MODULE Ring --------------------------------
(***************************************************************************)
(* The ring buffer of kernel/process/scheduler.c: the globals              *)
(* process_queue, process_queue_start and process_queue_count as one       *)
(* record, and what each scheduler function does to it.                    *)
(***************************************************************************)
EXTENDS Integers

CONSTANTS
    Process,                \* the processes that can be queued
    Idle,                   \* hart_idle_process[hart_id]
    NULL,                   \* a slot that was never written
    process_queue_size      \* slots of the ring, 512 in the code

ASSUME RingAssumption ==
    /\ process_queue_size \in Nat \ {0}
    /\ Idle \notin Process
    /\ NULL \notin Process \union {Idle}

Slots == 0..process_queue_size-1

Rings == [queue : [Slots -> Process \union {NULL}],
          start : Slots,
          count : 0..process_queue_size]

\* schedular_init: pg_alloc returns a zeroed page.
EmptyRing == [queue |-> [k \in Slots |-> NULL], start |-> 0, count |-> 0]

\* The slot k places behind the head.
Slot(r, k) == (r.start + k) % process_queue_size

RingFull(r) == r.count = process_queue_size

\* Mutant of Queue: the slot after the first free one is written.
QueueOffByOne(r, p) ==
    [queue |-> [r.queue EXCEPT ![Slot(r, r.count + 1)] = p],
     start |-> r.start, count |-> r.count + 1]

\* scheduler_queue_process, past the RingFull check.
Queue(r, p) ==
    [queue |-> [r.queue EXCEPT ![Slot(r, r.count)] = p],
     start |-> r.start, count |-> r.count + 1]

\* Mutant of NextProcess: the process queued last is returned.
NextProcessFromTail(r) == IF r.count = 0 THEN Idle ELSE r.queue[Slot(r, r.count - 1)]

\* scheduler_next: the process it returns, and the ring it leaves.
NextProcess(r) == IF r.count = 0 THEN Idle ELSE r.queue[r.start]

NextRing(r) ==
    IF r.count = 0 THEN r
    ELSE [queue |-> r.queue, start |-> Slot(r, 1), count |-> r.count - 1]

\* scheduler_remove: from the tail to the head, every slot at or before an
\* occurrence of p is overwritten by the one as many places before it as
\* occurrences were met (the code's offset, negated).  Neither start nor count
\* changes.
Remove(r, p) ==
    LET loop[i \in 0..r.count] ==
          IF i = 0 THEN [queue |-> r.queue, met |-> 0]
          ELSE LET past == loop[i-1]
                   here == Slot(r, r.count - i)
                   met  == past.met + (IF past.queue[here] = p THEN 1 ELSE 0)
               IN  [queue |-> [past.queue EXCEPT ![here] =
                                 past.queue[Slot(r, r.count - i - met)]],
                    met   |-> met]
    IN  [r EXCEPT !.queue = loop[r.count].queue]

\* The count slots from start on hold the members of S, each once.
HoldsExactly(r, S) ==
    /\ S = {r.queue[Slot(r, k)] : k \in 0..r.count-1}
    /\ \A j, k \in 0..r.count-1 :
          r.queue[Slot(r, j)] = r.queue[Slot(r, k)] => j = k

\* The waiting processes, head first.
Waiting(r) == [k \in 1..r.count |-> r.queue[Slot(r, k - 1)]]
=============================================================================
