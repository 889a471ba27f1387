--------------------------- MODULE SchedulerProof ---------------------------
(* Proofs about the ring of scheduler.c, for any number of slots and any set *)
(* of processes.                                                             *)
EXTENDS Scheduler, RingProof, SequenceTheorems

-----------------------------------------------------------------------------
(* The invariants *)

\* The state stays well formed and the slots in use hold the waiting processes.
IInv == TypeOK /\ RingHoldsWaiting

LEMMA InitIInv == Init => IInv
  BY EmptyHolds DEF Init, IInv, TypeOK, RingHoldsWaiting

LEMMA QueueKeepsIInv ==
    ASSUME IInv, NEW p \in Process, scheduler_queue_process(p)
    PROVE  IInv'
  <1>1. CASE RingFull(ring)
    BY <1>1 DEF IInv, TypeOK, RingHoldsWaiting, scheduler_queue_process
  <1>2. CASE ~RingFull(ring)
    <2>1. ring' = Queue(ring, p) /\ waiting' = waiting \union {p} /\ p \notin waiting
      BY <1>2 DEF scheduler_queue_process
    <2>2. ring' \in Rings /\ HoldsExactly(ring', waiting')
      BY <1>2, <2>1, QueueHolds DEF IInv, TypeOK, RingHoldsWaiting
    <2>3. QED
      BY <1>2, <2>1, <2>2 DEF IInv, TypeOK, RingHoldsWaiting, scheduler_queue_process
  <1>3. QED
    BY <1>1, <1>2

LEMMA NextKeepsIInv ==
    ASSUME IInv, scheduler_next
    PROVE  IInv'
  <1>1. CASE ring.count = 0
    <2>1. ring' = ring /\ returned' = Idle
      BY <1>1 DEF scheduler_next, NextProcess, NextRing
    <2>2. waiting' = waiting /\ panic' = panic
      BY <2>1, RingAssumption DEF scheduler_next, IInv, TypeOK
    <2>3. QED
      BY <2>1, <2>2 DEF IInv, TypeOK, RingHoldsWaiting
  <1>2. CASE ring.count # 0
    <2>1. ring' \in Rings /\ returned' \in waiting /\ HoldsExactly(ring', waiting')
      BY <1>2, NextHolds DEF IInv, TypeOK, RingHoldsWaiting, scheduler_next
    <2>2. QED
      BY <2>1 DEF IInv, TypeOK, RingHoldsWaiting, scheduler_next
  <1>3. QED
    BY <1>1, <1>2

LEMMA StepKeepsIInv == IInv /\ [Next]_vars => IInv'
  <1>1. SUFFICES ASSUME IInv, [Next]_vars PROVE IInv'
    OBVIOUS
  <1>2. CASE \E p \in Process : scheduler_queue_process(p)
    BY <1>1, <1>2, QueueKeepsIInv
  <1>3. CASE scheduler_next
    BY <1>1, <1>3, NextKeepsIInv
  <1>4. CASE UNCHANGED vars
    BY <1>1, <1>4 DEF vars, IInv, TypeOK, RingHoldsWaiting
  <1>5. QED
    BY <1>1, <1>2, <1>3, <1>4 DEF Next, freeze_system

LEMMA SpecIInv == Spec => []IInv
  BY InitIInv, StepKeepsIInv, PTL DEF Spec

\* For any size of the ring, the slots from start on hold the waiting processes, each
\* once, however often the ring has wrapped (scheduler.c:26-44).
THEOREM RingIsExact == Spec => []RingHoldsWaiting
  <1>1. IInv => RingHoldsWaiting
    BY DEF IInv
  <1>2. QED
    BY <1>1, SpecIInv, PTL

-----------------------------------------------------------------------------
(* The ring implements the queue *)

\* The waiting processes are a sequence as long as the ring's count.
LEMMA WaitingIsSeq ==
    ASSUME NEW r \in Rings,
           \A k \in 0..r.count-1 : r.queue[Slot(r, k)] \in Process
    PROVE  /\ Waiting(r) \in Seq(Process)
           /\ Len(Waiting(r)) = r.count
           /\ \A k \in 1..r.count : Waiting(r)[k] = r.queue[Slot(r, k - 1)]
  <1>1. r.count \in Nat
    BY RingAssumption DEF Rings
  <1>2. ASSUME NEW k \in 1..r.count PROVE r.queue[Slot(r, k - 1)] \in Process
    <2>1. k - 1 \in 0..r.count-1
      BY <1>1
    <2>2. QED
      BY <2>1
  <1>3. Waiting(r) \in [1..r.count -> Process]
    BY <1>2 DEF Waiting
  <1>4. QED
    BY <1>1, <1>3 DEF Waiting

\* The places that are in use hold processes.
LEMMA WaitingAreProcesses ==
    ASSUME IInv
    PROVE  /\ ring \in Rings
           /\ ring.count \in 0..N
           /\ \A k \in 0..ring.count-1 : ring.queue[Slot(ring, k)] \in Process
  BY DEF IInv, TypeOK, RingHoldsWaiting, HoldsExactly, Rings, N

\* Queueing a process appends it, and a full ring is a full queue.
LEMMA QueueRefines ==
    ASSUME IInv, IInv', NEW p \in Process, scheduler_queue_process(p)
    PROVE  RR!Put(p) \/ RR!Overflow
  <1> DEFINE c == ring.count
             w == Waiting(ring)
  <1>1. /\ ring \in Rings /\ c \in 0..N
        /\ w \in Seq(Process) /\ Len(w) = c
        /\ \A k \in 1..c : w[k] = ring.queue[Slot(ring, k - 1)]
    BY WaitingAreProcesses, WaitingIsSeq
  <1>2. panic = "NONE" /\ returned' = returned
    BY DEF scheduler_queue_process
  <1>3. CASE RingFull(ring)
    <2>1. panic' # "NONE" /\ ring' = ring
      BY <1>3 DEF scheduler_queue_process
    <2>2. c = process_queue_size
      BY <1>3 DEF RingFull
    <2>3. QED
      BY <1>1, <1>2, <2>1, <2>2 DEF RR!Overflow
  <1>4. CASE ~RingFull(ring)
    <2>1. ring' = Queue(ring, p) /\ panic' = panic /\ p \notin waiting
      BY <1>4 DEF scheduler_queue_process
    <2>2. /\ ring' \in Rings
          /\ ring'.count = c + 1
          /\ ring'.queue[Slot(ring', c)] = p
          /\ \A k \in 0..c-1 : ring'.queue[Slot(ring', k)] = ring.queue[Slot(ring, k)]
      BY <1>1, <1>4, <2>1, QueuedRing
    <2>3. \A k \in 0..(ring'.count-1) : ring'.queue[Slot(ring', k)] \in Process
      BY DEF IInv, TypeOK, RingHoldsWaiting, HoldsExactly
    <2>4. /\ Waiting(ring') \in Seq(Process) /\ Len(Waiting(ring')) = c + 1
          /\ \A k \in 1..(c+1) : Waiting(ring')[k] = ring'.queue[Slot(ring', k - 1)]
      BY <2>2, <2>3, WaitingIsSeq
    <2>5. /\ Append(w, p) \in Seq(Process) /\ Len(Append(w, p)) = c + 1
          /\ \A k \in 1..c : Append(w, p)[k] = w[k]
          /\ Append(w, p)[c + 1] = p
      BY <1>1, AppendProperties
    <2>6. ASSUME NEW k \in 1..(c+1) PROVE Waiting(ring')[k] = Append(w, p)[k]
      <3>1. CASE k = c + 1
        <4>1. k - 1 = c
          BY <1>1, <3>1, RingAssumption DEF N
        <4>2. QED
          BY <2>2, <2>4, <2>5, <3>1, <4>1
      <3>2. CASE k # c + 1
        <4>1. k \in 1..c /\ k - 1 \in 0..c-1
          BY <1>1, <3>2, RingAssumption DEF N
        <4>2. QED
          BY <1>1, <2>2, <2>4, <2>5, <4>1
      <3>3. QED
        BY <3>1, <3>2
    <2>7. Waiting(ring') = Append(w, p)
      BY <2>4, <2>5, <2>6, SeqEqual
    <2>8. ASSUME NEW k \in 1..c PROVE w[k] # p
      <3>1. k - 1 \in 0..c-1
        BY <1>1, RingAssumption DEF N
      <3>2. QED
        BY <1>1, <2>1, <3>1 DEF IInv, RingHoldsWaiting, HoldsExactly
    <2>9. c < process_queue_size
      BY <1>1, <1>4, RingAssumption DEF RingFull, N
    <2>10. QED
      BY <1>1, <1>2, <2>1, <2>7, <2>8, <2>9 DEF RR!Put, RR!IsWaiting
  <1>5. QED
    BY <1>3, <1>4

\* scheduler_next takes the head of the queue, or the idle process when it is empty.
LEMMA NextRefines ==
    ASSUME IInv, IInv', scheduler_next
    PROVE  RR!Take
  <1> DEFINE c == ring.count
             w == Waiting(ring)
  <1>1. /\ ring \in Rings /\ c \in 0..N
        /\ w \in Seq(Process) /\ Len(w) = c
        /\ \A k \in 1..c : w[k] = ring.queue[Slot(ring, k - 1)]
    BY WaitingAreProcesses, WaitingIsSeq
  <1>2. panic = "NONE" /\ panic' = panic
    BY DEF scheduler_next
  <1>3. CASE c = 0
    <2>1. ring' = ring /\ returned' = Idle
      BY <1>3 DEF scheduler_next, NextProcess, NextRing
    <2>2. w = << >>
      BY <1>1, <1>3, EmptySeq
    <2>3. QED
      BY <1>2, <2>1, <2>2 DEF RR!Take
  <1>4. CASE c # 0
    <2>1. /\ ring' \in Rings
          /\ ring'.count = c - 1
          /\ returned' = ring.queue[Slot(ring, 0)]
          /\ \A k \in 0..c-2 : ring'.queue[Slot(ring', k)] = ring.queue[Slot(ring, k + 1)]
      BY <1>1, <1>4, NextRingShifts DEF scheduler_next
    <2>2. c \in Nat \ {0} /\ w # << >>
      BY <1>1, <1>4, EmptySeq, RingAssumption DEF N
    <2>3. /\ Tail(w) \in Seq(Process) /\ Len(Tail(w)) = c - 1
          /\ \A k \in 1..c-1 : Tail(w)[k] = w[k + 1]
      BY <1>1, <2>2, HeadTailProperties
    <2>4. Head(w) = w[1] /\ w[1] = ring.queue[Slot(ring, 0)]
      BY <1>1, <2>2
    <2>5. \A k \in 0..(ring'.count-1) : ring'.queue[Slot(ring', k)] \in Process
      BY DEF IInv, TypeOK, RingHoldsWaiting, HoldsExactly
    <2>6. /\ Waiting(ring') \in Seq(Process) /\ Len(Waiting(ring')) = c - 1
          /\ \A k \in 1..c-1 : Waiting(ring')[k] = ring'.queue[Slot(ring', k - 1)]
      BY <2>1, <2>5, WaitingIsSeq
    <2>7. ASSUME NEW k \in 1..c-1 PROVE Waiting(ring')[k] = Tail(w)[k]
      <3>1. k - 1 \in 0..c-2 /\ (k - 1) + 1 = k /\ k + 1 \in 1..c /\ (k + 1) - 1 = k
        BY <2>2
      <3>2. QED
        BY <1>1, <2>1, <2>3, <2>6, <3>1
    <2>8. Waiting(ring') = Tail(w)
      BY <2>3, <2>6, <2>7, SeqEqual
    <2>9. QED
      BY <1>2, <2>1, <2>2, <2>4, <2>8 DEF RR!Take
  <1>5. QED
    BY <1>3, <1>4

\* For any number of slots and processes the ring is a first-in first-out queue: its
\* start, its wrapping and the slots it leaves behind cannot be observed.
THEOREM RingImplementsQueue == Spec => ImplementsRoundRobin
  <1>1. Init => RR!Init
    <2>1. SUFFICES ASSUME Init PROVE Waiting(ring) = << >> /\ returned = Idle /\ panic = "NONE"
      BY DEF RR!Init
    <2>2. IInv /\ ring.count = 0
      BY <2>1, InitIInv DEF Init, EmptyRing
    <2>3. Waiting(ring) \in Seq(Process) /\ Len(Waiting(ring)) = 0
      BY <2>2, WaitingAreProcesses, WaitingIsSeq
    <2>4. QED
      BY <2>1, <2>3, EmptySeq DEF Init
  <1>2. IInv /\ IInv' /\ [Next]_vars => [RR!Next]_(RR!vars)
    <2>1. SUFFICES ASSUME IInv, IInv', [Next]_vars PROVE [RR!Next]_(RR!vars)
      OBVIOUS
    <2>2. CASE \E p \in Process : scheduler_queue_process(p)
      BY <2>1, <2>2, QueueRefines DEF RR!Next
    <2>3. CASE scheduler_next
      BY <2>1, <2>3, NextRefines DEF RR!Next
    <2>4. CASE UNCHANGED vars
      BY <2>4 DEF vars, RR!vars
    <2>5. QED
      BY <2>1, <2>2, <2>3, <2>4 DEF Next, freeze_system
  <1>3. QED
    BY <1>1, <1>2, SpecIInv, PTL DEF Spec, ImplementsRoundRobin, RR!Spec
=============================================================================
