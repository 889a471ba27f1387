----------------------------- MODULE RingProof ------------------------------
(* Lemmas about the ring of scheduler.c, for any number of slots and any set *)
(* of processes.                                                             *)
EXTENDS Ring, TLAPS

N == process_queue_size

-----------------------------------------------------------------------------
(* The slots of the ring *)

\* The index the code computes, without the remainder: it wraps once at most
\* (scheduler.c:31).
LEMMA WrapsOnce ==
    ASSUME NEW s \in Slots, NEW k \in 0..N
    PROVE  (s + k) % N = IF s + k < N THEN s + k ELSE s + k - N
  BY RingAssumption DEF Slots, N

LEMMA SlotWraps ==
    ASSUME NEW r \in Rings, NEW k \in 0..N
    PROVE  /\ r.start \in 0..N-1
           /\ Slot(r, k) = IF r.start + k < N THEN r.start + k ELSE r.start + k - N
  <1>1. r.start \in Slots
    BY DEF Rings
  <1>2. (r.start + k) % N = IF r.start + k < N THEN r.start + k ELSE r.start + k - N
    BY <1>1, WrapsOnce
  <1>3. QED
    BY <1>1, <1>2 DEF Slot, Slots, N

\* Places behind the head are slots, and different places are different slots.
LEMMA PlacesAreSlots ==
    ASSUME NEW r \in Rings, NEW k \in 0..N
    PROVE  Slot(r, k) \in Slots
  BY SlotWraps, RingAssumption DEF Slots, N

LEMMA PlacesDiffer ==
    ASSUME NEW r \in Rings, NEW j \in 0..N-1, NEW k \in 0..N-1, Slot(r, j) = Slot(r, k)
    PROVE  j = k
  <1>1. j \in 0..N /\ k \in 0..N
    BY RingAssumption DEF N
  <1>2. QED
    BY <1>1, SlotWraps, RingAssumption DEF N

\* What scheduler_queue_process leaves: one place more, the others as they were.
LEMMA QueuedRing ==
    ASSUME NEW r \in Rings, NEW p \in Process, ~RingFull(r)
    PROVE  /\ Queue(r, p) \in Rings
           /\ Queue(r, p).count = r.count + 1
           /\ Queue(r, p).queue[Slot(Queue(r, p), r.count)] = p
           /\ \A k \in 0..r.count-1 :
                 Queue(r, p).queue[Slot(Queue(r, p), k)] = r.queue[Slot(r, k)]
  <1> DEFINE q == Queue(r, p)
  <1>1. r.count \in 0..N-1 /\ r.start \in Slots /\ r.queue \in [Slots -> Process \union {NULL}]
    BY RingAssumption DEF Rings, RingFull, N
  <1>2. Slot(r, r.count) \in Slots
    BY <1>1, PlacesAreSlots, RingAssumption DEF N
  <1>3. q = [queue |-> [r.queue EXCEPT ![Slot(r, r.count)] = p],
             start |-> r.start, count |-> r.count + 1]
    BY DEF Queue
  <1>4. q \in Rings /\ q.count = r.count + 1
    BY <1>1, <1>2, <1>3, RingAssumption DEF Rings, N
  <1>5. \A k \in 0..N : Slot(q, k) = Slot(r, k)
    BY <1>3 DEF Slot
  <1>6. q.queue[Slot(q, r.count)] = p
    BY <1>1, <1>2, <1>3, <1>5, RingAssumption DEF N
  <1>7. ASSUME NEW k \in 0..r.count-1
        PROVE  q.queue[Slot(q, k)] = r.queue[Slot(r, k)]
    <2>1. k \in 0..N-1 /\ k # r.count
      BY <1>1, RingAssumption DEF N
    <2>2. Slot(r, k) # Slot(r, r.count)
      BY <1>1, <2>1, PlacesDiffer
    <2>3. Slot(r, k) \in Slots
      BY <2>1, PlacesAreSlots, RingAssumption DEF N
    <2>4. q.queue = [r.queue EXCEPT ![Slot(r, r.count)] = p] /\ Slot(q, k) = Slot(r, k)
      BY <1>3, <1>5, <2>1, RingAssumption DEF N
    <2>5. QED
      BY <1>1, <2>2, <2>3, <2>4
  <1>8. QED
    BY <1>4, <1>6, <1>7

\* What scheduler_next leaves: the head is gone, the others moved up one place.
LEMMA NextRingShifts ==
    ASSUME NEW r \in Rings, r.count # 0
    PROVE  /\ NextRing(r) \in Rings
           /\ NextRing(r).count = r.count - 1
           /\ NextProcess(r) = r.queue[Slot(r, 0)]
           /\ \A k \in 0..r.count-2 :
                 NextRing(r).queue[Slot(NextRing(r), k)] = r.queue[Slot(r, k + 1)]
  <1> DEFINE q == NextRing(r)
  <1>1. r.count \in 1..N /\ r.start \in Slots /\ r.queue \in [Slots -> Process \union {NULL}]
    BY RingAssumption DEF Rings, N
  <1>2. q = [queue |-> r.queue, start |-> Slot(r, 1), count |-> r.count - 1]
    BY DEF NextRing
  <1>3. Slot(r, 1) \in Slots
    BY PlacesAreSlots, RingAssumption DEF N
  <1>4. q \in Rings /\ q.count = r.count - 1
    BY <1>1, <1>2, <1>3, RingAssumption DEF Rings, N
  <1>5. NextProcess(r) = r.queue[Slot(r, 0)]
    <2>1. Slot(r, 0) = r.start
      BY SlotWraps, RingAssumption DEF N
    <2>2. QED
      BY <2>1 DEF NextProcess
  <1>6. ASSUME NEW k \in 0..r.count-2
        PROVE  Slot(q, k) = Slot(r, k + 1)
    <2>1. k \in 0..N /\ k + 1 \in 0..N /\ 1 \in 0..N
      BY <1>1, RingAssumption DEF N
    <2>2. q.start = Slot(r, 1)
      BY <1>2
    <2>3. /\ Slot(q, k) = IF q.start + k < N THEN q.start + k ELSE q.start + k - N
          /\ Slot(r, 1) = IF r.start + 1 < N THEN r.start + 1 ELSE r.start + 1 - N
          /\ Slot(r, k + 1) = IF r.start + (k + 1) < N THEN r.start + (k + 1)
                                                      ELSE r.start + (k + 1) - N
          /\ r.start \in 0..N-1
      BY <1>4, <2>1, SlotWraps
    <2>4. QED
      BY <1>1, <2>1, <2>2, <2>3, RingAssumption DEF N
  <1>7. QED
    BY <1>2, <1>4, <1>5, <1>6

-----------------------------------------------------------------------------
(* What the slots in use hold *)

\* The empty ring of schedular_init holds nothing.
LEMMA EmptyHolds == EmptyRing \in Rings /\ HoldsExactly(EmptyRing, {})
  BY RingAssumption DEF EmptyRing, Rings, Slots, HoldsExactly

\* A process that is queued is held besides the others.
LEMMA QueueHolds ==
    ASSUME NEW r \in Rings, NEW S, NEW p \in Process,
           HoldsExactly(r, S), p \notin S, ~RingFull(r)
    PROVE  /\ Queue(r, p) \in Rings
           /\ Queue(r, p).count = r.count + 1
           /\ HoldsExactly(Queue(r, p), S \union {p})
  <1> DEFINE c == r.count
             q == Queue(r, p)
  <1>1. c \in 0..N
    BY DEF Rings, N
  <1>2. /\ q \in Rings
        /\ q.count = c + 1
        /\ q.queue[Slot(q, c)] = p
        /\ \A k \in 0..c-1 : q.queue[Slot(q, k)] = r.queue[Slot(r, k)]
    BY QueuedRing
  <1> HIDE DEF q
  <1>3. S \union {p} = {q.queue[Slot(q, k)] : k \in 0..c}
    BY <1>1, <1>2, RingAssumption DEF HoldsExactly, N
  <1>4. ASSUME NEW j \in 0..c, NEW k \in 0..c, q.queue[Slot(q, j)] = q.queue[Slot(q, k)]
        PROVE  j = k
    BY <1>1, <1>2, <1>4, RingAssumption DEF HoldsExactly, N
  <1>5. 0..c = 0..(q.count-1)
    BY <1>1, <1>2, RingAssumption DEF N
  <1>6. HoldsExactly(q, S \union {p})
    BY <1>3, <1>4, <1>5 DEF HoldsExactly
  <1>7. QED
    BY <1>2, <1>6 DEF q

\* scheduler_next returns one of the processes that are held, and the rest stays.
LEMMA NextHolds ==
    ASSUME NEW r \in Rings, NEW S, HoldsExactly(r, S), r.count # 0
    PROVE  /\ NextRing(r) \in Rings
           /\ NextRing(r).count = r.count - 1
           /\ NextProcess(r) \in S
           /\ HoldsExactly(NextRing(r), S \ {NextProcess(r)})
  <1> DEFINE c == r.count
             q == NextRing(r)
             p == NextProcess(r)
  <1>1. /\ q \in Rings
        /\ q.count = c - 1
        /\ p = r.queue[Slot(r, 0)]
        /\ \A k \in 0..c-2 : q.queue[Slot(q, k)] = r.queue[Slot(r, k + 1)]
    BY NextRingShifts
  <1>2. c \in Nat \ {0} /\ 0 \in 0..c-1
    BY RingAssumption DEF Rings
  <1> HIDE DEF q, p
  <1>3. p \in S
    BY <1>1, <1>2 DEF HoldsExactly
  <1>4. \A k \in 0..c-2 : k + 1 \in 0..c-1 /\ k + 1 # 0
    BY <1>2
  <1>5. \A m \in 0..c-1 : m # 0 => m - 1 \in 0..c-2 /\ (m - 1) + 1 = m
    BY <1>2
  <1>6. S \ {p} = {q.queue[Slot(q, k)] : k \in 0..c-2}
    <2>1. ASSUME NEW k \in 0..c-2 PROVE q.queue[Slot(q, k)] \in S \ {p}
      BY <1>1, <1>2, <1>4 DEF HoldsExactly
    <2>2. ASSUME NEW x \in S \ {p} PROVE \E k \in 0..c-2 : x = q.queue[Slot(q, k)]
      <3>1. PICK m \in 0..c-1 : x = r.queue[Slot(r, m)]
        BY DEF HoldsExactly
      <3>2. m - 1 \in 0..c-2 /\ q.queue[Slot(q, m - 1)] = x
        BY <1>1, <1>5, <3>1
      <3>3. QED
        BY <3>2
    <2>3. QED
      BY <2>1, <2>2
  <1>7. ASSUME NEW j \in 0..c-2, NEW k \in 0..c-2, q.queue[Slot(q, j)] = q.queue[Slot(q, k)]
        PROVE  j = k
    <2>1. j + 1 = k + 1
      BY <1>1, <1>4, <1>7 DEF HoldsExactly
    <2>2. QED
      BY <1>2, <2>1
  <1>8. 0..c-2 = 0..(q.count-1)
    BY <1>1, <1>2
  <1>9. HoldsExactly(q, S \ {p})
    BY <1>6, <1>7, <1>8 DEF HoldsExactly
  <1>10. QED
    BY <1>1, <1>3, <1>9 DEF q, p
=============================================================================
