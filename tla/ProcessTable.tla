---------------------------- MODULE ProcessTable ----------------------------
(***************************************************************************)
(* The table of processes of kernel/process/process.c: the hash map from   *)
(* process ids to processes (HashMap), the list of running processes       *)
(* (List) and the process objects, from new_blank_process to               *)
(* process_cleanup.  The run queue is the queue of RoundRobin, which the   *)
(* ring of scheduler.c implements.  All of it runs with interrupts off.    *)
(***************************************************************************)
EXTENDS HashMap, List, Sequences

CONSTANTS
    Objs,           \* the process objects of mem_alloc
    MaxPid,         \* bound: process ids that are given out
    LIST_IDX        \* the words from a process to its list_idx, 18 in the code

ASSUME ProcessTableAssumption ==
    /\ Objs \subseteq Nat \ {0} /\ IsFiniteSet(Objs)
    /\ {MaxPid, LIST_IDX} \subseteq Nat
    /\ Cardinality(Leaves) >= MaxPid
    /\ Cardinality(Objs) >= MaxPid

VARIABLES
    process_upto,       \* state.process_upto
    process_hashmap,    \* state.process_hashmap
    running_list,       \* state.running_list
    process,            \* process[o]: the id and type, or FREE
    queue,              \* the run queue
    current,            \* the process on the hart
    lost,               \* pages that process_cleanup leaves behind
    panic

vars == <<process_upto, process_hashmap, running_list, process, queue, current, lost, panic>>

FREE == [process_id |-> -1, type |-> "FREE"]
Live == {o \in Objs : process[o].type # "FREE"}
Idle == CHOOSE o \in Objs : process[o].type = "IDLE"

Init ==
    /\ process_upto = 0
    /\ process_hashmap = EmptyMap
    /\ running_list = EmptyList
    /\ process = [o \in Objs |-> FREE]
    /\ queue = <<>>
    /\ current = NONE
    /\ lost = 0
    /\ panic = "NONE"

\* The id new_blank_process settles for: the first one from process_upto on that is
\* not in the map, or one whose lookup does not come back.
FreePid == Min({id \in process_upto..process_upto+Cardinality(Objs) :
                  hashmap_get(process_hashmap, id) \in {NONE, HANG}})

\* new_blank_process: for the idle process, then for the ones that are queued.
new_blank_process ==
    LET id == FreePid
        o  == Min(Objs \ Live)
        is_idle == current = NONE
    IN  /\ panic = "NONE"
        /\ process_upto < MaxPid
        /\ IF hashmap_get(process_hashmap, id) = HANG
             THEN /\ panic' = "HANG"
                  /\ UNCHANGED <<process_upto, process_hashmap, running_list, process, queue, current>>
             ELSE /\ process_hashmap' = hashmap_insert(process_hashmap, id, o)
                  /\ running_list' = list_append(running_list, id)
                  /\ process_upto' = id + 1
                  /\ process' = [process EXCEPT ![o] =
                                   [process_id |-> id, type |-> IF is_idle THEN "IDLE" ELSE "NORMAL"]]
                  /\ current' = IF is_idle THEN o ELSE current
                  /\ queue' = IF is_idle THEN queue ELSE Append(queue, o)
                  /\ UNCHANGED panic
        /\ UNCHANGED lost

\* process_cleanup, with the list_idx that no code sets: whatever the stack held.  By
\* then hashmap_remove may find no leaf of the process, or go round in its chain.
process_cleanup(o, list_idx) ==
    LET id      == process[o].process_id
        removed == list_remove(running_list, list_idx)
        highest == running_list.cnt - 1
        moves   == highest # list_idx
        at      == (list_idx % SECTION) + LIST_IDX
    IN  /\ process_hashmap' = hashmap_remove(process_hashmap, id)
        /\ IF Lookup(process_hashmap, id) = HANG
             THEN /\ panic' = "HANG"
                  /\ UNCHANGED <<running_list, process, lost>>
           ELSE IF list_remove_panics(running_list, list_idx)
             THEN /\ panic' = "ATTEMPT_REMOVE_LIST_ITEM_OUT_BOUNDS"
                  /\ UNCHANGED <<running_list, process, lost>>
           ELSE IF moves /\ at >= SECTION
             THEN /\ panic' = "WROTE_PAST_THE_SECTION"
                  /\ running_list' = removed
                  /\ UNCHANGED <<process, lost>>
             ELSE /\ running_list' = IF ~moves THEN removed
                                     ELSE IF list_idx < SECTION THEN PutItem(removed, at, highest)
                                     ELSE Reach(removed, list_idx)
                  /\ process' = [process EXCEPT ![o] = FREE]
                  /\ lost' = lost + 2
                  /\ UNCHANGED panic

\* Mutant of Requeues: a process that was killed is queued.
RequeuesDead(o, type) == type # "IDLE"

\* trap_change_process queues the process it takes from the hart if it is a normal one.
Requeues(o, type) == type = "NORMAL"

\* trap_change_process and context_change_process for a process on the hart that has
\* a given type by now.
trap_change_process(type) ==
    LET q    == IF Requeues(current, type) THEN Append(queue, current) ELSE queue
        next == IF q = <<>> THEN Idle ELSE Head(q)
    IN  /\ queue' = IF q = <<>> THEN q ELSE Tail(q)
        /\ current' = next
        /\ IF next # current /\ type = "DEAD"
             THEN \E list_idx \in 0..MaxPid : process_cleanup(current, list_idx)
             ELSE /\ process' = [process EXCEPT ![current].type = type]
                  /\ UNCHANGED <<process_hashmap, running_list, lost, panic>>
        /\ UNCHANGED process_upto

Up == panic = "NONE" /\ current # NONE

TimerTrap ==
    /\ Up
    /\ trap_change_process(process[current].type)

\* kill_process from the handler of a fault, for the process on the hart, which has
\* running set (Kernel checks that as RunningIsOnHart); the handler goes on to change
\* the process.
FaultKill ==
    /\ Up
    /\ process[current].type # "IDLE"
    /\ IF hashmap_get(process_hashmap, process[current].process_id) = current
         THEN trap_change_process("DEAD")
         ELSE /\ panic' = "WRONG_PROCESS"
              /\ UNCHANGED <<process_upto, process_hashmap, running_list, process, queue, current, lost>>

\* kill_process at the end of handle_async_trap, which changes the process first.  With
\* no other process waiting the process is picked again and killed on the hart; with
\* one waiting its stack is gone by then (Kernel).
AsyncKill ==
    /\ Up
    /\ process[current].type = "NORMAL"
    /\ queue = <<>>
    /\ IF hashmap_get(process_hashmap, process[current].process_id) = current
         THEN process' = [process EXCEPT ![current].type = "DEAD"] /\ UNCHANGED panic
         ELSE panic' = "WRONG_PROCESS" /\ UNCHANGED process
    /\ UNCHANGED <<process_upto, process_hashmap, running_list, queue, current, lost>>

freeze_system == panic # "NONE" /\ UNCHANGED vars

Next ==
    \/ new_blank_process
    \/ TimerTrap
    \/ FaultKill
    \/ AsyncKill
    \/ freeze_system

\* The timer keeps going off.
Spec == Init /\ [][Next]_vars /\ WF_vars(TimerTrap)

-----------------------------------------------------------------------------
(* Properties *)

\* Objects, lists and ids stay in range.  The panics are those of list_remove and the
\* write through the slot of the list; a search that does not come back and a kill of a
\* process that is not found take a leaf that was freed and used again in a bucket of two
\* ids, so they need more than LEN + 1 ids (process.c:36-43, 119-127, hashmap.c:46-60).
TypeOK ==
    /\ process_upto \in 0..MaxPid
    /\ process_hashmap.used \subseteq Leaves
    /\ running_list.cnt \in 0..MaxPid
    /\ \A o \in Objs : process[o].type \in {"FREE", "IDLE", "NORMAL", "DEAD"}
    /\ panic \in {"NONE", "ATTEMPT_REMOVE_LIST_ITEM_OUT_BOUNDS", "WROTE_PAST_THE_SECTION"}
                  \cup IF process_upto > LEN + 1 THEN {"HANG", "WRONG_PROCESS"} ELSE {}

\* process_from_id finds every process that was not cleaned up, under an id no other
\* process has, as long as no younger id of its bucket was cleaned up: hashmap_remove
\* leaves a freed leaf in its chain, and the memory of the leaf comes back in the chain
\* of another bucket, or of the same one (hashmap.c:25-44).  No lookup ever leads to
\* another process than the one asked for.
YoungerInBucket(o) ==
    {id \in process[o].process_id+1..process_upto-1 : Bucket(id) = Bucket(process[o].process_id)}
LivePidsFound ==
    panic = "NONE" => \A o \in Live :
        LET found == hashmap_get(process_hashmap, process[o].process_id)
        IN  /\ found \in {o, NONE, HANG}
            /\ YoungerInBucket(o) \subseteq {process[x].process_id : x \in Live} => found = o

\* A process that was cleaned up is nowhere: the hart and the run queue lead to
\* processes that exist, every normal process is in one of the two, once, and a
\* process that was killed is in the run queue no more.
NothingFreedIsScheduled ==
    panic = "NONE" /\ current # NONE =>
        LET waiting == {queue[k] : k \in DOMAIN queue}
        IN  /\ current \in Live
            /\ waiting \cup ({current} \ {Idle}) = Live \ {Idle}
            /\ Cardinality(waiting \ {current}) = Len(queue)
            /\ \A o \in waiting : process[o].type = "NORMAL"

\* A process that was killed while it was on the hart is cleaned up, unless the kernel
\* stops: the next tick takes it from the hart (context.c:36-38).
Doomed == current # NONE /\ process[current].type = "DEAD"
KilledIsCleanedUp == Doomed ~> (~Doomed \/ panic # "NONE")

-----------------------------------------------------------------------------
(* What comments of the repository say, and the code does not do *)

\* "upto 65,536 processes" (process.c:20): every process that was not cleaned up is found,
\* however many ids were given out.
EveryLivePidFound ==
    panic = "NONE" => \A o \in Live : hashmap_get(process_hashmap, process[o].process_id) = o

\* "returns 0 if nothing fetched" (hashmap.c:46): an id whose process was cleaned up is
\* not in the map.
RemovedPidIsGone ==
    panic = "NONE" => \A id \in 0..process_upto-1 :
        (\A o \in Live : process[o].process_id # id) => hashmap_get(process_hashmap, id) = NONE

\* "does swap remove so must move old one" (list.c:44): every process that exists is in
\* the running list.
EveryProcessIsListed ==
    panic = "NONE" => \A o \in Live : \E i \in 0..running_list.cnt-1 :
        Item(running_list, i) = process[o].process_id
=============================================================================
