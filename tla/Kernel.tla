------------------------------- MODULE Kernel -------------------------------
(***************************************************************************)
(* Traps, processes and context switches on the one hart the kernel is     *)
(* started with: trap.S, state.S, kernel/trap, kernel/process/process.c    *)
(* and context.c, over the ring of scheduler.c and the flow of the file    *)
(* system calls.                                                           *)
(*                                                                         *)
(* What the hart executes is a context: a point of the user program, or a  *)
(* point of the interruptible trap handler on the process's kernel stack.  *)
(* Code that runs on the hart's own stack runs with interrupts off from    *)
(* trap_entry to sret, so a trap handled there is one step.                *)
(***************************************************************************)
EXTENDS Ring, SyscallFlow

CONSTANT UserPCs            \* points of the user program: pc + 4 is (pc + 1) % UserPCs

ASSUME UserPCsAssumption == UserPCs \in Nat \ {0}

AllProcess == Process \union {Idle}
FrameKinds == {"userspace", "kernelspace", "page_fault"}
Context == [point : Points \union {"user", "stale"}, pc : 0..UserPCs-1, irq : BOOLEAN]

VARIABLES
    ring,
    process_type, running, trap_state, reading_userspace, last_hart,
    mapped,         \* mapped[p]: the trapframe at TRAPFRAME_ADDRESS in p's page table
    frames,         \* frames[p][kind]: the context saved in that trapframe of p,
                    \* Stale once it has been loaded
    satp,           \* the process whose page table the hart uses
    hart,           \* the context the hart executes
    timer,          \* "armed" until it goes off, then "pending" until it is set again
    panic,          \* "NONE", a PANIC message, or what made the run undefined
    user_pc,        \* history: how far p's user program has really got
    kernel_at       \* history: where p's trap handler really is

procs == <<process_type, running, trap_state, reading_userspace, last_hart>>
memory == <<mapped, frames>>
history == <<user_pc, kernel_at>>
vars == <<ring, procs, memory, satp, hart, timer, panic, history>>

Halts == {"KERNEL_SCHEDULER_QUEUE_FULL", "ATTEMPT_REMOVE_LIST_ITEM_OUT_BOUNDS",
          "KERNEL_TRAP_USER_FAULT",
          "KERNEL_TRAP_PAGE_FAULT", "DOUBLE_PROCESS_TRAP_NOT_PAGE_FAULT",
          "PAGE_FAULT_FROM_KERNEL_READ_USERSPACE", "NULL_PROCESS_PTR",
          "STACK_SWAPPED", "STACK_OVERWRITTEN", "UNSET_HART_ID"}

\* Nothing runs after a PANIC, or is determined by the source after the other
\* four: the state they leave is not used again.
Halt(why) ==
    /\ panic' = why
    /\ UNCHANGED <<ring, procs, memory, satp, hart, timer, history>>

User(pc) == [point |-> "user", pc |-> pc, irq |-> TRUE]
Kern(point, irq) == [point |-> point, pc |-> 0, irq |-> irq]
Stale == [point |-> "stale", pc |-> 0, irq |-> FALSE]

\* trap_data_iter_instruction: sepc += 4.
Skip(pc) == (pc + 1) % UserPCs

\* new_blank_process sets process_ptr in two of the three trapframes; the page
\* of the third is zero.
process_ptr(p, kind) == IF kind = "page_fault" THEN NULL ELSE p

\* The processes there are.
Made == {p \in Process : process_type[p] # "NONE"}

\* new_blank_process for some processes, create_init_process and context_bootstrap:
\* the idle process is about to run and the others wait.
Init ==
    /\ process_type \in [AllProcess -> {"NORMAL", "IDLE", "NONE"}]
    /\ \A p \in AllProcess : process_type[p] = "IDLE" <=> p = Idle
    /\ Made # {}
    /\ ring \in Rings
    /\ ring.start = 0
    /\ HoldsExactly(ring, Made)
    /\ \A k \in Slots : k >= ring.count => ring.queue[k] = NULL
    /\ running = [p \in AllProcess |-> FALSE]
    /\ trap_state = [p \in AllProcess |-> "PROCESS"]
    /\ reading_userspace = [p \in AllProcess |-> FALSE]
    /\ last_hart = [p \in AllProcess |-> IF p = Idle THEN "HART" ELSE "U64_MAX"]
    /\ mapped = [p \in AllProcess |-> "userspace"]
    /\ frames = [p \in AllProcess |-> [kind \in FrameKinds |->
                    IF p # Idle /\ kind = "userspace" THEN User(0) ELSE Stale]]
    /\ satp = Idle
    /\ hart = User(0)
    /\ timer = "armed"
    /\ panic = "NONE"
    /\ user_pc = [p \in AllProcess |-> 0]
    /\ kernel_at = [p \in AllProcess |-> User(0)]

-----------------------------------------------------------------------------
(* The user program and the traps it makes that end on the hart's stack *)

InUser(p) == panic = "NONE" /\ satp = p /\ hart.point = "user"

UserStep(p) ==
    /\ InUser(p)
    /\ hart' = User(Skip(hart.pc))
    /\ user_pc' = [user_pc EXCEPT ![p] = Skip(@)]
    /\ UNCHANGED <<ring, procs, memory, satp, timer, panic, kernel_at>>

\* syscall_uart answers both kinds of print from the synchronous handler: the
\* context is stored, its sepc moved on, and loaded again.
SyncSyscall(p) ==
    LET saved == [frames EXCEPT ![p][mapped[p]] = User(Skip(hart.pc))]
    IN  /\ InUser(p)
        /\ hart' = saved[p][mapped[p]]
        /\ frames' = [saved EXCEPT ![p][mapped[p]] = Stale]
        /\ user_pc' = [user_pc EXCEPT ![p] = Skip(@)]
        /\ UNCHANGED <<ring, procs, mapped, satp, timer, panic, kernel_at>>

\* An access fault, a misaligned access or an illegal instruction: trapframe_parse
\* takes the privilege from a bit of scause that is never set, so each handler
\* sees a fault of the supervisor.  A breakpoint is not handled either.
UserFault(p) ==
    /\ InUser(p)
    /\ Halt("KERNEL_TRAP_USER_FAULT")

-----------------------------------------------------------------------------
(* Changing the process *)

\* Mutant of SwitchTo: the old process stays marked as running.
SwitchToKeepRunning(next, saved) ==
    /\ last_hart' = [last_hart EXCEPT ![next] = "HART"]
    /\ satp' = next
    /\ running' = [running EXCEPT ![next] = TRUE]
    /\ hart' = saved[next][mapped[next]]
    /\ frames' = [saved EXCEPT ![next][mapped[next]] = Stale]

\* context_change_process when next is not the process on the hart, up to sret:
\* the context of next is loaded from the trapframe mapped in its table.  saved
\* is frames with the context that was interrupted.  "HART" stands for the ids
\* that lead to the stack this hart is on.
SwitchTo(next, saved) ==
    /\ last_hart' = [last_hart EXCEPT ![next] = "HART"]
    /\ satp' = next
    /\ running' = [running EXCEPT ![next] = TRUE,
                                  ![satp] = process_type[satp] # "NORMAL" /\ @]
    /\ hart' = saved[next][mapped[next]]
    /\ frames' = [saved EXCEPT ![next][mapped[next]] = Stale]

\* Mutant of Requeues: the process is never queued again.
RequeuesNone(p) == FALSE

\* trap_change_process queues the process it takes off the hart again
\* (block_waiting is never set).
Requeues(p) == process_type[p] = "NORMAL"

\* The rest of trap_change_process when the hart id is the hart's own.
ChangeTo(next, left, saved) ==
    /\ ring' = left
    /\ timer' = "armed"
    /\ IF next = satp
         THEN /\ hart' = saved[satp][mapped[satp]]
              /\ frames' = [saved EXCEPT ![satp][mapped[satp]] = Stale]
              /\ UNCHANGED <<satp, running, last_hart>>
         ELSE SwitchTo(next, saved)
    /\ UNCHANGED <<process_type, trap_state, reading_userspace, mapped, panic, history>>

\* trap_change_process and the return to user or to the interrupted handler.
\* Nothing assigns trap_data.hart_id (trapframe_parse), so any value may be in it.
\* It picks the idle process when the ring is empty, and the stack that is mapped
\* into a process that comes on the hart: unless it is the hart's own, the C code
\* goes on with another process or on other pages than the source says.
trap_change_process(saved) ==
    LET requeue == Requeues(satp)
        queued  == IF requeue THEN Queue(ring, satp) ELSE ring
        next    == NextProcess(queued)
    IN  IF requeue /\ RingFull(ring) THEN Halt("KERNEL_SCHEDULER_QUEUE_FULL")
        ELSE IF next # satp /\ process_type[satp] = "DEAD"
          THEN \/ Halt("ATTEMPT_REMOVE_LIST_ITEM_OUT_BOUNDS")   \* process_cleanup
               \/ Halt("UNSET_HART_ID")
        ELSE \/ /\ next # satp \/ queued.count = 0
                /\ Halt("UNSET_HART_ID")
             \/ ChangeTo(next, NextRing(queued), saved)

Tick ==
    /\ panic = "NONE"
    /\ timer = "armed"
    /\ timer' = "pending"
    /\ UNCHANGED <<ring, procs, memory, satp, hart, panic, history>>

\* STORE_TRAP_FRAME and handle_sync_trap on a timer interrupt, which the hart
\* takes in user mode or with interrupts enabled.
TimerTrap ==
    /\ panic = "NONE"
    /\ timer = "pending"
    /\ hart.irq
    /\ IF process_ptr(satp, mapped[satp]) = NULL
         THEN Halt("NULL_PROCESS_PTR")
         ELSE trap_change_process([frames EXCEPT ![satp][mapped[satp]] = hart])

-----------------------------------------------------------------------------
(* Traps handled on the process's kernel stack *)

\* Mutant of Remap: the trapframe stays the one that was mapped.
RemapNoMap(p, kind, state, context) ==
    /\ trap_state' = [trap_state EXCEPT ![p] = state]
    /\ hart' = context
    /\ UNCHANGED mapped

\* vma_map_kernel of a trapframe, the new trap_state, and the context to go on with.
Remap(p, kind, state, context) ==
    /\ mapped' = [mapped EXCEPT ![p] = kind]
    /\ trap_state' = [trap_state EXCEPT ![p] = state]
    /\ hart' = context

\* handle_async_trap up to irq_enable, after STORE_TRAP_FRAME and after
\* handle_sync_trap gave the trap over.
EnterHandler(p, is_page_fault, entry) ==
    IF is_page_fault /\ trap_state[p] # "PROCESS" /\ ~reading_userspace[p]
      THEN Halt("KERNEL_TRAP_PAGE_FAULT")
    ELSE IF trap_state[p] = "INTERRUPTABLE_TRAP" /\ ~is_page_fault
      THEN Halt("DOUBLE_PROCESS_TRAP_NOT_PAGE_FAULT")
    ELSE IF trap_state[p] = "READ_USERSPACE"
      THEN Halt("PAGE_FAULT_FROM_KERNEL_READ_USERSPACE")
    ELSE
      /\ frames' = [frames EXCEPT ![p][mapped[p]] = hart]
      /\ IF trap_state[p] = "PROCESS"
           THEN Remap(p, "kernelspace", "INTERRUPTABLE_TRAP", Kern(entry, TRUE))
           ELSE Remap(p, "page_fault", "READ_USERSPACE", Kern(entry, TRUE))
      /\ kernel_at' = [kernel_at EXCEPT ![p] = hart']
      /\ UNCHANGED <<ring, process_type, running, reading_userspace, last_hart,
                     satp, timer, panic, user_pc>>

\* A system call the synchronous handler leaves to the asynchronous one.
AsyncSyscall(p, call) == InUser(p) /\ EnterHandler(p, FALSE, call)

UserPageFault(p) == InUser(p) /\ EnterHandler(p, TRUE, "page_fault")

\* The page of the buffer that arch_copy_user is at is not mapped.
CopyPageFault(p) ==
    /\ panic = "NONE" /\ satp = p /\ hart.point \in CopyPoints
    /\ EnterHandler(p, TRUE, "nested_fault")

InHandler(p, point) == panic = "NONE" /\ satp = p /\ hart.point = point

\* Mutant of KernelStep: reading_userspace is not set around the copy.
KernelStepNoFlag(p, edge) ==
    /\ InHandler(p, edge[1])
    /\ hart' = Kern(edge[2], IF edge[3] = "keep" THEN hart.irq ELSE edge[3] = "on")
    /\ kernel_at' = [kernel_at EXCEPT ![p] = hart']
    /\ UNCHANGED <<ring, procs, memory, satp, timer, panic, user_pc>>

\* From one change of the interrupt enable bit to the next.
KernelStep(p, edge) ==
    /\ InHandler(p, edge[1])
    /\ hart' = Kern(edge[2], IF edge[3] = "keep" THEN hart.irq ELSE edge[3] = "on")
    /\ reading_userspace' = [reading_userspace EXCEPT ![p] = edge[2] \in CopyPoints]
    /\ kernel_at' = [kernel_at EXCEPT ![p] = hart']
    /\ UNCHANGED <<ring, process_type, running, trap_state, last_hart, memory, satp,
                   timer, panic, user_pc>>

\* Mutant of AsyncReturn: trap_state is not set back.
AsyncReturnKeepState(p) ==
    LET resumed == User(Skip(frames[p]["userspace"].pc))
    IN  /\ InHandler(p, "exit")
        /\ frames' = [frames EXCEPT ![p]["userspace"] = Stale]
        /\ Remap(p, "userspace", trap_state[p], resumed)
        /\ user_pc' = [user_pc EXCEPT ![p] = Skip(@)]
        /\ kernel_at' = [kernel_at EXCEPT ![p] = User(0)]
        /\ UNCHANGED <<ring, process_type, running, reading_userspace, last_hart, satp,
                       timer, panic>>

\* The end of handle_async_trap on a call that was carried out.
AsyncReturn(p) ==
    LET resumed == User(Skip(frames[p]["userspace"].pc))
    IN  /\ InHandler(p, "exit")
        /\ frames' = [frames EXCEPT ![p]["userspace"] = Stale]
        /\ Remap(p, "userspace", "PROCESS", resumed)
        /\ user_pc' = [user_pc EXCEPT ![p] = Skip(@)]
        /\ kernel_at' = [kernel_at EXCEPT ![p] = User(0)]
        /\ UNCHANGED <<ring, process_type, running, reading_userspace, last_hart, satp,
                       timer, panic>>

\* The end of handle_async_trap when it kills: trap_change_process, and only then
\* kill_process, both on the kernel stack of p.  vma_swap to another process
\* takes that stack away.  A bad call is skipped, a faulting instruction is not.
AsyncKill(p, point) ==
    LET requeue == Requeues(p)
        queued  == IF requeue THEN Queue(ring, p) ELSE ring
        Pc(pc)  == IF point = "bad" THEN Skip(pc) ELSE pc
        resumed == User(Pc(frames[p]["userspace"].pc))
    IN  /\ InHandler(p, point)
        /\ IF requeue /\ RingFull(ring) THEN Halt("KERNEL_SCHEDULER_QUEUE_FULL")
           ELSE IF NextProcess(queued) # p THEN Halt("STACK_SWAPPED")
           ELSE IF ~running[p] THEN Halt("ATTEMPT_REMOVE_LIST_ITEM_OUT_BOUNDS")
           ELSE /\ ring' = NextRing(queued)
                /\ timer' = "armed"
                /\ process_type' = [process_type EXCEPT ![p] = "DEAD"]
                /\ frames' = [frames EXCEPT ![p]["userspace"] = Stale]
                /\ Remap(p, "userspace", "PROCESS", resumed)
                /\ user_pc' = [user_pc EXCEPT ![p] = Pc(@)]
                /\ kernel_at' = [kernel_at EXCEPT ![p] = User(0)]
                /\ UNCHANGED <<running, reading_userspace, last_hart, satp, panic>>

\* The end of handle_async_trap for a fault inside a copy: a0 becomes 1 and the
\* instruction is skipped, so arch_copy_user returns and kernel_read_user (or
\* kernel_write_user) enables interrupts.  The handler was started at the top of
\* the stack whose frames it returns into (handler.c:107-113), so whether they
\* survived depends on the compiler's layout.
NestedReturn(p) ==
    /\ InHandler(p, "nested_fault")
    /\ \/ Halt("STACK_OVERWRITTEN")
       \/ \E edge \in Flow :
            /\ edge[1] = frames[p]["kernelspace"].point
            /\ Remap(p, "kernelspace", "INTERRUPTABLE_TRAP", Kern(edge[2], TRUE))
            /\ reading_userspace' = [reading_userspace EXCEPT ![p] = FALSE]
            /\ kernel_at' = [kernel_at EXCEPT ![p] = hart']
            /\ frames' = [frames EXCEPT ![p]["kernelspace"] = Stale]
            /\ UNCHANGED <<ring, process_type, running, last_hart, satp, timer, panic,
                           user_pc>>

freeze_system ==
    /\ panic # "NONE"
    /\ UNCHANGED vars

ProcessStep(p) ==
    \/ UserStep(p)
    \/ SyncSyscall(p)
    \/ UserFault(p)
    \/ UserPageFault(p)
    \/ \E call \in Syscalls : AsyncSyscall(p, call)

HandlerStep(p) ==
    \/ \E edge \in Flow : KernelStep(p, edge)
    \/ AsyncReturn(p)
    \/ \E point \in {"bad", "page_fault"} : AsyncKill(p, point)
    \/ NestedReturn(p)

\* The idle process only ever makes the one call (idle_process.s).
Next ==
    \/ \E p \in Process : ProcessStep(p) \/ CopyPageFault(p) \/ HandlerStep(p)
    \/ AsyncSyscall(Idle, "idle_hang")
    \/ Tick
    \/ TimerTrap
    \/ freeze_system

Spec == Init /\ [][Next]_vars

\* The timer goes off once it is set, and the hart takes an interrupt it keeps
\* getting the chance to take.  A process that is on the hart again and again has
\* its time slice to get on with the handler, whose loops are over buffers and
\* descriptor tables of finite size.
Fairness ==
    /\ WF_vars(Tick)
    /\ SF_vars(TimerTrap)
    /\ \A p \in Process :
          /\ SF_vars(HandlerStep(p))
          /\ SF_vars(\E edge \in LoopExits : KernelStep(p, edge))

FairSpec == Spec /\ Fairness

-----------------------------------------------------------------------------
(* Properties *)

\* Every variable stays in its range.
TypeOK ==
    /\ ring \in Rings
    /\ process_type \in [AllProcess -> {"NORMAL", "IDLE", "DEAD", "NONE"}]
    /\ running \in [AllProcess -> BOOLEAN]
    /\ trap_state \in [AllProcess -> {"PROCESS", "INTERRUPTABLE_TRAP", "READ_USERSPACE"}]
    /\ reading_userspace \in [AllProcess -> BOOLEAN]
    /\ last_hart \in [AllProcess -> {"U64_MAX", "HART"}]
    /\ mapped \in [AllProcess -> FrameKinds]
    /\ frames \in [AllProcess -> [FrameKinds -> Context]]
    /\ satp \in AllProcess
    /\ hart \in Context
    /\ timer \in {"armed", "pending"}
    /\ panic \in Halts \union {"NONE"}
    /\ user_pc \in [AllProcess -> 0..UserPCs-1]
    /\ kernel_at \in [AllProcess -> Context]

\* The context p goes on with when it next has the hart.
At(p) == IF p = satp THEN hart ELSE frames[p][mapped[p]]

\* A process goes on exactly where it was stopped, in its program and in its
\* handler, whatever ran in between, and a handler's process gets back to the
\* instruction that trapped (trap.S, context.c:17-44, process_handler.c:79-110).
ContextsPreserved ==
    \A p \in AllProcess :
        IF kernel_at[p].point = "user"
          THEN At(p) = User(user_pc[p])
          ELSE At(p) = kernel_at[p] /\ frames[p]["userspace"] = User(user_pc[p])

\* The trapframe a trap of p would be stored in is the one its trap_state calls
\* for, so that the frames of the levels below are never overwritten
\* (process_handler.c:24-47).
TrapEntryReady ==
    \A p \in AllProcess :
        mapped[p] = CASE trap_state[p] = "PROCESS" -> "userspace"
                      [] trap_state[p] = "INTERRUPTABLE_TRAP" -> "kernelspace"
                      [] trap_state[p] = "READ_USERSPACE" -> "page_fault"

\* Every process but the one on the hart waits in the ring, once
\* (handler.c:31-41, scheduler.c).
WaitingOrOnHart == HoldsExactly(ring, Made \ {satp})

\* kill_process and context_change_process trust the running flag: it is set for
\* the process on the hart and for no other (context.c:26-34, process.c:126).
RunningIsOnHart == \A p \in Process : running[p] <=> p = satp

\* A process that lost the hart is neither copying from user memory nor changing
\* the pager, the allocator or the file system: irq_disable covers all of it.
SharedStructuresExclusive ==
    \A p \in AllProcess \ {satp} :
        /\ At(p).point \notin SharedPoints \union CopyPoints
        /\ reading_userspace[p] => At(p).point = "nested_fault"

\* The checks that guard the kernel against itself never fire.
NoInternalPanic ==
    panic \notin {"KERNEL_SCHEDULER_QUEUE_FULL", "KERNEL_TRAP_PAGE_FAULT",
                  "DOUBLE_PROCESS_TRAP_NOT_PAGE_FAULT",
                  "PAGE_FAULT_FROM_KERNEL_READ_USERSPACE"}

\* Round robin: every process has the hart again and again, whatever the others
\* do, unless the kernel stops.
EveryProcessRuns ==
    \A p \in Process : []<>(satp = p \/ p \notin Made \/ panic # "NONE")

\* A system call gets back to the program, unless it is the call that hangs or
\* the kernel stops.
SyscallsComplete ==
    \A p \in Process :
        (trap_state[p] # "PROCESS" /\ kernel_at[p].point # "idle_hang")
            ~> (trap_state[p] = "PROCESS" \/ panic # "NONE")

-----------------------------------------------------------------------------
(* What comments and notes of the repository say, and the code does not do *)

\* "even if process is changed asm doesn't need to worry (vma swap and trap_frame
\* swap done in c)" (handler.c:28-29): C code that changes the process goes on
\* running on the stack it has.
ProcessChangeKeepsStack == panic # "STACK_SWAPPED"

\* "a0 becomes response, 0 success, any more failed" (user_accses.S:10): a copy
\* from an unmapped page gets back to its caller.
FailedCopyReturns == panic # "STACK_OVERWRITTEN"

\* trap_data's process_ptr "would like to be a process pointer type"
\* (kernel/trap/handler.h): a trap that may happen finds the process on the hart.
TrapFindsProcess ==
    panic = "NONE" /\ hart.irq => process_ptr(satp, mapped[satp]) = satp

\* "make sure to set process trapframe hart_id to correct value, both kernel and
\* userspace" (scheduler.c:71-72): a change of process knows the hart it is on.
HartIdIsSet == panic # "UNSET_HART_ID"

\* "sstatus; // Privilege level machine was in." (parser.h:42): a fault of a user
\* program is told from one of the kernel and does not stop it.
UserFaultIsNotFatal == panic # "KERNEL_TRAP_USER_FAULT"

\* "bad syscall kills process instead of returning error"
\* (docs/implementation_note.md:66): the process goes, the kernel stays.
KillEndsOnlyTheProcess == panic # "ATTEMPT_REMOVE_LIST_ITEM_OUT_BOUNDS"

\* "if there is only 1 process available the schuadler can't see it for next
\* process so won't repick it again" (docs/implementation_note.md).
SoleProcessNotRepicked ==
    [][TimerTrap /\ process_type[satp] = "NORMAL" /\ ring.count = 0 => satp' # satp]_vars
=============================================================================
