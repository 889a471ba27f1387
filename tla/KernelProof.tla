---------------------------- MODULE KernelProof -----------------------------
(* Proofs about traps and context switches, for any number of processes, any *)
(* size of the run queue and any user programs.                              *)
EXTENDS Kernel, RingProof

\* The points that are entered with interrupts off.
Guarded == SharedPoints \union CopyPoints

Frames == [AllProcess -> [FrameKinds -> Context]]

-----------------------------------------------------------------------------
(* The inductive invariant *)

\* Processes keep their kind, and there is room in the ring for the one on the hart.
KindsAndRoom ==
    /\ process_type[Idle] = "IDLE"
    /\ \A p \in Process : process_type[p] # "IDLE"
    /\ satp = Idle \/ satp \in Made
    /\ satp # Idle => ring.count < process_queue_size

\* The handler of p is where the flags of p say, with interrupts off in every section
\* that needs them off; a process that lost the hart had interrupts on.
HandlerAsFlagged(p) ==
    LET at == kernel_at[p].point
    IN  /\ at \in Points \union {"user"}
        /\ trap_state[p] = "PROCESS" <=> at = "user"
        /\ trap_state[p] = "READ_USERSPACE" <=> at = "nested_fault"
        /\ at \in Guarded => ~kernel_at[p].irq
        /\ at = "nested_fault" => p = satp /\ frames[p]["kernelspace"].point \in CopyPoints
        /\ (reading_userspace[p] <=> at \in CopyPoints \union {"nested_fault"})
        /\ p # satp => At(p).irq

\* The part of ContextsPreserved that is about p.
ContextKept(p) ==
    IF kernel_at[p].point = "user"
      THEN At(p) = User(user_pc[p])
      ELSE At(p) = kernel_at[p] /\ frames[p]["userspace"] = User(user_pc[p])

\* The trapframe of p for the next trap.
FrameReady(p) ==
    /\ trap_state[p] = "PROCESS" => mapped[p] = "userspace"
    /\ trap_state[p] = "INTERRUPTABLE_TRAP" => mapped[p] = "kernelspace"
    /\ trap_state[p] = "READ_USERSPACE" => mapped[p] = "page_fault"

ProcessOK(p) == HandlerAsFlagged(p) /\ ContextKept(p) /\ FrameReady(p)

IInv ==
    /\ TypeOK
    /\ KindsAndRoom
    /\ \A p \in AllProcess : ProcessOK(p)
    /\ WaitingOrOnHart
    /\ RunningIsOnHart
    /\ NoInternalPanic

-----------------------------------------------------------------------------
(* Facts about the flow of the system calls *)

\* No edge of the flow enters a guarded section without turning interrupts off, and
\* a copy is left to a point outside of them (handler.c of the file system calls).
LEMMA FlowIsGuarded ==
    ASSUME NEW e \in Flow
    PROVE  /\ e[1] \in Points \ {"nested_fault", "user", "stale"}
           /\ e[2] \in Points \ {"nested_fault", "user", "stale"}
           /\ e[2] \in Guarded => e[3] = "off"
           /\ e[1] \in CopyPoints => e[2] \notin Guarded
  <1>1. e[1] \in Points /\ e[2] \in Points
    BY DEF Points
  <1>2. CASE e \in OpenFlow
    BY <1>1, <1>2 DEF OpenFlow, Guarded, SharedPoints, CopyPoints
  <1>3. CASE e \in ReadFlow
    BY <1>1, <1>3 DEF ReadFlow, Guarded, SharedPoints, CopyPoints
  <1>4. CASE e \in WriteFlow
    BY <1>1, <1>4 DEF WriteFlow, Guarded, SharedPoints, CopyPoints
  <1>5. CASE e \in SeekFlow
    BY <1>1, <1>5 DEF SeekFlow, Guarded, SharedPoints, CopyPoints
  <1>6. QED
    BY <1>2, <1>3, <1>4, <1>5 DEF Flow

\* Points of the handler are not points of the program, and a trap starts its handler
\* outside of the guarded sections.
LEMMA PointsAreApart ==
    /\ "user" \notin Points /\ "stale" \notin Points
    /\ CopyPoints \subseteq Points /\ "nested_fault" \notin Guarded /\ "user" \notin Guarded
    /\ {"page_fault", "nested_fault", "exit", "bad"} \subseteq Points
    /\ \A call \in Syscalls \union {"page_fault", "exit"} :
          call \in Points /\ call \notin Guarded /\ call \notin {"user", "nested_fault"}
  <1>1. "user" \notin Points /\ "stale" \notin Points
    BY FlowIsGuarded DEF Points, Syscalls
  <1>2. <<"open_copy", "open_path", "on">> \in Flow
    BY DEF Flow, OpenFlow
  <1>3. <<"read_copy", "read_next", "on">> \in Flow
    BY DEF Flow, ReadFlow
  <1>4. <<"write_copy", "write_in", "on">> \in Flow
    BY DEF Flow, WriteFlow
  <1>5. "open_copy" \in Points /\ "read_copy" \in Points /\ "write_copy" \in Points
    BY <1>2, <1>3, <1>4 DEF Points
  <1>6. QED
    BY <1>1, <1>5 DEF Points, Syscalls, Guarded, SharedPoints, CopyPoints

-----------------------------------------------------------------------------
(* Contexts and trapframes *)

\* What the constructors of contexts make.
LEMMA ContextsAreContexts ==
    /\ Stale \in Context
    /\ \A pc \in 0..UserPCs-1 :
          User(pc) \in Context /\ User(pc).point = "user" /\ User(pc).irq /\ User(pc).pc = pc
    /\ \A at \in Points, irq \in BOOLEAN :
          Kern(at, irq) \in Context /\ Kern(at, irq).point = at /\ (Kern(at, irq).irq <=> irq)
    /\ \A pc \in 0..UserPCs-1 : Skip(pc) \in 0..UserPCs-1
  <1>1. 0 \in 0..UserPCs-1
    BY UserPCsAssumption
  <1>2. \A pc \in 0..UserPCs-1 : Skip(pc) \in 0..UserPCs-1
    BY UserPCsAssumption DEF Skip
  <1>3. QED
    BY <1>1, <1>2 DEF Context, Stale, User, Kern

\* One trapframe is written, the others stay (STORE_TRAP_FRAME, trap.S).
Store(f, p, kind, c) == [f EXCEPT ![p][kind] = c]

LEMMA StoreFrame ==
    ASSUME NEW f \in Frames, NEW p \in AllProcess, NEW kind \in FrameKinds, NEW c \in Context
    PROVE  /\ Store(f, p, kind, c) \in Frames
           /\ Store(f, p, kind, c)[p][kind] = c
           /\ \A other \in FrameKinds : other # kind => Store(f, p, kind, c)[p][other] = f[p][other]
           /\ \A q \in AllProcess : q # p => Store(f, p, kind, c)[q] = f[q]
  BY DEF Frames, Store

-----------------------------------------------------------------------------
(* Steps that leave the process on the hart *)

\* What the handler and the traps of one process leave of another.
Untouched(q) ==
    /\ frames'[q] = frames[q] /\ mapped'[q] = mapped[q]
    /\ trap_state'[q] = trap_state[q] /\ reading_userspace'[q] = reading_userspace[q]
    /\ kernel_at'[q] = kernel_at[q] /\ user_pc'[q] = user_pc[q]

LEMMA OthersKept ==
    ASSUME NEW q \in AllProcess, ProcessOK(q), q # satp, satp' = satp, Untouched(q)
    PROVE  ProcessOK(q)'
  BY DEF ProcessOK, HandlerAsFlagged, ContextKept, FrameReady, At, Untouched

LEMMA HaltKeepsIInv ==
    ASSUME IInv, Halt("KERNEL_TRAP_USER_FAULT") \/ Halt("ATTEMPT_REMOVE_LIST_ITEM_OUT_BOUNDS")
                 \/ Halt("NULL_PROCESS_PTR") \/ Halt("STACK_SWAPPED") \/ Halt("STACK_OVERWRITTEN")
                 \/ Halt("UNSET_HART_ID")
    PROVE  IInv'
  <1>1. /\ UNCHANGED <<ring, procs, memory, satp, hart, timer, history>>
        /\ panic' \in Halts /\ NoInternalPanic'
    BY DEF Halt, Halts, NoInternalPanic
  <1>2. /\ UNCHANGED <<ring, process_type, running, trap_state, reading_userspace, last_hart>>
        /\ UNCHANGED <<mapped, frames, satp, hart, timer, user_pc, kernel_at>>
    BY <1>1 DEF procs, memory, history
  <1>3. TypeOK'
    BY <1>1, <1>2 DEF IInv, TypeOK
  <1>4. \A q \in AllProcess : ProcessOK(q)'
    BY <1>2 DEF IInv, ProcessOK, HandlerAsFlagged, ContextKept, FrameReady, At
  <1>5. KindsAndRoom'
    BY <1>2 DEF IInv, KindsAndRoom, Made
  <1>6. WaitingOrOnHart' /\ RunningIsOnHart'
    BY <1>2 DEF IInv, WaitingOrOnHart, RunningIsOnHart, Made
  <1>7. QED
    BY <1>1, <1>3, <1>4, <1>5, <1>6 DEF IInv

LEMMA StaysOnHart ==
    ASSUME IInv, TypeOK', ProcessOK(satp)',
           UNCHANGED <<ring, process_type, running, last_hart, satp, panic>>,
           \A q \in AllProcess : q # satp => Untouched(q)
    PROVE  IInv'
  <1>1. \A q \in AllProcess : ProcessOK(q)'
    BY OthersKept DEF IInv
  <1>2. KindsAndRoom'
    BY DEF IInv, KindsAndRoom, Made
  <1>3. WaitingOrOnHart' /\ RunningIsOnHart' /\ NoInternalPanic'
    BY DEF IInv, WaitingOrOnHart, RunningIsOnHart, NoInternalPanic, Made
  <1>4. QED
    BY <1>1, <1>2, <1>3 DEF IInv

\* A hart in the user program has a process whose handler is not running.
LEMMA InUserMeans ==
    ASSUME IInv, NEW p \in AllProcess, InUser(p)
    PROVE  /\ satp = p /\ panic = "NONE"
           /\ kernel_at[p].point = "user" /\ trap_state[p] = "PROCESS"
           /\ mapped[p] = "userspace" /\ ~reading_userspace[p]
           /\ hart = User(user_pc[p]) /\ hart.pc = user_pc[p]
           /\ user_pc[p] \in 0..UserPCs-1
  <1>1. satp = p /\ panic = "NONE" /\ At(p) = hart /\ hart.point = "user" /\ ProcessOK(p)
    BY DEF IInv, InUser, At
  <1>2. kernel_at[p].point = "user"
    BY <1>1 DEF ProcessOK, ContextKept
  <1>3. user_pc[p] \in 0..UserPCs-1
    BY DEF IInv, TypeOK
  <1>4. hart = User(user_pc[p]) /\ hart.pc = user_pc[p]
    BY <1>1, <1>2, <1>3, ContextsAreContexts DEF ProcessOK, ContextKept
  <1>5. trap_state[p] = "PROCESS" /\ mapped[p] = "userspace"
    BY <1>1, <1>2 DEF ProcessOK, HandlerAsFlagged, FrameReady
  <1>6. ~reading_userspace[p]
    BY <1>1, <1>2, PointsAreApart DEF ProcessOK, HandlerAsFlagged, CopyPoints
  <1>7. QED
    BY <1>1, <1>2, <1>3, <1>4, <1>5, <1>6

LEMMA UserStepKeepsIInv ==
    ASSUME IInv, NEW p \in Process, UserStep(p) \/ SyncSyscall(p)
    PROVE  IInv'
  <1>1. p \in AllProcess /\ InUser(p)
    BY DEF AllProcess, UserStep, SyncSyscall
  <1> DEFINE pc == Skip(user_pc[p])
             old == user_pc[p]
  <1>2. /\ satp = p /\ kernel_at[p].point = "user" /\ trap_state[p] = "PROCESS"
        /\ mapped[p] = "userspace" /\ hart.pc = old /\ pc \in 0..UserPCs-1
    BY <1>1, InUserMeans, ContextsAreContexts
  <1>3. /\ UNCHANGED <<ring, process_type, running, trap_state, reading_userspace, last_hart>>
        /\ UNCHANGED <<mapped, satp, timer, panic, kernel_at>>
        /\ user_pc' = [user_pc EXCEPT ![p] = pc]
    BY DEF UserStep, SyncSyscall, procs, memory
  <1>4. User(pc) \in Context /\ Stale \in Context /\ frames \in Frames /\ "userspace" \in FrameKinds
    BY <1>2, ContextsAreContexts DEF IInv, TypeOK, Frames, FrameKinds
  <1>5. /\ hart' = User(pc) /\ frames' \in Frames
        /\ \A q \in AllProcess : q # p => frames'[q] = frames[q]
    <2>1. CASE UserStep(p)
      BY <1>2, <1>4, <2>1 DEF UserStep, memory
    <2>2. CASE SyncSyscall(p)
      <3> DEFINE saved == Store(frames, p, "userspace", User(pc))
      <3>1. /\ saved \in Frames /\ saved[p]["userspace"] = User(pc)
            /\ \A q \in AllProcess : q # p => saved[q] = frames[q]
        BY <1>1, <1>4, StoreFrame
      <3>2. hart' = saved[p]["userspace"] /\ frames' = Store(saved, p, "userspace", Stale)
        BY <1>2, <2>2 DEF SyncSyscall, Store
      <3> HIDE DEF saved
      <3>3. /\ frames' \in Frames
            /\ \A q \in AllProcess : q # p => frames'[q] = saved[q]
        BY <1>1, <1>4, <3>1, <3>2, StoreFrame
      <3>4. QED
        BY <3>1, <3>2, <3>3
    <2>3. QED
      BY <2>1, <2>2
  <1>6. TypeOK'
    BY <1>2, <1>3, <1>4, <1>5 DEF IInv, TypeOK, Frames
  <1>7. \A q \in AllProcess : q # satp => Untouched(q)
    BY <1>2, <1>3, <1>5 DEF Untouched, IInv, TypeOK
  <1>8. ProcessOK(p) /\ user_pc'[p] = pc
    BY <1>1, <1>3 DEF IInv, TypeOK
  <1>9. ProcessOK(p)'
    BY <1>2, <1>3, <1>5, <1>8, PointsAreApart
    DEF ProcessOK, HandlerAsFlagged, ContextKept, FrameReady, At
  <1>10. QED
    BY <1>2, <1>3, <1>6, <1>7, <1>9, StaysOnHart

\* A hart in the handler has a process with the trapframe of its level.
LEMMA InHandlerMeans ==
    ASSUME IInv, NEW p \in AllProcess, satp = p, hart.point \in Points
    PROVE  /\ p \in AllProcess /\ kernel_at[p] = hart /\ frames[p]["userspace"] = User(user_pc[p])
           /\ hart.point # "nested_fault" => trap_state[p] = "INTERRUPTABLE_TRAP" /\ mapped[p] = "kernelspace"
           /\ hart.point = "nested_fault" => /\ trap_state[p] = "READ_USERSPACE" /\ mapped[p] = "page_fault"
                                             /\ frames[p]["kernelspace"].point \in CopyPoints
           /\ reading_userspace[p] <=> hart.point \in CopyPoints \union {"nested_fault"}
           /\ hart.point \in Guarded => ~hart.irq
           /\ user_pc[p] \in 0..UserPCs-1
  <1>1. ProcessOK(p) /\ At(p) = hart /\ hart.point # "user"
    BY PointsAreApart DEF IInv, At
  <1>2. user_pc[p] \in 0..UserPCs-1 /\ User(user_pc[p]).point = "user"
    BY ContextsAreContexts DEF IInv, TypeOK
  <1>3. kernel_at[p] = hart /\ frames[p]["userspace"] = User(user_pc[p])
    BY <1>1, <1>2 DEF ProcessOK, ContextKept
  <1>4. trap_state[p] \in {"PROCESS", "INTERRUPTABLE_TRAP", "READ_USERSPACE"}
    BY DEF IInv, TypeOK
  <1>5. QED
    BY <1>1, <1>2, <1>3, <1>4 DEF ProcessOK, HandlerAsFlagged, FrameReady

\* A trap of the program saves the program's context and goes on with the handler.
LEMMA UserTrapKeepsIInv ==
    ASSUME IInv, NEW p \in AllProcess, InUser(p),
           NEW fault \in BOOLEAN, NEW entry \in Syscalls \union {"page_fault"},
           EnterHandler(p, fault, entry)
    PROVE  IInv'
  <1>1. /\ satp = p /\ kernel_at[p].point = "user" /\ trap_state[p] = "PROCESS"
        /\ mapped[p] = "userspace" /\ ~reading_userspace[p] /\ hart = User(user_pc[p])
    BY InUserMeans
  <1> DEFINE new == Kern(entry, TRUE)
  <1>2. /\ frames' = Store(frames, p, "userspace", hart)
        /\ mapped' = [mapped EXCEPT ![p] = "kernelspace"]
        /\ trap_state' = [trap_state EXCEPT ![p] = "INTERRUPTABLE_TRAP"]
        /\ hart' = new
        /\ kernel_at' = [kernel_at EXCEPT ![p] = new]
        /\ UNCHANGED <<ring, process_type, running, reading_userspace, last_hart,
                       satp, timer, panic, user_pc>>
    BY <1>1 DEF EnterHandler, Remap, Store
  <1>3. new \in Context /\ new.point = entry /\ new.irq /\ entry \in Points
    BY PointsAreApart, ContextsAreContexts
  <1> HIDE DEF new
  <1>4. frames \in Frames /\ hart \in Context /\ "userspace" \in FrameKinds /\ "kernelspace" \in FrameKinds
    BY DEF IInv, TypeOK, Frames, FrameKinds
  <1>5. /\ frames' \in Frames /\ frames'[p]["userspace"] = hart
        /\ \A q \in AllProcess : q # p => frames'[q] = frames[q]
    BY <1>2, <1>4, StoreFrame
  <1>6. TypeOK'
    BY <1>2, <1>3, <1>4, <1>5 DEF IInv, TypeOK, Frames
  <1>7. \A q \in AllProcess : q # satp => Untouched(q)
    BY <1>1, <1>2, <1>5 DEF Untouched, IInv, TypeOK
  <1>8. /\ kernel_at'[p] = new /\ trap_state'[p] = "INTERRUPTABLE_TRAP"
        /\ mapped'[p] = "kernelspace" /\ ~reading_userspace'[p] /\ user_pc'[p] = user_pc[p]
    BY <1>1, <1>2 DEF IInv, TypeOK
  <1>9. entry \notin Guarded /\ entry \notin {"user", "nested_fault"} /\ entry \notin CopyPoints
    BY PointsAreApart DEF Guarded
  <1>10. ProcessOK(p)'
    BY <1>1, <1>2, <1>3, <1>5, <1>8, <1>9
    DEF ProcessOK, HandlerAsFlagged, ContextKept, FrameReady, At
  <1>11. QED
    BY <1>1, <1>2, <1>6, <1>7, <1>10, StaysOnHart

\* A page fault inside a copy saves the handler's context besides the program's.
LEMMA CopyFaultKeepsIInv ==
    ASSUME IInv, NEW p \in Process, CopyPageFault(p)
    PROVE  IInv'
  <1> DEFINE new == Kern("nested_fault", TRUE)
  <1>1. /\ p \in AllProcess /\ satp = p /\ hart.point \in CopyPoints /\ hart.point \in Points
        /\ hart.point # "nested_fault"
    BY PointsAreApart DEF CopyPageFault, AllProcess, CopyPoints
  <1>2. /\ kernel_at[p] = hart /\ frames[p]["userspace"] = User(user_pc[p])
        /\ trap_state[p] = "INTERRUPTABLE_TRAP" /\ mapped[p] = "kernelspace" /\ reading_userspace[p]
    BY <1>1, InHandlerMeans
  <1>3. /\ frames' = Store(frames, p, "kernelspace", hart)
        /\ mapped' = [mapped EXCEPT ![p] = "page_fault"]
        /\ trap_state' = [trap_state EXCEPT ![p] = "READ_USERSPACE"]
        /\ hart' = new
        /\ kernel_at' = [kernel_at EXCEPT ![p] = new]
        /\ UNCHANGED <<ring, process_type, running, reading_userspace, last_hart,
                       satp, timer, panic, user_pc>>
    BY <1>1, <1>2 DEF CopyPageFault, EnterHandler, Remap, Store
  <1>4. new \in Context /\ new.point = "nested_fault" /\ "nested_fault" \in Points
    BY PointsAreApart, ContextsAreContexts
  <1> HIDE DEF new
  <1>5. frames \in Frames /\ hart \in Context /\ FrameKinds = {"userspace", "kernelspace", "page_fault"}
    BY DEF IInv, TypeOK, Frames, FrameKinds
  <1>6. /\ frames' \in Frames /\ frames'[p]["kernelspace"] = hart
        /\ frames'[p]["userspace"] = frames[p]["userspace"]
        /\ \A q \in AllProcess : q # p => frames'[q] = frames[q]
    BY <1>1, <1>3, <1>5, StoreFrame
  <1>7. TypeOK'
    BY <1>1, <1>3, <1>4, <1>5, <1>6 DEF IInv, TypeOK, Frames
  <1>8. \A q \in AllProcess : q # satp => Untouched(q)
    BY <1>1, <1>3, <1>6 DEF Untouched, IInv, TypeOK
  <1>9. /\ kernel_at'[p] = new /\ trap_state'[p] = "READ_USERSPACE"
        /\ mapped'[p] = "page_fault" /\ reading_userspace'[p] /\ user_pc'[p] = user_pc[p]
    BY <1>1, <1>2, <1>3 DEF IInv, TypeOK
  <1>10. ProcessOK(p)'
    BY <1>1, <1>2, <1>3, <1>4, <1>6, <1>9, PointsAreApart
    DEF ProcessOK, HandlerAsFlagged, ContextKept, FrameReady, At
  <1>11. QED
    BY <1>1, <1>3, <1>7, <1>8, <1>10, StaysOnHart

\* A step of the handler follows an edge of the flow.
LEMMA KernelStepKeepsIInv ==
    ASSUME IInv, NEW p \in Process, NEW edge \in Flow, KernelStep(p, edge)
    PROVE  IInv'
  <1> DEFINE irq == IF edge[3] = "keep" THEN hart.irq ELSE edge[3] = "on"
             new == Kern(edge[2], irq)
  <1>1. /\ edge[1] \in Points \ {"nested_fault", "user", "stale"}
        /\ edge[2] \in Points \ {"nested_fault", "user", "stale"}
        /\ edge[2] \in Guarded => edge[3] = "off"
    BY FlowIsGuarded
  <1>2. p \in AllProcess /\ satp = p /\ hart.point = edge[1] /\ hart.irq \in BOOLEAN
    BY DEF KernelStep, InHandler, AllProcess, IInv, TypeOK, Context
  <1>3. /\ frames[p]["userspace"] = User(user_pc[p])
        /\ trap_state[p] = "INTERRUPTABLE_TRAP" /\ mapped[p] = "kernelspace"
    BY <1>1, <1>2, InHandlerMeans
  <1>4. irq \in BOOLEAN /\ (edge[3] = "off" => ~irq)
    BY <1>2
  <1>5. /\ hart' = new
        /\ reading_userspace' = [reading_userspace EXCEPT ![p] = edge[2] \in CopyPoints]
        /\ kernel_at' = [kernel_at EXCEPT ![p] = new]
        /\ UNCHANGED <<ring, process_type, running, trap_state, last_hart, mapped, frames,
                       satp, timer, panic, user_pc>>
    BY DEF KernelStep, memory
  <1> HIDE DEF irq
  <1>6. new \in Context /\ new.point = edge[2] /\ (new.irq <=> irq)
    BY <1>1, <1>4, ContextsAreContexts
  <1> HIDE DEF new
  <1>7. TypeOK'
    BY <1>2, <1>5, <1>6 DEF IInv, TypeOK
  <1>8. \A q \in AllProcess : q # satp => Untouched(q)
    BY <1>2, <1>5 DEF Untouched, IInv, TypeOK
  <1>9. kernel_at'[p] = new /\ (reading_userspace'[p] <=> edge[2] \in CopyPoints)
    BY <1>2, <1>5 DEF IInv, TypeOK
  <1>10. ProcessOK(p)'
    BY <1>1, <1>2, <1>3, <1>4, <1>5, <1>6, <1>9
    DEF ProcessOK, HandlerAsFlagged, ContextKept, FrameReady, At
  <1>11. QED
    BY <1>2, <1>5, <1>7, <1>8, <1>10, StaysOnHart

\* The return from the handler goes on after the instruction that trapped.
LEMMA AsyncReturnKeepsIInv ==
    ASSUME IInv, NEW p \in Process, AsyncReturn(p)
    PROVE  IInv'
  <1> DEFINE pc == Skip(user_pc[p])
  <1>1. p \in AllProcess /\ satp = p /\ hart.point = "exit" /\ "exit" \in Points
    BY PointsAreApart DEF AsyncReturn, InHandler, AllProcess
  <1>2. /\ frames[p]["userspace"] = User(user_pc[p]) /\ user_pc[p] \in 0..UserPCs-1
        /\ ~reading_userspace[p]
    BY <1>1, InHandlerMeans DEF CopyPoints
  <1>3. /\ frames[p]["userspace"].pc = user_pc[p]
        /\ pc \in 0..UserPCs-1 /\ User(pc) \in Context /\ Stale \in Context
        /\ User(0) \in Context /\ User(0).point = "user" /\ User(pc).point = "user"
    BY <1>2, ContextsAreContexts, UserPCsAssumption
  <1>4. /\ hart' = User(pc)
        /\ frames' = Store(frames, p, "userspace", Stale)
        /\ mapped' = [mapped EXCEPT ![p] = "userspace"]
        /\ trap_state' = [trap_state EXCEPT ![p] = "PROCESS"]
        /\ user_pc' = [user_pc EXCEPT ![p] = pc]
        /\ kernel_at' = [kernel_at EXCEPT ![p] = User(0)]
        /\ UNCHANGED <<ring, process_type, running, reading_userspace, last_hart, satp,
                       timer, panic>>
    BY <1>3 DEF AsyncReturn, Remap, Store
  <1> HIDE DEF pc
  <1>5. frames \in Frames /\ FrameKinds = {"userspace", "kernelspace", "page_fault"}
    BY DEF IInv, TypeOK, Frames, FrameKinds
  <1>6. frames' \in Frames /\ \A q \in AllProcess : q # p => frames'[q] = frames[q]
    BY <1>1, <1>3, <1>4, <1>5, StoreFrame
  <1>7. TypeOK'
    BY <1>1, <1>3, <1>4, <1>5, <1>6 DEF IInv, TypeOK, Frames
  <1>8. \A q \in AllProcess : q # satp => Untouched(q)
    BY <1>1, <1>4, <1>6 DEF Untouched, IInv, TypeOK
  <1>9. /\ kernel_at'[p] = User(0) /\ trap_state'[p] = "PROCESS" /\ mapped'[p] = "userspace"
        /\ ~reading_userspace'[p] /\ user_pc'[p] = pc
    BY <1>1, <1>2, <1>4 DEF IInv, TypeOK
  <1>10. "user" \notin Guarded /\ "user" \notin CopyPoints
    BY DEF Guarded, SharedPoints, CopyPoints
  <1>11. ProcessOK(p)'
    BY <1>1, <1>3, <1>4, <1>9, <1>10
    DEF ProcessOK, HandlerAsFlagged, ContextKept, FrameReady, At
  <1>12. QED
    BY <1>1, <1>4, <1>7, <1>8, <1>11, StaysOnHart

\* The return from a fault inside a copy goes on behind the copy.
LEMMA NestedReturnKeepsIInv ==
    ASSUME IInv, NEW p \in Process, NestedReturn(p)
    PROVE  IInv'
  <1>1. /\ p \in AllProcess /\ satp = p /\ hart.point = "nested_fault"
        /\ "nested_fault" \in Points
    BY PointsAreApart DEF NestedReturn, InHandler, AllProcess
  <1>2. /\ frames[p]["userspace"] = User(user_pc[p])
        /\ frames[p]["kernelspace"].point \in CopyPoints
    BY <1>1, InHandlerMeans
  <1>3. CASE Halt("STACK_OVERWRITTEN")
    BY <1>3, HaltKeepsIInv
  <1>4. ASSUME NEW edge \in Flow,
               /\ edge[1] = frames[p]["kernelspace"].point
               /\ Remap(p, "kernelspace", "INTERRUPTABLE_TRAP", Kern(edge[2], TRUE))
               /\ reading_userspace' = [reading_userspace EXCEPT ![p] = FALSE]
               /\ kernel_at' = [kernel_at EXCEPT ![p] = hart']
               /\ frames' = [frames EXCEPT ![p]["kernelspace"] = Stale]
               /\ UNCHANGED <<ring, process_type, running, last_hart, satp, timer, panic, user_pc>>
        PROVE  IInv'
    <2> DEFINE new == Kern(edge[2], TRUE)
    <2>1. edge[2] \in Points \ {"nested_fault", "user", "stale"} /\ edge[2] \notin Guarded
      BY <1>2, <1>4, FlowIsGuarded
    <2>2. new \in Context /\ new.point = edge[2]
      BY <2>1, ContextsAreContexts
    <2>3. /\ hart' = new
          /\ frames' = Store(frames, p, "kernelspace", Stale)
          /\ mapped' = [mapped EXCEPT ![p] = "kernelspace"]
          /\ trap_state' = [trap_state EXCEPT ![p] = "INTERRUPTABLE_TRAP"]
          /\ reading_userspace' = [reading_userspace EXCEPT ![p] = FALSE]
          /\ kernel_at' = [kernel_at EXCEPT ![p] = new]
          /\ UNCHANGED <<ring, process_type, running, last_hart, satp, timer, panic, user_pc>>
      BY <1>4 DEF Remap, Store
    <2> HIDE DEF new
    <2>4. frames \in Frames /\ FrameKinds = {"userspace", "kernelspace", "page_fault"} /\ Stale \in Context
      BY ContextsAreContexts DEF IInv, TypeOK, Frames, FrameKinds
    <2>5. /\ frames' \in Frames /\ frames'[p]["userspace"] = frames[p]["userspace"]
          /\ \A q \in AllProcess : q # p => frames'[q] = frames[q]
      BY <1>1, <2>3, <2>4, StoreFrame
    <2>6. TypeOK'
      BY <1>1, <2>2, <2>3, <2>4, <2>5 DEF IInv, TypeOK, Frames
    <2>7. \A q \in AllProcess : q # satp => Untouched(q)
      BY <1>1, <2>3, <2>5 DEF Untouched, IInv, TypeOK
    <2>8. /\ kernel_at'[p] = new /\ trap_state'[p] = "INTERRUPTABLE_TRAP" /\ mapped'[p] = "kernelspace"
          /\ ~reading_userspace'[p] /\ user_pc'[p] = user_pc[p]
      BY <1>1, <2>3 DEF IInv, TypeOK
    <2>9. edge[2] \notin CopyPoints
      BY <2>1 DEF Guarded
    <2>10. ProcessOK(p)'
      BY <1>1, <1>2, <2>1, <2>2, <2>3, <2>5, <2>8, <2>9
      DEF ProcessOK, HandlerAsFlagged, ContextKept, FrameReady, At
    <2>11. QED
      BY <1>1, <2>3, <2>6, <2>7, <2>10, StaysOnHart
  <1>5. QED
    BY <1>3, <1>4 DEF NestedReturn

-----------------------------------------------------------------------------
(* Steps that change the process *)

Queued == IF Requeues(satp) THEN Queue(ring, satp) ELSE ring

\* The process on the hart has a place in the ring, and what trap_change_process
\* leaves in the ring is every process but the one it picked (handler.c:31-41).
LEMMA ChangeKeepsRing ==
    ASSUME IInv, process_type[satp] # "DEAD" \/ NextProcess(Queued) = satp
    PROVE  /\ Requeues(satp) => ~RingFull(ring)
           /\ satp # Idle => process_type[satp] = "NORMAL"
           /\ NextProcess(Queued) \in Made \union {Idle}
           /\ NextRing(Queued) \in Rings
           /\ HoldsExactly(NextRing(Queued), Made \ {NextProcess(Queued)})
           /\ NextProcess(Queued) # Idle => NextRing(Queued).count < process_queue_size
  <1> DEFINE next == NextProcess(Queued)
             S == Made \ {satp}
  <1>1. /\ ring \in Rings /\ HoldsExactly(ring, S) /\ Made \subseteq Process
        /\ satp \in Made \union {Idle} /\ process_type[Idle] = "IDLE" /\ Idle \notin Process
    BY RingAssumption DEF IInv, TypeOK, WaitingOrOnHart, KindsAndRoom, Made
  <1>2. \A p \in Made : process_type[p] \in {"NORMAL", "DEAD"}
    BY DEF IInv, TypeOK, KindsAndRoom, Made, AllProcess
  <1>3. Requeues(satp) => satp \in Process /\ satp \in Made /\ ~RingFull(ring)
    BY <1>1, RingAssumption DEF Requeues, IInv, KindsAndRoom, RingFull
  <1> DEFINE held == IF Requeues(satp) THEN Made ELSE S
  <1>4. Queued \in Rings /\ HoldsExactly(Queued, held)
    <2>1. CASE Requeues(satp)
      <3>1. satp \notin S /\ S \union {satp} = Made
        BY <1>3, <2>1
      <3>2. Queue(ring, satp) \in Rings /\ HoldsExactly(Queue(ring, satp), S \union {satp})
        BY <1>1, <1>3, <2>1, <3>1, QueueHolds
      <3>3. QED
        BY <2>1, <3>1, <3>2 DEF Queued
    <2>2. CASE ~Requeues(satp)
      BY <1>1, <2>2 DEF Queued
    <2>3. QED
      BY <2>1, <2>2
  <1>5. Queued.count \in 0..process_queue_size
    BY <1>4 DEF Rings
  <1>6. /\ next \in held \union {Idle}
        /\ NextRing(Queued) \in Rings /\ HoldsExactly(NextRing(Queued), held \ {next})
        /\ next # Idle => NextRing(Queued).count < process_queue_size
    <2>1. CASE Queued.count = 0
      <3>1. next = Idle /\ NextRing(Queued) = Queued /\ Idle \notin held
        BY <1>1, <2>1 DEF NextProcess, NextRing
      <3>2. held \ {next} = held
        BY <3>1
      <3>3. QED
        BY <1>4, <3>1, <3>2
    <2>2. CASE Queued.count # 0
      <3>1. /\ NextRing(Queued) \in Rings /\ NextRing(Queued).count = Queued.count - 1
            /\ next \in held /\ HoldsExactly(NextRing(Queued), held \ {next})
        BY <1>4, <2>2, NextHolds
      <3>2. QED
        BY <1>5, <3>1, RingAssumption
    <2>3. QED
      BY <2>1, <2>2
  <1>7. process_type[satp] # "DEAD"
    <2>1. SUFFICES ASSUME process_type[satp] = "DEAD" PROVE FALSE
      OBVIOUS
    <2>2. next = satp /\ ~Requeues(satp) /\ satp # Idle
      BY <1>1, <2>1 DEF Requeues
    <2>3. QED
      BY <1>6, <2>2
  <1>8. satp # Idle => process_type[satp] = "NORMAL" /\ Requeues(satp)
    BY <1>1, <1>2, <1>7 DEF Requeues
  <1>9. held = Made
    BY <1>1, <1>8
  <1>10. QED
    BY <1>3, <1>6, <1>8, <1>9

\* A process is untouched by a change of process if it goes on with the same context.
LEMMA ContextCarriedOver ==
    ASSUME NEW q \in AllProcess, ProcessOK(q), At(q)' = At(q),
           UNCHANGED <<mapped, trap_state, reading_userspace, kernel_at, user_pc>>,
           kernel_at[q].point # "nested_fault",
           kernel_at[q].point # "user" => frames'[q]["userspace"] = frames[q]["userspace"],
           q # satp' => At(q).irq
    PROVE  ProcessOK(q)'
  BY DEF ProcessOK, HandlerAsFlagged, ContextKept, FrameReady

\* The trapframes after a change of the process to next: the context on the hart is
\* stored in one, the context of next is taken from one.
LEMMA FramesAfterChange ==
    ASSUME IInv, NEW next \in AllProcess, hart.irq, mapped[satp] # "page_fault",
           NEW saved, saved = Store(frames, satp, mapped[satp], hart),
           satp' = next,
           hart' = saved[next][mapped[next]],
           frames' = Store(saved, next, mapped[next], Stale),
           UNCHANGED <<mapped, trap_state, reading_userspace, kernel_at, user_pc>>
    PROVE  /\ frames' \in Frames /\ hart' \in Context
           /\ \A q \in AllProcess : ProcessOK(q)'
  <1>1. /\ frames \in Frames /\ hart \in Context /\ satp \in AllProcess /\ Stale \in Context
        /\ mapped[satp] \in FrameKinds /\ mapped[next] \in FrameKinds
    BY ContextsAreContexts DEF IInv, TypeOK, Frames
  <1>2. /\ saved \in Frames /\ saved[satp][mapped[satp]] = hart
        /\ \A kind \in FrameKinds : kind # mapped[satp] => saved[satp][kind] = frames[satp][kind]
        /\ \A q \in AllProcess : q # satp => saved[q] = frames[q]
    BY <1>1 DEF Frames, Store
  <1>3. /\ frames' \in Frames
        /\ \A kind \in FrameKinds : kind # mapped[next] => frames'[next][kind] = saved[next][kind]
        /\ \A q \in AllProcess : q # next => frames'[q] = saved[q]
    BY <1>1, <1>2 DEF Frames, Store
  <1>4. hart' \in Context
    BY <1>1, <1>2 DEF Frames
  <1>5. ASSUME NEW q \in AllProcess PROVE ProcessOK(q)'
    <2>1. ProcessOK(q) /\ trap_state[q] \in {"PROCESS", "INTERRUPTABLE_TRAP", "READ_USERSPACE"}
      BY DEF IInv, TypeOK
    <2>2. kernel_at[q].point # "nested_fault"
      BY <2>1 DEF ProcessOK, HandlerAsFlagged, FrameReady
    <2>3. kernel_at[q].point # "user" => mapped[q] = "kernelspace"
      BY <2>1, <2>2 DEF ProcessOK, HandlerAsFlagged, FrameReady
    <2>4. At(q)' = At(q)
      BY <1>2, <1>3 DEF At
    <2>5. kernel_at[q].point # "user" => frames'[q]["userspace"] = frames[q]["userspace"]
      BY <1>2, <1>3, <2>3 DEF FrameKinds
    <2>6. At(q).irq
      BY <2>1 DEF At, ProcessOK, HandlerAsFlagged
    <2>7. QED
      BY <2>1, <2>2, <2>4, <2>5, <2>6, ContextCarriedOver
  <1>6. QED
    BY <1>3, <1>4, <1>5

\* A timer interrupt puts the process on the hart at the end of the ring and goes on
\* with the one at its head (handle_sync_trap, trap_change_process).
LEMMA TimerTrapKeepsIInv ==
    ASSUME IInv, TimerTrap
    PROVE  IInv'
  <1> DEFINE next == NextProcess(Queued)
             saved == Store(frames, satp, mapped[satp], hart)
  <1>1. hart.irq /\ satp \in AllProcess
    BY DEF TimerTrap, IInv, TypeOK
  <1>2. CASE process_ptr(satp, mapped[satp]) = NULL
    BY <1>2, HaltKeepsIInv DEF TimerTrap
  <1>3. CASE process_ptr(satp, mapped[satp]) # NULL
    <2>1. mapped[satp] # "page_fault" /\ trap_change_process(saved)
      BY <1>3 DEF TimerTrap, process_ptr, Store
    <2>2. Requeues(satp) => ~RingFull(ring)
      BY RingAssumption DEF Requeues, RingFull, IInv, KindsAndRoom
    <2>3. CASE next # satp /\ process_type[satp] = "DEAD"
      BY <2>1, <2>2, <2>3, HaltKeepsIInv DEF trap_change_process, Queued
    <2>4. CASE Halt("UNSET_HART_ID")
      BY <2>4, HaltKeepsIInv
    <2>5. CASE ~(next # satp /\ process_type[satp] = "DEAD") /\ ~Halt("UNSET_HART_ID")
      <3>1. /\ satp # Idle => process_type[satp] = "NORMAL"
            /\ next \in Made \union {Idle}
            /\ NextRing(Queued) \in Rings
            /\ HoldsExactly(NextRing(Queued), Made \ {next})
            /\ next # Idle => NextRing(Queued).count < process_queue_size
        BY <2>5, ChangeKeepsRing
      <3>2. next \in AllProcess
        BY <3>1 DEF Made, AllProcess
      <3>3. /\ ring' = NextRing(Queued) /\ timer' = "armed"
            /\ IF next = satp
                 THEN /\ hart' = saved[satp][mapped[satp]]
                      /\ frames' = Store(saved, satp, mapped[satp], Stale)
                      /\ UNCHANGED <<satp, running, last_hart>>
                 ELSE SwitchTo(next, saved)
            /\ UNCHANGED <<process_type, trap_state, reading_userspace, mapped, panic,
                           user_pc, kernel_at>>
        BY <2>1, <2>2, <2>5 DEF trap_change_process, ChangeTo, Queued, Store, history
      <3>4. /\ satp' = next
            /\ hart' = saved[next][mapped[next]]
            /\ frames' = Store(saved, next, mapped[next], Stale)
        BY <3>3 DEF SwitchTo, Store
      <3>5. /\ running' \in [AllProcess -> BOOLEAN]
            /\ \A q \in Process : running'[q] <=> q = next
            /\ last_hart' \in [AllProcess -> {"U64_MAX", "HART"}]
        <4>1. CASE next = satp
          BY <3>3, <4>1 DEF IInv, TypeOK, RunningIsOnHart
        <4>2. CASE next # satp
          <5>1. /\ last_hart' = [last_hart EXCEPT ![next] = "HART"]
                /\ running' = [running EXCEPT ![next] = TRUE,
                                              ![satp] = process_type[satp] # "NORMAL" /\ @]
            BY <3>3, <4>2 DEF SwitchTo
          <5>2. running \in [AllProcess -> BOOLEAN] /\ last_hart \in [AllProcess -> {"U64_MAX", "HART"}]
            BY DEF IInv, TypeOK
          <5>3. running' \in [AllProcess -> BOOLEAN]
            BY <1>1, <3>2, <5>1, <5>2
          <5>4. ASSUME NEW q \in Process PROVE running'[q] <=> q = next
            <6>1. q \in AllProcess /\ q # Idle /\ (running[q] <=> q = satp)
              BY RingAssumption DEF AllProcess, IInv, RunningIsOnHart
            <6>2. QED
              BY <1>1, <3>1, <3>2, <4>2, <5>1, <5>2, <6>1
          <5>5. QED
            BY <3>2, <5>1, <5>2, <5>3, <5>4
        <4>3. QED
          BY <4>1, <4>2
      <3>6. frames' \in Frames /\ hart' \in Context /\ \A q \in AllProcess : ProcessOK(q)'
        BY <1>1, <2>1, <3>2, <3>3, <3>4, FramesAfterChange
      <3>7. TypeOK'
        BY <3>1, <3>2, <3>3, <3>4, <3>5, <3>6 DEF IInv, TypeOK, Frames
      <3>8. Made' = Made
        BY <3>3 DEF Made
      <3>9. KindsAndRoom'
        BY <3>1, <3>3, <3>4, <3>8 DEF IInv, KindsAndRoom
      <3>10. WaitingOrOnHart' /\ RunningIsOnHart' /\ NoInternalPanic'
        BY <3>1, <3>3, <3>4, <3>5, <3>8 DEF IInv, WaitingOrOnHart, RunningIsOnHart, NoInternalPanic
      <3>11. QED
        BY <3>4, <3>5, <3>6, <3>7, <3>9, <3>10 DEF IInv
    <2>6. QED
      BY <2>3, <2>4, <2>5
  <1>4. QED
    BY <1>2, <1>3

\* Killing a process: it is picked again as the only one there is, and marked dead.
LEMMA AsyncKillKeepsIInv ==
    ASSUME IInv, NEW p \in Process, NEW point \in {"bad", "page_fault"}, AsyncKill(p, point)
    PROVE  IInv'
  <1> DEFINE pc == IF point = "bad" THEN Skip(user_pc[p]) ELSE user_pc[p]
  <1>1. /\ p \in AllProcess /\ satp = p /\ hart.point = point
        /\ point \in Points \ {"nested_fault"} /\ InHandler(p, point) /\ p # Idle
    BY PointsAreApart, RingAssumption DEF AsyncKill, InHandler, AllProcess
  <1>2. /\ frames[p]["userspace"] = User(user_pc[p]) /\ ~reading_userspace[p]
        /\ user_pc[p] \in 0..UserPCs-1
    BY <1>1, InHandlerMeans DEF CopyPoints
  <1>3. Requeues(p) => ~RingFull(ring)
    BY <1>1, RingAssumption DEF Requeues, RingFull, IInv, KindsAndRoom
  <1>4. CASE NextProcess(Queued) # p
    BY <1>1, <1>3, <1>4, HaltKeepsIInv DEF AsyncKill, Queued
  <1>5. CASE NextProcess(Queued) = p /\ ~running[p]
    BY <1>1, <1>3, <1>5, HaltKeepsIInv DEF AsyncKill, Queued
  <1>6. CASE NextProcess(Queued) = p /\ running[p]
    <2>1. /\ frames[p]["userspace"].pc = user_pc[p]
          /\ pc \in 0..UserPCs-1 /\ User(pc) \in Context /\ Stale \in Context
          /\ User(0) \in Context /\ User(0).point = "user" /\ User(pc).point = "user"
      BY <1>2, ContextsAreContexts, UserPCsAssumption
    <2>2. /\ hart' = User(pc)
          /\ ring' = NextRing(Queued) /\ timer' = "armed"
          /\ process_type' = [process_type EXCEPT ![p] = "DEAD"]
          /\ frames' = Store(frames, p, "userspace", Stale)
          /\ mapped' = [mapped EXCEPT ![p] = "userspace"]
          /\ trap_state' = [trap_state EXCEPT ![p] = "PROCESS"]
          /\ user_pc' = [user_pc EXCEPT ![p] = pc]
          /\ kernel_at' = [kernel_at EXCEPT ![p] = User(0)]
          /\ UNCHANGED <<running, reading_userspace, last_hart, satp, panic>>
      BY <1>1, <1>3, <1>6, <2>1 DEF AsyncKill, Queued, Remap, Store
    <2> HIDE DEF pc
    <2>3. /\ process_type[p] = "NORMAL" /\ NextRing(Queued) \in Rings
          /\ HoldsExactly(NextRing(Queued), Made \ {p})
          /\ NextRing(Queued).count < process_queue_size
      BY <1>1, <1>6, ChangeKeepsRing
    <2>4. frames \in Frames /\ FrameKinds = {"userspace", "kernelspace", "page_fault"}
      BY DEF IInv, TypeOK, Frames, FrameKinds
    <2>5. frames' \in Frames /\ \A q \in AllProcess : q # p => frames'[q] = frames[q]
      BY <1>1, <2>1, <2>2, <2>4, StoreFrame
    <2>6. TypeOK'
      BY <1>1, <2>1, <2>2, <2>3, <2>4, <2>5 DEF IInv, TypeOK, Frames
    <2>7. \A q \in AllProcess : q # satp => Untouched(q)
      BY <1>1, <2>2, <2>5 DEF Untouched, IInv, TypeOK
    <2>8. /\ kernel_at'[p] = User(0) /\ trap_state'[p] = "PROCESS" /\ mapped'[p] = "userspace"
          /\ ~reading_userspace'[p] /\ user_pc'[p] = pc
      BY <1>1, <1>2, <2>2 DEF IInv, TypeOK
    <2>9. "user" \notin Guarded /\ "user" \notin CopyPoints
      BY DEF Guarded, SharedPoints, CopyPoints
    <2>10. ProcessOK(p)'
      BY <1>1, <2>1, <2>2, <2>8, <2>9
      DEF ProcessOK, HandlerAsFlagged, ContextKept, FrameReady, At
    <2>11. \A q \in AllProcess : ProcessOK(q)'
      BY <1>1, <2>2, <2>7, <2>10, OthersKept DEF IInv
    <2>12. Made' = Made
      BY <1>1, <2>2, <2>3 DEF Made, IInv, TypeOK, AllProcess
    <2>13. KindsAndRoom'
      BY <1>1, <2>2, <2>3, <2>12 DEF IInv, TypeOK, KindsAndRoom, AllProcess
    <2>14. WaitingOrOnHart' /\ RunningIsOnHart' /\ NoInternalPanic'
      BY <1>1, <2>2, <2>3, <2>12 DEF IInv, WaitingOrOnHart, RunningIsOnHart, NoInternalPanic
    <2>15. QED
      BY <2>2, <2>6, <2>11, <2>13, <2>14 DEF IInv
  <1>7. QED
    BY <1>4, <1>5, <1>6

-----------------------------------------------------------------------------
(* The invariant holds *)

LEMMA InitIInv ==
    ASSUME Init
    PROVE  IInv
  <1>1. /\ Idle \in AllProcess /\ Idle \notin Process /\ Process \subseteq AllProcess
        /\ User(0) \in Context /\ Stale \in Context /\ User(0).point = "user" /\ User(0).irq
        /\ 0 \in 0..UserPCs-1
    BY ContextsAreContexts, UserPCsAssumption, RingAssumption DEF AllProcess
  <1>2. TypeOK
    BY <1>1 DEF Init, TypeOK, FrameKinds, Halts
  <1>3. KindsAndRoom /\ RunningIsOnHart /\ NoInternalPanic
    BY <1>1 DEF Init, KindsAndRoom, RunningIsOnHart, NoInternalPanic
  <1>4. WaitingOrOnHart
    <2>1. Made \ {satp} = Made
      BY <1>1 DEF Init, Made
    <2>2. QED
      BY <2>1 DEF Init, WaitingOrOnHart
  <1>5. "user" \notin Guarded /\ "user" \notin CopyPoints
    BY DEF Guarded, SharedPoints, CopyPoints
  <1>6. ASSUME NEW p \in AllProcess PROVE ProcessOK(p)
    <2>1. At(p) = User(0)
      BY DEF Init, At, FrameKinds
    <2>2. /\ kernel_at[p] = User(0) /\ user_pc[p] = 0 /\ trap_state[p] = "PROCESS"
          /\ ~reading_userspace[p] /\ mapped[p] = "userspace"
      BY DEF Init
    <2>3. QED
      BY <1>1, <1>5, <2>1, <2>2 DEF ProcessOK, HandlerAsFlagged, ContextKept, FrameReady
  <1>7. QED
    BY <1>2, <1>3, <1>4, <1>6 DEF IInv

LEMMA IdleKeepsIInv ==
    ASSUME IInv, Tick \/ UNCHANGED vars
    PROVE  IInv'
  <1>1. /\ UNCHANGED <<ring, process_type, running, trap_state, reading_userspace, last_hart>>
        /\ UNCHANGED <<mapped, frames, satp, hart, panic, user_pc, kernel_at>>
        /\ timer' \in {"armed", "pending"}
    BY DEF IInv, TypeOK, Tick, vars, procs, memory, history
  <1>2. TypeOK'
    BY <1>1 DEF IInv, TypeOK
  <1>3. \A q \in AllProcess : ProcessOK(q)'
    BY <1>1 DEF IInv, ProcessOK, HandlerAsFlagged, ContextKept, FrameReady, At
  <1>4. KindsAndRoom' /\ NoInternalPanic'
    BY <1>1 DEF IInv, KindsAndRoom, Made, NoInternalPanic
  <1>5. WaitingOrOnHart' /\ RunningIsOnHart'
    BY <1>1 DEF IInv, WaitingOrOnHart, RunningIsOnHart, Made
  <1>6. QED
    BY <1>2, <1>3, <1>4, <1>5 DEF IInv

LEMMA NextKeepsIInv ==
    ASSUME IInv, [Next]_vars
    PROVE  IInv'
  <1>1. ASSUME NEW p \in Process, ProcessStep(p) PROVE IInv'
    <2>1. p \in AllProcess
      BY DEF AllProcess
    <2>2. CASE UserStep(p) \/ SyncSyscall(p)
      BY <2>1, <2>2, UserStepKeepsIInv
    <2>3. CASE UserFault(p)
      BY <2>3, HaltKeepsIInv DEF UserFault
    <2>4. CASE UserPageFault(p)
      BY <2>1, <2>4, UserTrapKeepsIInv DEF UserPageFault
    <2>5. ASSUME NEW call \in Syscalls, AsyncSyscall(p, call) PROVE IInv'
      BY <2>1, <2>5, UserTrapKeepsIInv DEF AsyncSyscall
    <2>6. QED
      BY <1>1, <2>2, <2>3, <2>4, <2>5 DEF ProcessStep
  <1>2. ASSUME NEW p \in Process, HandlerStep(p) PROVE IInv'
    BY <1>2, KernelStepKeepsIInv, AsyncReturnKeepsIInv, AsyncKillKeepsIInv, NestedReturnKeepsIInv
    DEF HandlerStep
  <1>3. CASE AsyncSyscall(Idle, "idle_hang")
    <2>1. Idle \in AllProcess /\ "idle_hang" \in Syscalls
      BY DEF AllProcess, Syscalls
    <2>2. QED
      BY <1>3, <2>1, UserTrapKeepsIInv DEF AsyncSyscall
  <1>4. QED
    BY <1>1, <1>2, <1>3, CopyFaultKeepsIInv, TimerTrapKeepsIInv, IdleKeepsIInv
    DEF Next, freeze_system

LEMMA InvariantHolds == Spec => []IInv
  BY InitIInv, NextKeepsIInv, PTL DEF Spec

-----------------------------------------------------------------------------
(* The theorems *)

\* However many processes there are and however traps, faults and timer interrupts
\* interleave, a process goes on exactly where it was stopped, in its program and in
\* its handler (trap.S, context.c:17-44, process_handler.c:79-110).
THEOREM ContextsArePreserved == Spec => []ContextsPreserved
  <1>1. IInv => ContextsPreserved
    BY DEF IInv, ProcessOK, ContextKept, ContextsPreserved
  <1>2. QED
    BY <1>1, InvariantHolds, PTL

\* The trapframe mapped in every page table is the one for the process's trap level, so
\* that a trap never stores over a context that is still needed
\* (process_handler.c:24-47).
THEOREM TrapEntryIsReady == Spec => []TrapEntryReady
  <1>1. ASSUME IInv PROVE TrapEntryReady
    <2>1. ASSUME NEW p \in AllProcess
          PROVE  mapped[p] = CASE trap_state[p] = "PROCESS" -> "userspace"
                               [] trap_state[p] = "INTERRUPTABLE_TRAP" -> "kernelspace"
                               [] trap_state[p] = "READ_USERSPACE" -> "page_fault"
      <3>1. /\ trap_state[p] \in {"PROCESS", "INTERRUPTABLE_TRAP", "READ_USERSPACE"}
            /\ FrameReady(p)
        BY <1>1 DEF IInv, TypeOK, ProcessOK
      <3>2. QED
        BY <3>1 DEF FrameReady
    <2>2. QED
      BY <1>1, <2>1 DEF IInv, TrapEntryReady
  <1>2. QED
    BY <1>1, InvariantHolds, PTL

\* No process is lost and none is queued twice, for any size of the run queue: every
\* process but the one on the hart is in the ring exactly once (handler.c:31-41,
\* scheduler.c).
THEOREM ProcessesWaitOnce == Spec => []WaitingOrOnHart
  <1>1. IInv => WaitingOrOnHart
    BY DEF IInv
  <1>2. QED
    BY <1>1, InvariantHolds, PTL

\* The running flag kill_process and context_change_process trust is that of the
\* process on the hart (context.c:26-34, process.c:126).
THEOREM RunningFlagIsRight == Spec => []RunningIsOnHart
  <1>1. IInv => RunningIsOnHart
    BY DEF IInv
  <1>2. QED
    BY <1>1, InvariantHolds, PTL

\* irq_disable covers every change of the pager, the allocator and the file system and
\* every copy from user memory: no process loses the hart inside of one
\* (syscall/file_system/handler.c, user_accses.c).
THEOREM SectionsAreExclusive == Spec => []SharedStructuresExclusive
  <1>1. ASSUME IInv PROVE SharedStructuresExclusive
    <2>1. ASSUME NEW p \in AllProcess \ {satp}
          PROVE  /\ At(p).point \notin SharedPoints \union CopyPoints
                 /\ reading_userspace[p] => At(p).point = "nested_fault"
      <3>1. HandlerAsFlagged(p) /\ ContextKept(p) /\ At(p).irq /\ user_pc[p] \in 0..UserPCs-1
        BY <1>1, <2>1 DEF IInv, ProcessOK, HandlerAsFlagged, TypeOK
      <3>2. At(p).point = kernel_at[p].point
        BY <3>1, ContextsAreContexts DEF ContextKept
      <3>3. kernel_at[p].point \notin Guarded
        <4>1. CASE kernel_at[p].point = "user"
          BY <4>1, PointsAreApart
        <4>2. CASE kernel_at[p].point # "user"
          BY <3>1, <4>2 DEF ContextKept, HandlerAsFlagged
        <4>3. QED
          BY <4>1, <4>2
      <3>4. QED
        BY <3>1, <3>2, <3>3 DEF HandlerAsFlagged, Guarded
    <2>2. QED
      BY <2>1 DEF SharedStructuresExclusive
  <1>2. QED
    BY <1>1, InvariantHolds, PTL

\* The panics that guard the kernel against itself never fire: a run queue that had room
\* for the processes at boot is never full, no page fault comes from the kernel outside
\* of a copy, no trap but a page fault comes from the handler (scheduler.c:38-40,
\* process_handler.c:24-47).
THEOREM ChecksNeverFire == Spec => []NoInternalPanic
  <1>1. IInv => NoInternalPanic
    BY DEF IInv
  <1>2. QED
    BY <1>1, InvariantHolds, PTL
=============================================================================
