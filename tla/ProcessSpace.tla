---------------------------- MODULE ProcessSpace ----------------------------
(***************************************************************************)
(* How the kernel lays out the address space of a process (layout.h and    *)
(* kernel/process/process.c), on the page tables of Vma: the last sixteen  *)
(* pages of the kernel half, with the offsets the code gives them.  A      *)
(* process is made with its kernel stack and user trapframe mapped, gets   *)
(* the stack of a hart when it moves there, and its trapframe page is      *)
(* mapped anew whenever a trap enters or leaves the kernel.                *)
(***************************************************************************)
EXTENDS Vma, SequencesExt

CONSTANTS
    Harts,
    NoHart          \* last_hart before the first switch, U64_MAX in the code

ASSUME ProcessSpaceAssumption ==
    /\ F >= 16
    /\ Procs \subseteq Nat
    /\ Harts \subseteq Nat

VARIABLES
    trap_page,      \* which trapframe of the process is mapped
    last_hart,
    user_page       \* the processes whose user page is mapped

pvars == <<vars, trap_page, last_hart, user_page>>

\* Page numbers of the definitions of layout.h.
Top == F * F * F - 16
TRAPFRAME_ADDRESS == Top + 14
\* A mutant: where the comment above the definition has the stack begin.
PROC_KERN_STACK_START_COMMENT == Top + 9
PROC_KERN_STACK_START == Top + 10
HART_KERN_STACK_START == Top + 4
KERN_MAPPING_BOTTOM == Top + 3
StackPages == 4
UserStart == 1                          \* virtual address 0x1000

\* The physical pages a process and a hart got from pg_alloc; no two are the same.
TrapPages == {"userspace_trapframe", "kernelspace_trapframe", "page_fault_trapframe"}
TrapFrame(p, which) ==
    100 * p + CASE which = "userspace_trapframe" -> 0
                [] which = "kernelspace_trapframe" -> 1
                [] which = "page_fault_trapframe" -> 2
phys_kernel_stack_addr(p) == [i \in 1..StackPages |-> 100 * p + 10 + i]
hart_stacks_list(h) == [i \in 1..StackPages |-> 100 * h + 50 + i]
UserCode == 7                           \* _kernel_init_process, in the kernel image

RW == kernel_flags("RW")
RX == user_flags("RX")

-----------------------------------------------------------------------------
vma_map(m, r, va, phys, flags) == vma_replace_section(m, r, va, 1, phys, flags, TRUE)

\* A mutant: the loop stops a page early.
MapStackShort(m, r, start, pages) ==
    FoldLeft(LAMBDA acc, i : vma_map(acc, r, start + i - 1, pages[i], RW), m,
             [i \in 1..StackPages-1 |-> i])

\* The loops that map a stack, page by page.
MapStack(m, r, start, pages) ==
    FoldLeft(LAMBDA acc, i : vma_map(acc, r, start + i - 1, pages[i], RW), m,
             [i \in 1..StackPages |-> i])

SpaceInit ==
    /\ Init
    /\ trap_page = [p \in Procs |-> "userspace_trapframe"]
    /\ last_hart = [p \in Procs |-> NoHart]
    /\ user_page = {}

new_blank_process(p) ==
    LET r == Min(Tables \ used)
        m1 == vma_create(Memory)
        m2 == vma_replace_section(m1, r, KERN_MAPPING_BOTTOM, 13, 0, NoFlags, TRUE)
        m3 == vma_map(m2, r, TRAPFRAME_ADDRESS, TrapFrame(p, "userspace_trapframe"), RW)
    IN  /\ panic = "NONE"
        /\ root[p] = NoTable
        /\ Become(MapStack(m3, r, PROC_KERN_STACK_START, phys_kernel_stack_addr(p)))
        /\ root' = [root EXCEPT ![p] = r]
        /\ UNCHANGED <<trap_page, last_hart, user_page>>

\* processes_init and create_init_process map the code of a new process.
MapUserCode(p) ==
    /\ panic = "NONE"
    /\ p \in Created \ user_page
    /\ Become(vma_map(Memory, root[p], UserStart, UserCode, RX))
    /\ user_page' = user_page \cup {p}
    /\ UNCHANGED <<root, trap_page, last_hart>>

process_update_context_switch(p, h) ==
    /\ panic = "NONE"
    /\ p \in Created
    /\ last_hart[p] # h
    /\ last_hart' = [last_hart EXCEPT ![p] = h]
    /\ Become(MapStack(Memory, root[p], HART_KERN_STACK_START, hart_stacks_list(h)))
    /\ UNCHANGED <<root, trap_page, user_page>>

\* The trap handlers of kernel/trap/process_handler.c choose the trapframe.
MapTrapframe(p, which) ==
    /\ panic = "NONE"
    /\ p \in Created
    /\ trap_page[p] # which
    /\ Become(vma_map(Memory, root[p], TRAPFRAME_ADDRESS, TrapFrame(p, which), RW))
    /\ trap_page' = [trap_page EXCEPT ![p] = which]
    /\ UNCHANGED <<root, last_hart, user_page>>

SpaceNext == \E p \in Procs :
    \/ new_blank_process(p)
    \/ MapUserCode(p)
    \/ \E h \in Harts : process_update_context_switch(p, h)
    \/ \E which \in TrapPages : MapTrapframe(p, which)

SpaceSpec == SpaceInit /\ [][SpaceNext]_pvars

-----------------------------------------------------------------------------
\* The kernel lays its processes out without a panic and without an undefined
\* outcome of vma_replace_section.
TypeOK ==
    /\ used \subseteq Tables
    /\ root \in [Procs -> Tables \cup {NoTable}]
    /\ trap_page \in [Procs -> TrapPages]
    /\ last_hart \in [Procs -> Harts \cup {NoHart}]
    /\ user_page \subseteq Procs
    /\ panic = "NONE"

InStack(va, start) == va \in start..start+StackPages-1

\* Where the calls made so far, with the addresses layout.h defines, lead a page.
LaidOut(p, va) ==
    CASE va = UserStart /\ p \in user_page -> Leaf(UserCode, RX)
      [] va = TRAPFRAME_ADDRESS -> Leaf(TrapFrame(p, trap_page[p]), RW)
      [] InStack(va, PROC_KERN_STACK_START) ->
             Leaf(phys_kernel_stack_addr(p)[va - PROC_KERN_STACK_START + 1], RW)
      [] InStack(va, HART_KERN_STACK_START) /\ last_hart[p] # NoHart ->
             Leaf(hart_stacks_list(last_hart[p])[va - HART_KERN_STACK_START + 1], RW)
      [] va >= KernelStart /\ va < KERN_MAPPING_BOTTOM -> Leaf(va - KernelStart, access_mask)
      [] OTHER -> Unmapped

\* Whatever calls came before and in whatever order the processes made them, every
\* virtual page of every process leads where the definitions of layout.h and the calls
\* of process.c put it: the process sees its own trapframe, its own kernel stack and
\* the stack of the hart it was last on, nothing it was not given, and the physical
\* memory below the mapping (process.c:34-80, 157-169, process_handler.c:24-60).
AddressSpaceAsLaidOut ==
    \A p \in Created, va \in VirtualPages : Walk(Memory, root[p], va) = LaidOut(p, va)

\* The pages the comments of layout.h call "blank guard": above the trapframe, between
\* the kernel stack of the process and the trapframe, between the two stacks.
GuardPages == {Top + 15, Top + 13, Top + 8}

\* One of the three guards guards nothing: the four pages of the kernel stack begin a
\* page above the place its comment gives (layout.h:18-19), so the last of them is
\* the guard below the trapframe (layout.h:16), in every process and at all times.
\* The other two are blank.
OneGuardIsStack ==
    \A p \in Created :
        {va \in GuardPages : Walk(Memory, root[p], va) # Unmapped} = {Top + 13}
=============================================================================
