---------------------------- MODULE AddressSpace ----------------------------
(***************************************************************************)
(* What the page tables of arch_vma/virtual_memory.c promise: every        *)
(* process has a map from virtual pages to physical pages and access       *)
(* flags, and a call changes the pages it names in the map of its process  *)
(* and nothing else.                                                       *)
(***************************************************************************)
EXTENDS Integers

CONSTANTS
    Procs, VirtualPages,
    Unmapped,           \* the value of a page with no translation
    NotCreated,         \* the map of a process that has none yet
    KernelMap,          \* the map a process starts with
    To(_,_)             \* the translation to a page with flags, Unmapped for no flags

VARIABLES space, halted

vars == <<space, halted>>

Init ==
    /\ space = [p \in Procs |-> NotCreated]
    /\ halted = FALSE

Create(p) ==
    /\ ~halted
    /\ space[p] = NotCreated
    /\ space' = [space EXCEPT ![p] = KernelMap]
    /\ UNCHANGED halted

\* The kernel may stop once the pages are changed.
Replace(p, start, size, phys, flags) ==
    /\ ~halted
    /\ space[p] # NotCreated
    /\ space' = [space EXCEPT ![p] =
           [va \in VirtualPages |-> IF va \in start..start+size-1
                                    THEN To(phys + va - start, flags)
                                    ELSE space[p][va]]]
    /\ halted' \in BOOLEAN

OutOfPages ==
    /\ ~halted
    /\ halted' = TRUE
    /\ UNCHANGED space
=============================================================================
