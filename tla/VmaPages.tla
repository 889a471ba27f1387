------------------------------ MODULE VmaPages ------------------------------
(***************************************************************************)
(* The calls of arch_vma/virtual_memory.h in any order, by any process,    *)
(* for the ranges in Ranges: the tables of all processes come from one     *)
(* pool, are made when a range needs them and freed when they merge.       *)
(***************************************************************************)
EXTENDS Vma

CONSTANTS
    Ranges,     \* the ranges callers name: <<first page, pages, physical page>>
    Access      \* the access flags they pass

new_process(p) ==
    /\ panic = "NONE"
    /\ root[p] = NoTable
    /\ Become(vma_create(Memory))
    /\ root' = [root EXCEPT ![p] = IF panic' = "NONE" THEN Min(Tables \ used) ELSE @]

Replace(p, range, phys, flags) ==
    /\ panic = "NONE"
    /\ root[p] # NoTable
    /\ Become(vma_replace_section(Memory, root[p], range[1], range[2], phys, flags, TRUE))
    /\ UNCHANGED root

vma_map_kernel(p, range, access) == Replace(p, range, range[3], kernel_flags(access))
vma_map_user(p, range, access) == Replace(p, range, range[3], user_flags(access))
vma_unmap(p, range) == Replace(p, range, 0, NoFlags)

freeze_system == panic # "NONE" /\ UNCHANGED vars

Next ==
    \/ \E p \in Procs :
          \/ new_process(p)
          \/ \E range \in Ranges :
                \/ vma_unmap(p, range)
                \/ \E access \in Access :
                      \/ range[1] >= KernelStart /\ vma_map_kernel(p, range, access)
                      \/ range[1] < KernelStart /\ vma_map_user(p, range, access)
    \/ freeze_system

Spec == Init /\ [][Next]_vars

-----------------------------------------------------------------------------
\* Every call ends with well-formed tables, and what can stop the kernel with these
\* ranges is pg_alloc running out of pages or a table that was merged.
TypeOK ==
    /\ DOMAIN table = Tables
    /\ \A t \in Tables, i \in Idx :
          LET e == table[t][i]
          IN  \/ e = Unmapped
              \/ e.kind = "branch" /\ e.table \in Tables
              \/ e.kind = "leaf" /\ e.phys \in Nat
    /\ used \subseteq Tables
    /\ root \in [Procs -> Tables \cup {NoTable}]
    /\ merged \subseteq Tables \ used
    /\ panic \in {"NONE", "OUT_OF_FREE_PAGES", "DOUBLE_FREE_PAGE", "LINKED_TABLE_REUSED"}

\* No table is left allocated when the last entry that led to it is gone, and the
\* only tables that are free while an entry leads to them are those of equal mapped
\* entries that shrink_branch merged: it drops the leaf that should have taken their
\* place (virtual_memory.c:113-124).
TablesMatchPool ==
    panic = "NONE" => used = UNION {TablesOf(root[p]) : p \in Created} \ merged

\* No two processes, and no two entries of one, lead to the same table, up to the call
\* that is given a merged one: so far what vma_replace_section does to one address
\* space cannot show in another (virtual_memory.c:52-76, 105-124).
TablesNotShared ==
    /\ \A p, q \in Created : p # q => TablesOf(root[p]) \cap TablesOf(root[q]) = {}
    /\ \A t, u \in UNION {TablesOf(root[p]) : p \in Created}, i, k \in Idx :
          (IsBranch(Memory, t, i) /\ IsBranch(Memory, u, k) /\ <<t, i>> # <<u, k>>)
              => Child(Memory, t, i) # Child(Memory, u, k)

Space == INSTANCE AddressSpace WITH
    NotCreated <- NoTable,
    KernelMap <- [va \in VirtualPages |-> IF va < KernelStart THEN Unmapped
                                          ELSE Leaf(va - KernelStart, access_mask)],
    To <- create_leaf,
    space <- [p \in Procs |-> IF root[p] = NoTable THEN NoTable
                              ELSE [va \in VirtualPages |-> Walk(Memory, root[p], va)]],
    halted <- (panic # "NONE")

SpaceNext ==
    \/ Space!OutOfPages
    \/ \E p \in Procs :
          \/ Space!Create(p)
          \/ \E range \in Ranges :
                \/ Space!Replace(p, range[1], range[2], 0, NoFlags)
                \/ \E access \in Access :
                      Space!Replace(p, range[1], range[2], range[3],
                          IF range[1] < KernelStart THEN user_flags(access)
                                                    ELSE kernel_flags(access))

\* The walk of the tables implements AddressSpace: a call changes the translation
\* of the pages it names, in its own process, and of no other page.  A merged table
\* still says what it said, until it is freed again or handed out, where the kernel
\* stops or the model does.
ImplementsAddressSpace == Space!Init /\ [][SpaceNext]_(Space!vars)

-----------------------------------------------------------------------------
(* What a comment of the repository says, and the code does not do *)

\* "if that one section is all the same rules then that page can be wiped and
\* replaced with a higher level one" (the comment above vma_create): a table that
\* was freed is not reached any more.
MergedTablesAreReplaced == \A p \in Created : TablesOf(root[p]) \subseteq used
=============================================================================
