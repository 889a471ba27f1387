-------------------------------- MODULE Vma ---------------------------------
(***************************************************************************)
(* The page tables of arch_vma/virtual_memory.c: three levels of tables    *)
(* that share one pool of pages, and vma_replace_section, which maps or    *)
(* unmaps a range and merges a table whose entries say the same.           *)
(*                                                                         *)
(* Addresses count pages.  Virtual pages are numbered as normal_virt_addr  *)
(* numbers them: the user half first, the kernel half after it.  A call    *)
(* runs to its end before the next one: it works on the tables of one      *)
(* process, on the one hart.                                               *)
(***************************************************************************)
EXTENDS Integers, FiniteSets, FiniteSetsExt

CONSTANTS
    Procs,
    F,              \* entries of a table, 512 in the code
    Tables,         \* the pages pg_alloc hands out for tables
    DontCompress,   \* the access flags that have VMA_DONT_COMPRESS
    NoTable

ASSUME VmaAssumption ==
    /\ F \in Nat /\ F >= 2 /\ F % 2 = 0
    /\ Tables \subseteq Nat
    /\ NoTable \notin Tables

Idx == 0..F-1
ppn1_jmp_size == F
ppn2_jmp_size == F * F
VirtualPages == 0..F*F*F-1
KernelStart == (F * F * F) \div 2       \* where the kernel half begins

\* The flags of an entry: who may use it and how.
NoFlags == <<"none", "none">>           \* access_flags 0, what vma_unmap passes
access_mask == <<"kernel", "RWX">>      \* the flags vma_create writes
kernel_flags(access) == <<"kernel dirty accessed", access>>
user_flags(access) == <<"user dirty accessed", access>>

Unmapped == [kind |-> "none"]
Leaf(phys, flags) == [kind |-> "leaf", phys |-> phys, flags |-> flags]
create_branch(t) == [kind |-> "branch", table |-> t]

create_leaf(phys, flags) == IF flags = NoFlags THEN Unmapped ELSE Leaf(phys, flags)

VARIABLES
    table,      \* table[t][i]: the entries of page t
    used,       \* the pages that are allocated
    root,       \* proc->vma_table
    merged,     \* history: the tables shrink_branch freed and left linked
    panic       \* "NONE", the PANIC that stopped the kernel, or what it did instead

vars == <<table, used, root, merged, panic>>

Panics == {"OUT_OF_FREE_PAGES", "DOUBLE_FREE_PAGE",
           "VMA_MAPPING_LARGER_THEN_MAX_SIZE", "VMA_MAPPING_PAST_MAX_USERSPACE",
           "VMA_MAPPING_PAST_MAX_KERNELSPACE", "BAD_SIZE_LEFT_MAPPING",
           "ATTEMPT_TO_EXPAND_NON_COMPRESS_LEAF"}

\* Not PANICs: the code follows a null table pointer, writes or reads past the last
\* entry of a table, passes an entry where destroy_branch takes a pointer to one, or
\* is given a page that an entry still leads to as a new table and blanks it.
Undefined == {"NULL_TABLE", "PAST_TABLE", "ENTRY_AS_POINTER", "LINKED_TABLE_REUSED"}

Init ==
    /\ table = [t \in Tables |-> [i \in Idx |-> Unmapped]]
    /\ used = {}
    /\ root = [p \in Procs |-> NoTable]
    /\ merged = {}
    /\ panic = "NONE"

-----------------------------------------------------------------------------
\* The helpers work on a memory m: the tables, the allocated pages, the history and
\* panic.  Once panic is set nothing more happens.

Memory == [table |-> table, used |-> used, merged |-> merged, panic |-> panic]
Stop(m, what) == [m EXCEPT !.panic = what]
IsBranch(m, t, i) == m.table[t][i].kind = "branch"
Child(m, t, i) == m.table[t][i].table

\* The page keeps its contents until pg_alloc hands it out again.
pg_free(m, t) ==
    IF t \in m.used THEN [m EXCEPT !.used = @ \ {t}] ELSE Stop(m, "DOUBLE_FREE_PAGE")

\* The entry becomes a table whose entries say together what it said.
expand_leaf(m, t, i, jmp) ==
    LET entry == m.table[t][i]
        new == Min(Tables \ m.used)
    IN  CASE m.panic # "NONE" -> m
          [] Tables \ m.used = {} -> Stop(m, "OUT_OF_FREE_PAGES")
          [] new \in m.merged -> Stop(m, "LINKED_TABLE_REUSED")
          [] entry.kind = "leaf" /\ entry.flags[2] \in DontCompress ->
                 Stop(m, "ATTEMPT_TO_EXPAND_NON_COMPRESS_LEAF")
          [] OTHER ->
                 [m EXCEPT !.used = @ \cup {new},
                           !.table = [@ EXCEPT
                               ![t][i] = create_branch(new),
                               ![new] = [k \in Idx |->
                                   IF entry.kind = "leaf"
                                   THEN create_leaf(entry.phys + k * (jmp \div F), entry.flags)
                                   ELSE Unmapped]]]

\* A mutant: the first entry speaks for an unmapped table.
UniformFirst(m, t, jmp) ==
    \/ m.table[t][0] = Unmapped
    \/ /\ m.table[t][0].kind = "leaf"
       /\ m.table[t][0].flags[2] \notin DontCompress
       /\ \A k \in Idx : m.table[t][k] =
             Leaf(m.table[t][0].phys + k * (jmp \div F), m.table[t][0].flags)

Uniform(m, t, jmp) ==
    LET first == m.table[t][0]
    IN  \/ \A k \in Idx : m.table[t][k] = Unmapped
        \/ /\ first.kind = "leaf"
           /\ first.flags[2] \notin DontCompress
           /\ \A k \in Idx : m.table[t][k] = Leaf(first.phys + k * (jmp \div F), first.flags)

\* A mutant: unmapped tables are unlinked and not freed.
ShrinkKeepPage(m, t, i, jmp) ==
    IF m.panic = "NONE" /\ IsBranch(m, t, i) /\ Uniform(m, Child(m, t, i), jmp)
    THEN [m EXCEPT !.table[t][i] = Unmapped]
    ELSE m

\* A mutant: the table is freed and its entry kept, also when all is unmapped.
ShrinkKeepEntry(m, t, i, jmp) ==
    IF m.panic = "NONE" /\ IsBranch(m, t, i) /\ Uniform(m, Child(m, t, i), jmp)
    THEN pg_free(m, Child(m, t, i))
    ELSE m

\* A table of equal entries is freed.  Its own entry is cleared when they are all
\* unmapped, and otherwise stays as it is: the result of create_leaf is dropped.
shrink_branch(m, t, i, jmp) ==
    IF m.panic = "NONE" /\ IsBranch(m, t, i) /\ Uniform(m, Child(m, t, i), jmp)
    THEN LET b == Child(m, t, i)
         IN  IF m.table[b][0] = Unmapped
             THEN pg_free([m EXCEPT !.table[t][i] = Unmapped], b)
             ELSE [pg_free(m, b) EXCEPT !.merged = @ \cup {b}]
    ELSE m

\* One of the five loops that write entries: cnt of them from entry i on.  Above the
\* lowest level a branch in the way is given to destroy_branch.
Fill(m, t, i, cnt, phys, jmp, flags) ==
    CASE m.panic # "NONE" \/ cnt = 0 -> m
      [] jmp > 1 /\ \E k \in (i..i+cnt-1) \cap Idx : IsBranch(m, t, k) -> Stop(m, "ENTRY_AS_POINTER")
      [] i + cnt > F -> Stop(m, "PAST_TABLE")
      [] OTHER -> [m EXCEPT !.table[t] = [k \in Idx |->
                       IF k \in i..i+cnt-1 THEN create_leaf(phys + (k - i) * jmp, flags)
                       ELSE @[k]]]

-----------------------------------------------------------------------------
\* How vma_replace_section cuts a range into entries of the three levels.

Block(va, jmp) == (va \div jmp) * jmp
Within(va, jmp, start, size) == start <= Block(va, jmp) /\ Block(va, jmp) + jmp <= start + size

PpnOf(va, start, size) ==
    IF Within(va, ppn2_jmp_size, start, size) THEN 2
    ELSE IF Within(va, ppn1_jmp_size, start, size) THEN 1 ELSE 0

\* highest_reached_ppn is 2 once the range has met a multiple of the largest size:
\* both tests that raise it look at ppn2_jmp_size, so it is never 1.
Reached(va, start) == start <= Block(va, ppn2_jmp_size)

Counts(start, size) ==
    LET cnt(ppn, jmp, post) ==
            Cardinality({va \in start..start+size-1 :
                /\ va % jmp = 0
                /\ PpnOf(va, start, size) = ppn
                /\ Reached(va, start) = post})
    IN  [pre0 |-> cnt(0, 1, FALSE), pre1 |-> cnt(1, ppn1_jmp_size, FALSE),
         ppn2 |-> cnt(2, ppn2_jmp_size, TRUE),
         post1 |-> cnt(1, ppn1_jmp_size, TRUE), post0 |-> cnt(0, 1, TRUE)]

-----------------------------------------------------------------------------
\* The entries before the first multiple of ppn2_jmp_size, and those of that size.
\* The offset of a level is not moved on after the entries of the level below.
ReplaceBefore(m, r, start, phys, flags, c) ==
    LET i2 == start \div ppn2_jmp_size
        i1 == (start % ppn2_jmp_size) \div ppn1_jmp_size
        i0 == start % ppn1_jmp_size
        m1 == IF ~IsBranch(m, r, i2) /\ c.pre1 + c.pre0 > 0
              THEN expand_leaf(m, r, i2, ppn2_jmp_size) ELSE m
        t1 == Child(m1, r, i2)
        m2 == IF ~IsBranch(m1, t1, i1) /\ c.pre0 > 0
              THEN expand_leaf(m1, t1, i1, ppn1_jmp_size) ELSE m1
        m3 == Fill(m2, Child(m2, t1, i1), i0, c.pre0, phys, 1, flags)
        m4 == shrink_branch(m3, t1, i1, ppn1_jmp_size)
        m5 == Fill(m4, t1, i1, c.pre1, phys + c.pre0, ppn1_jmp_size, flags)
        m6 == shrink_branch(m5, r, i2, ppn2_jmp_size)
    IN  CASE m1.panic # "NONE" -> m1
          [] ~IsBranch(m1, r, i2) -> Stop(m1, "NULL_TABLE")
          [] OTHER -> Fill(m6, r, i2, c.ppn2, phys + c.pre0 + c.pre1 * ppn1_jmp_size,
                           ppn2_jmp_size, flags)

\* The entries after it.
ReplaceAfter(m, r, start, phys, flags, c) ==
    LET i2 == start \div ppn2_jmp_size + c.ppn2
        done == c.pre0 + c.pre1 * ppn1_jmp_size + c.ppn2 * ppn2_jmp_size
        m1 == IF ~IsBranch(m, r, i2) /\ c.post1 + c.post0 > 0
              THEN expand_leaf(m, r, i2, ppn2_jmp_size) ELSE m
        t1 == Child(m1, r, i2)
        m2 == Fill(m1, t1, 0, c.post1, phys + done, ppn1_jmp_size, flags)
        m3 == IF m2.panic = "NONE" /\ ~IsBranch(m2, t1, c.post1)
              THEN expand_leaf(m2, t1, c.post1, ppn1_jmp_size) ELSE m2
        m4 == Fill(m3, Child(m3, t1, c.post1), 0, c.post0,
                   phys + done + c.post1 * ppn1_jmp_size, 1, flags)
        m5 == IF c.post0 > 0 THEN shrink_branch(m4, t1, c.post1, ppn1_jmp_size) ELSE m2
    IN  CASE m.panic # "NONE" -> m
          [] i2 >= F -> Stop(m, "PAST_TABLE")
          [] OTHER -> shrink_branch(m5, r, i2, ppn2_jmp_size)

\* aligned: the address and the size are multiples of the page size.
vma_replace_section(m, r, start, size, phys, flags, aligned) ==
    LET c == Counts(start, size)
        half == IF start >= KernelStart THEN 2 * KernelStart ELSE KernelStart
    IN  CASE m.panic # "NONE" -> m
          [] size > KernelStart -> Stop(m, "VMA_MAPPING_LARGER_THEN_MAX_SIZE")
          [] start > half - size ->
                 Stop(m, IF start >= KernelStart THEN "VMA_MAPPING_PAST_MAX_KERNELSPACE"
                                                 ELSE "VMA_MAPPING_PAST_MAX_USERSPACE")
          [] ~aligned -> Stop(m, "BAD_SIZE_LEFT_MAPPING")
          [] OTHER -> ReplaceAfter(ReplaceBefore(m, r, start, phys, flags, c),
                                   r, start, phys, flags, c)

\* The kernel half maps the physical memory with entries of the largest size.
vma_create(m) ==
    LET new == Min(Tables \ m.used)
    IN  IF Tables \ m.used = {} THEN Stop(m, "OUT_OF_FREE_PAGES")
        ELSE IF new \in m.merged THEN Stop(m, "LINKED_TABLE_REUSED")
        ELSE [m EXCEPT !.used = @ \cup {new},
                       !.table[new] = [i \in Idx |->
                           IF i < F \div 2 THEN Unmapped
                           ELSE Leaf((i - F \div 2) * ppn2_jmp_size, access_mask)]]

Become(m) ==
    /\ table' = m.table
    /\ used' = m.used
    /\ merged' = m.merged
    /\ panic' = m.panic

-----------------------------------------------------------------------------
\* The translation the hardware finds.
Walk(m, r, va) ==
    LET e2 == m.table[r][va \div ppn2_jmp_size]
        e1 == m.table[e2.table][(va % ppn2_jmp_size) \div ppn1_jmp_size]
        e0 == m.table[e1.table][va % ppn1_jmp_size]
        at(e, jmp) == IF e.kind = "leaf" THEN Leaf(e.phys + (va % jmp), e.flags) ELSE Unmapped
    IN  IF e2.kind # "branch" THEN at(e2, ppn2_jmp_size)
        ELSE IF e1.kind # "branch" THEN at(e1, ppn1_jmp_size)
        ELSE at(e0, 1)

Created == {p \in Procs : root[p] # NoTable}

\* The tables the root of a process leads to.
TablesOf(r) ==
    LET kids(t) == {table[t][i].table : i \in {k \in Idx : table[t][k].kind = "branch"}}
    IN  {r} \cup kids(r) \cup UNION {kids(t) : t \in kids(r)}
=============================================================================
