--------------------------- MODULE MemoryRegions ----------------------------
(***************************************************************************)
(* pager_init of kernel/memory/pager.c: the memory regions of the device   *)
(* tree, the removal of the reserved ones, an iteration of the loop at a   *)
(* time, and the page area cut from every region that is left.  Addresses  *)
(* and sizes are unsigned and wrap.                                        *)
(***************************************************************************)
EXTENDS Integers, Sequences, SequencesExt

CONSTANTS
    ADDRESSES,      \* 2^64 in the code
    PAGE,           \* KERNEL_PAGE_SIZE
    MAX_MEMORY_REGIONS,     \* entries of the two lists of regions, 32 in the code
    KernelByte,     \* the byte at _kernel_start, the first of the kernel's code
    RecordsEnd      \* the end of the device tree records and of the pager's list

ASSUME MemoryRegionsAssumption ==
    /\ ADDRESSES \in Nat \ {0}
    /\ PAGE \in Nat \ {0}
    /\ MAX_MEMORY_REGIONS \in Nat \ {0}
    /\ KernelByte \in 0..ADDRESSES-1
    /\ RecordsEnd \in 0..ADDRESSES-1

Region == [start : 0..ADDRESSES-1, size : 0..ADDRESSES-1]

VARIABLES
    memory,         \* what find_memory_regions read
    reserved,       \* reserved_regions
    free,           \* free_regions, free_cnt of them
    i, j,           \* the loop variables of remove_reserved_memory_regions
    pages,          \* pager_bitmap_list: page_cnt, bitmap location, page location
    panic,
    done            \* pager_init has returned

region_vars == <<memory, reserved, free, i, j, pages, panic, done>>

End(region) == (region.start + region.size) % ADDRESSES

\* The local variables of pager_init before find_memory_regions.
RegionsInit ==
    /\ memory = <<>>
    /\ reserved = <<>>
    /\ free = <<>>
    /\ i = 1
    /\ j = 1
    /\ pages = <<>>
    /\ panic = "NONE"
    /\ done = FALSE

\* The kernel's own region.  pager_init takes the byte that is stored at
\* _kernel_start, not its address, for the start.
KernelRegion == [start |-> KernelByte, size |-> (RecordsEnd - KernelByte) % ADDRESSES]

\* What pager_init goes on with: the regions it found, and the kernel's own region
\* behind the reserved ones.  Nothing keeps the lists within their arrays.
RegionsFound(found, taken) ==
    /\ memory' = found
    /\ reserved' = Append(taken, KernelRegion)
    /\ free' = found
    /\ panic' = IF Len(found) > MAX_MEMORY_REGIONS \/ Len(reserved') > MAX_MEMORY_REGIONS
                  THEN "PAST_MEMORY_REGIONS" ELSE "NONE"
    /\ UNCHANGED <<i, j, pages, done>>

Examining == ~done /\ panic = "NONE" /\ i <= Len(reserved) /\ j <= Len(free)

\* Mutant of CompleteOverlap: the region that takes its place is not examined.
CompleteOverlapOnce ==
    /\ Examining
    /\ reserved[i].start <= free[j].start /\ End(reserved[i]) >= End(free[j])
    /\ free' = Front([free EXCEPT ![j] = Last(free)])
    /\ j' = j + 1
    /\ UNCHANGED <<memory, reserved, i, pages, panic, done>>

\* "complete overlap/same size": the last region takes its place.
CompleteOverlap ==
    /\ Examining
    /\ reserved[i].start <= free[j].start /\ End(reserved[i]) >= End(free[j])
    /\ free' = Front([free EXCEPT ![j] = Last(free)])
    /\ UNCHANGED <<memory, reserved, i, j, pages, panic, done>>

\* Mutant of TouchingStart: the region is examined again.
TouchingStartAgain ==
    /\ Examining
    /\ reserved[i].start <= free[j].start /\ End(reserved[i]) < End(free[j])
    /\ free' = [free EXCEPT ![j].start = End(reserved[i])]
    /\ UNCHANGED <<memory, reserved, i, j, pages, panic, done>>

\* "touching start": start is assigned first, so nothing is taken from size.
TouchingStart ==
    /\ Examining
    /\ reserved[i].start <= free[j].start /\ End(reserved[i]) < End(free[j])
    /\ free' = [free EXCEPT ![j].start = End(reserved[i])]
    /\ j' = j + 1
    /\ UNCHANGED <<memory, reserved, i, pages, panic, done>>

\* "touching end"
TouchingEnd ==
    /\ Examining
    /\ reserved[i].start > free[j].start /\ End(reserved[i]) >= End(free[j])
    /\ free' = [free EXCEPT ![j].size =
                  (@ - (free[j].start - reserved[i].start)) % ADDRESSES]
    /\ j' = j + 1
    /\ UNCHANGED <<memory, reserved, i, pages, panic, done>>

\* Mutant of Inside: the part before keeps its size.
InsideKeepSize ==
    /\ Examining
    /\ reserved[i].start > free[j].start /\ End(reserved[i]) < End(free[j])
    /\ Len(free) < MAX_MEMORY_REGIONS
    /\ free' = Append(free, [start |-> End(reserved[i]),
                             size  |-> (End(free[j]) - End(reserved[i])) % ADDRESSES])
    /\ UNCHANGED <<memory, reserved, i, j, pages, panic, done>>

\* The part behind would be written past the end of the array.
InsideFullList ==
    /\ Examining
    /\ reserved[i].start > free[j].start /\ End(reserved[i]) < End(free[j])
    /\ Len(free) = MAX_MEMORY_REGIONS
    /\ panic' = "PAST_MEMORY_REGIONS"
    /\ UNCHANGED <<memory, reserved, free, i, j, pages, done>>

\* "inside": the part behind is appended and the part before examined again.
Inside ==
    /\ Examining
    /\ reserved[i].start > free[j].start /\ End(reserved[i]) < End(free[j])
    /\ Len(free) < MAX_MEMORY_REGIONS
    /\ free' = Append([free EXCEPT ![j].size =
                         (@ - (End(free[j]) - reserved[i].start)) % ADDRESSES],
                      [start |-> End(reserved[i]),
                       size  |-> (End(free[j]) - End(reserved[i])) % ADDRESSES])
    /\ UNCHANGED <<memory, reserved, i, j, pages, panic, done>>

NextReserved ==
    /\ ~done /\ panic = "NONE" /\ i <= Len(reserved) /\ j > Len(free)
    /\ i' = i + 1
    /\ j' = 1
    /\ UNCHANGED <<memory, reserved, free, pages, panic, done>>

\* The entry of pager_bitmap_list for a region; page_cnt may be negative.  The first
\* page begins at most a page behind the bitmap, whatever the length of the bitmap:
\* page_offset shortens the region at its other end (Pager has what follows).
PageArea(region) ==
    LET page_cnt    == region.size \div PAGE
        page_offset == ((page_cnt \div 8) \div PAGE) + 2
    IN  [cnt    |-> page_cnt - page_offset,
         bitmap |-> region.start,
         base   |-> ((region.start \div PAGE) + 1) * PAGE]

PageAreas ==
    /\ ~done /\ panic = "NONE" /\ i > Len(reserved)
    /\ done' = TRUE
    /\ IF free = <<>>
         THEN panic' = "NO_MEMORY_REGIONS_FOR_PAGER" /\ UNCHANGED pages
         ELSE pages' = [k \in DOMAIN free |-> PageArea(free[k])] /\ UNCHANGED panic
    /\ UNCHANGED <<memory, reserved, free, i, j>>

RegionsNext ==
    \/ CompleteOverlap
    \/ TouchingStart
    \/ TouchingEnd
    \/ Inside
    \/ InsideFullList
    \/ NextReserved
    \/ PageAreas

-----------------------------------------------------------------------------
(* Properties *)

RegionsTypeOK ==
    /\ free \in Seq(Region)
    /\ i \in 1..Len(reserved)+1
    /\ j \in 1..Len(free)+1
    /\ panic \in {"NONE", "NO_RESERVED_MEMORY", "NO_MEMORY_REGIONS_FOR_PAGER",
                  "PAST_MEMORY_REGIONS"}
    /\ done \in BOOLEAN

\* The arrays of MAX_MEMORY_REGIONS entries are left only by a device tree that has
\* more nodes than entries, or whose reserved regions could double the number of
\* free regions once each beyond it (pager.c:20, 131-136).
FreeListBound ==
    panic = "PAST_MEMORY_REGIONS" =>
        \/ Len(reserved) > MAX_MEMORY_REGIONS
        \/ Len(memory) * 2^i > MAX_MEMORY_REGIONS

\* The kernel, the device tree records and the pager's own list are not handed out:
\* neither the bitmap nor a page of a region lies below their end, whichever regions
\* were dropped, moved or split on the way (pager.c:92-140, 165-173, 204-218).
KernelKeptOut ==
    \A k \in DOMAIN pages : pages[k].bitmap >= RecordsEnd /\ pages[k].base >= RecordsEnd

Bytes(region) == {a \in 0..2*ADDRESSES : region.start <= a /\ a < region.start + region.size}
BytesOf(list) == UNION {Bytes(list[k]) : k \in DOMAIN list}

-----------------------------------------------------------------------------
(* What comments and notes of the repository say, and the code does not do *)

\* "remove reserved areas if they fit inside of a region, if outside trim"
\* (pager.c:162): removing memory adds none.
NothingAdded == BytesOf(free) \subseteq BytesOf(memory)

\* "pager can't handle overlap or same memory locations" (implementation_note.md:4):
\* the regions it is given share none when those of the device tree share none.
RegionsApart ==
    \A k, l \in DOMAIN pages : k # l => Bytes(free[k]) \cap Bytes(free[l]) = {}
=============================================================================
