------------------------------- MODULE Pager --------------------------------
(***************************************************************************)
(* pg_alloc and pg_free of kernel/memory/pager.c: one bitmap per memory    *)
(* region, scanned a machine word at a time from a hint (last_free_bitmap, *)
(* last_free_page_num) that remembers where the last page was found.       *)
(*                                                                         *)
(* A location is a page frame number: the code's byte address divided by   *)
(* KERNEL_PAGE_SIZE, which is the first thing pg_free does with it.  A     *)
(* bitmap is the set of the page numbers whose bit is one.                 *)
(*                                                                         *)
(* The bitmap of a region is stored in the region itself, from its first   *)
(* byte on, and pager_init sets aside for it only what lies before the     *)
(* next page boundary.  The bits that do not fit there lie in the region's *)
(* first pages, which pg_alloc blanks and their owners write.              *)
(***************************************************************************)
EXTENDS Integers

CONSTANTS
    WORD,           \* bits in a bitmap word, 64 in the code
    RegionCnt,      \* pager_bitmap_list[0]
    PageCnt,        \* pager_bitmap_list[1 + 3i]: pages of region i
    BasePage,       \* pager_bitmap_list[3 + 3i]: frame number of its page 0
    PAGE_BITS,      \* bits in a page, 8 * KERNEL_PAGE_SIZE
    HeadBits,       \* bits between the bitmap of region i, which starts at
                    \* pager_bitmap_list[2 + 3i], and its page 0
    Locations       \* the frame numbers a caller may pass to pg_free

Regions == 0..RegionCnt-1

ASSUME ConstantsAssumption ==
    /\ WORD \in Nat \ {0}
    /\ RegionCnt \in Nat \ {0}
    /\ PageCnt \in [Regions -> Nat]
    /\ BasePage \in [Regions -> Nat \ {0}]
    /\ PAGE_BITS \in Nat \ {0}
    /\ HeadBits \in [Regions -> Nat]
    /\ Locations \subseteq Nat

\* Two regions share no page and do not start at the same page.  pager_init does
\* not establish this by itself: it depends on what the trimming of the reserved
\* regions leaves.  A bitmap is then in no page of another region.
ASSUME RegionsDisjoint ==
    \A i, j \in Regions :
        i # j => /\ BasePage[i] # BasePage[j]
                 /\ \/ BasePage[i] + PageCnt[i] <= BasePage[j]
                    \/ BasePage[j] + PageCnt[j] <= BasePage[i]

VARIABLES
    bitmap,                 \* bitmap[i]: the page numbers of region i marked used
    last_free_bitmap,
    last_free_page_num,
    held,                   \* the frames callers own (what they were given and kept)
    panic,                  \* "NONE" or the message of the PANIC that stopped the kernel
    refused                 \* the location that PANIC was about, if it was in pg_free

vars == <<bitmap, last_free_bitmap, last_free_page_num, held, panic, refused>>

Panics == {"NONE", "OUT_OF_FREE_PAGES", "PAGE_REMOVE_NO_OVERRIDE",
           "ATTEMPT_REMOVE_PAGE_OUT_OF_RANGE", "DOUBLE_FREE_PAGE"}

PANIC(message) == panic' = message

\* Whole words only: the code's loop bound is page_cnt / 64.
Words(i) == PageCnt[i] \div WORD

\* The pages of region i that the scan can reach.
Usable(i) == 0..(Words(i) * WORD) - 1

\* The bits of its own bitmap that page p of region i stores.
StoredIn(i, p) ==
    {b \in 0..PageCnt[i]-1 :
        b >= HeadBits[i] /\ (b - HeadBits[i]) \div PAGE_BITS = p}

\* The regions whose bitmap ends before their first page.
ApartRegions == {i \in Regions : PageCnt[i] <= HeadBits[i]}

Init ==
    /\ bitmap = [i \in Regions |-> {}]
    /\ last_free_bitmap = 0
    /\ last_free_page_num = 0
    /\ held = {}
    /\ panic = "NONE"
    /\ refused = {}

-----------------------------------------------------------------------------
(* pg_alloc *)

\* Mutant of StartWord: the page hint is applied to every region.
StartWordEverywhere(i) == last_free_page_num \div WORD

\* First word the scan looks at in region i.
StartWord(i) ==
    IF i = last_free_bitmap THEN last_free_page_num \div WORD ELSE 0

WordFull(i, j) == \A b \in 0..WORD-1 : j * WORD + b \in bitmap[i]

\* Word j of region i is scanned and has a zero bit.
HasRoom(i, j) ==
    /\ i \in last_free_bitmap..RegionCnt-1
    /\ j \in StartWord(i)..Words(i)-1
    /\ ~WordFull(i, j)

\* The scan stops at word j of region i: nothing before it has room.
ScanStopsAt(i, j) ==
    /\ HasRoom(i, j)
    /\ \A k \in StartWord(i)..j-1 : ~HasRoom(i, k)
    /\ \A h \in last_free_bitmap..i-1 : \A k \in 0..Words(h)-1 : ~HasRoom(h, k)

\* __builtin_ctzl(~bitmap[j])
LowestZero(i, j, b) ==
    /\ j * WORD + b \notin bitmap[i]
    /\ \A c \in 0..b-1 : j * WORD + c \in bitmap[i]

\* The bit is set, and then the page is blanked.
TakePage(i, page) ==
    /\ last_free_bitmap' = i
    /\ last_free_page_num' = page
    /\ bitmap' = [bitmap EXCEPT ![i] = (@ \union {page}) \ StoredIn(i, page)]
    /\ held' = held \union {BasePage[i] + page}

pg_alloc ==
    /\ panic = "NONE"
    /\ \E i \in Regions : \E j \in 0..Words(i)-1 :
          /\ ScanStopsAt(i, j)
          /\ \E b \in 0..WORD-1 :
                /\ LowestZero(i, j, b)
                /\ TakePage(i, j * WORD + b)
    /\ UNCHANGED <<panic, refused>>

pg_alloc_none ==
    /\ panic = "NONE"
    /\ \A i \in Regions : \A j \in 0..Words(i)-1 : ~HasRoom(i, j)
    /\ PANIC("OUT_OF_FREE_PAGES")
    /\ UNCHANGED <<bitmap, last_free_bitmap, last_free_page_num, held, refused>>

-----------------------------------------------------------------------------
(* pg_free *)

\* Mutant of ClosestRegion: the last region below the location is taken.
LastRegionBelow(location, i) ==
    /\ BasePage[i] <= location
    /\ \A k \in Regions : k > i => BasePage[k] > location

\* The region whose first page is the nearest at or below the location.
ClosestRegion(location, i) ==
    /\ BasePage[i] <= location
    /\ \A k \in Regions : BasePage[k] <= location => BasePage[k] <= BasePage[i]

\* Mutant of LowerHint: the page number is not compared.
LowerHintRegionOnly(i, page) ==
    IF last_free_bitmap > i
      THEN /\ last_free_bitmap' = i
           /\ last_free_page_num' = page
      ELSE UNCHANGED <<last_free_bitmap, last_free_page_num>>

\* Move the hint back when the freed page lies before it.
LowerHint(i, page) ==
    IF last_free_bitmap > i \/ (last_free_bitmap = i /\ last_free_page_num > page)
      THEN /\ last_free_bitmap' = i
           /\ last_free_page_num' = page
      ELSE UNCHANGED <<last_free_bitmap, last_free_page_num>>

\* Mutant of ReleasePage: the bit stays set.
ReleasePageKeepBit(i, location) ==
    LET page == location - BasePage[i]
    IN  /\ page < PageCnt[i]
        /\ page \in bitmap[i]
        /\ LowerHint(i, page)
        /\ held' = held \ {location}
        /\ UNCHANGED <<bitmap, panic, refused>>

ReleasePage(i, location) ==
    LET page == location - BasePage[i]
    IN  /\ page < PageCnt[i]
        /\ page \in bitmap[i]
        /\ bitmap' = [bitmap EXCEPT ![i] = @ \ {page}]
        /\ LowerHint(i, page)
        /\ held' = held \ {location}
        /\ UNCHANGED <<panic, refused>>

\* The checks of pg_free, in the order the code makes them.
FreePanic(location) ==
    \/ /\ \A i \in Regions : BasePage[i] > location
       /\ PANIC("PAGE_REMOVE_NO_OVERRIDE")
    \/ \E i \in Regions :
          /\ ClosestRegion(location, i)
          /\ location - BasePage[i] >= PageCnt[i]
          /\ PANIC("ATTEMPT_REMOVE_PAGE_OUT_OF_RANGE")
    \/ \E i \in Regions :
          /\ ClosestRegion(location, i)
          /\ location - BasePage[i] < PageCnt[i]
          /\ location - BasePage[i] \notin bitmap[i]
          /\ PANIC("DOUBLE_FREE_PAGE")

pg_free(location) ==
    /\ panic = "NONE"
    /\ \/ \E i \in Regions : ClosestRegion(location, i) /\ ReleasePage(i, location)
       \/ /\ FreePanic(location)
          /\ refused' = {location}
          /\ UNCHANGED <<bitmap, last_free_bitmap, last_free_page_num, held>>

-----------------------------------------------------------------------------
\* The owner of a page writes to it, and so to the bits it stores.
StoreInPage(i, page) ==
    /\ panic = "NONE"
    /\ BasePage[i] + page \in held
    /\ \E bits \in SUBSET StoredIn(i, page) :
          bitmap' = [bitmap EXCEPT ![i] = (@ \ StoredIn(i, page)) \union bits]
    /\ UNCHANGED <<last_free_bitmap, last_free_page_num, held, panic, refused>>

\* PANIC ends in freeze_system(), a loop that never returns.
freeze_system ==
    /\ panic # "NONE"
    /\ UNCHANGED vars

Next ==
    \/ pg_alloc
    \/ pg_alloc_none
    \/ \E location \in Locations : pg_free(location)
    \/ \E i \in Regions : \E page \in 0..PageCnt[i]-1 : StoreInPage(i, page)
    \/ freeze_system

Spec == Init /\ [][Next]_vars

-----------------------------------------------------------------------------
(* Properties *)

\* Every variable stays in its range; a set bit is a page of its region and, when
\* the bitmap is apart from the pages, one the scan can reach.
TypeOK ==
    /\ bitmap \in [Regions -> SUBSET Nat]
    /\ \A i \in Regions : bitmap[i] \subseteq 0..PageCnt[i]-1
    /\ \A i \in ApartRegions : bitmap[i] \subseteq Usable(i)
    /\ last_free_bitmap \in Regions
    /\ last_free_page_num \in Nat
    /\ held \subseteq Nat
    /\ panic \in Panics
    /\ refused \subseteq Nat

\* (i, p) comes before (k, q) in the order the scan visits the pages.
Earlier(i, p, k, q) == i < k \/ (i = k /\ p < q)

\* In a region whose bitmap is apart from its pages, no page before the hint is
\* free: what lets pg_alloc (pager.c:234,239) skip everything before
\* last_free_bitmap / last_free_page_num.
NoFreePageBelowHint ==
    \A i \in ApartRegions : \A p \in Usable(i) :
        Earlier(i, p, last_free_bitmap, last_free_page_num) => p \in bitmap[i]

\* The bitmap and the callers agree on a region whose bitmap is apart from its
\* pages, whatever is stored in the pages of the others: the frames callers own
\* there are exactly those whose bit is set (pager.c:250-255 and 304).
BitmapsMatchOwners ==
    \A i \in ApartRegions :
        bitmap[i] = {p \in 0..PageCnt[i]-1 : BasePage[i] + p \in held}

\* pg_alloc reports OUT_OF_FREE_PAGES (pager.c:260) only when every page it could
\* ever hand out of the regions whose bitmap is apart is owned by a caller.
OutOfPagesOnlyWhenExhausted ==
    panic = "OUT_OF_FREE_PAGES" =>
        \A i \in ApartRegions : \A p \in Usable(i) : BasePage[i] + p \in held

-----------------------------------------------------------------------------
(* The pager as a pool of page frames *)

Frames == UNION {{BasePage[i] + p : p \in Usable(i)} : i \in ApartRegions}

FrameBefore(f, g) ==
    \E i, k \in ApartRegions : \E p \in Usable(i) : \E q \in Usable(k) :
        /\ f = BasePage[i] + p
        /\ g = BasePage[k] + q
        /\ Earlier(i, p, k, q)

Pool == INSTANCE FirstFitPool WITH
            Before <- FrameBefore,
            inUse  <- held \intersect Frames,
            halted <- (panic # "NONE")

\* Towards the regions whose bitmap is apart, pg_alloc and pg_free implement the
\* page pool their callers rely on: neither the hint, nor the word-wise scan, nor
\* what happens to the other regions can be seen (pager.c:230-312).
ImplementsPagePool == Pool!Spec

-----------------------------------------------------------------------------
(* What comments and notes of the repository say, and the code does not do *)

\* "for pager bitmap 0 is free 1 is in use" (pager.c:12): the page pg_alloc takes
\* is not in use.  "bitmaps overlap with page size" (docs/implementation_note.md:6).
HandedOutOnce == [][pg_alloc => held' # held]_vars
=============================================================================
