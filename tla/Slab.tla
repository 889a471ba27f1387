-------------------------------- MODULE Slab --------------------------------
(***************************************************************************)
(* mem_alloc and mem_free of kernel/memory/allocator.c.  Each power of two *)
(* has a chain of index pages; a row of the index is the pointer of a data *)
(* page followed by the words of its bitmap.  A search hint,               *)
(* lowest_free_entry, says in which data page to begin.                    *)
(*                                                                         *)
(* The index of a size is one sequence of cells: cell k of the sequence is *)
(* entry k % (MaxIdx - 1) + 1 of index page k \div (MaxIdx - 1), which is  *)
(* the order confirm_idx_page walks them in.  Data pages of two sizes are  *)
(* never the same, as pg_alloc hands out fresh pages.                      *)
(***************************************************************************)
EXTENDS Integers, FiniteSets

CONSTANTS
    PAGE,       \* KERNEL_PAGE_SIZE, 4096 in the code
    HEADER,     \* bytes at the start of a data page, 64 in the code
    WORD,       \* bits in a word, 64 in the code
    BYTES,      \* bytes in a word, 8 in the code
    Sizes,      \* the sizes callers ask for
    CellBound   \* bound: cells of one index

ASSUME SlabAssumption ==
    /\ {PAGE, HEADER, WORD, BYTES, CellBound} \subseteq Nat \ {0}
    /\ HEADER < PAGE
    /\ PAGE > 2 * BYTES
    /\ Sizes \subseteq Nat

MaxIdx == (PAGE - BYTES) \div BYTES             \* max_idx_page_bitmap_entrys

\* The rounding of mem_alloc: compressed_size, and pow2_size = 2^compressed_size.
compressed_size(size) ==
    CHOOSE c \in 0..size : /\ 2^c >= size
                           /\ c > 0 => 2^(c - 1) < size

TooLarge(size) == 2^compressed_size(size) >= PAGE

Classes == {compressed_size(size) : size \in {s \in Sizes : s # 0 /\ ~TooLarge(s)}}

max_cnt_per_page(c) == (PAGE - HEADER) \div 2^c

\* Cells a row takes in the index: mem_alloc's loop visits a cell per object.
RowStride(c) == max_cnt_per_page(c) + 1

\* Cells a row takes where mem_alloc looks for the hint and where mem_free looks
\* for the bit: ROUND_MOD_UP(cnt, 64) / 8 + 1.
RowSize(c) == (((max_cnt_per_page(c) + WORD - 1) \div WORD) * WORD) \div BYTES + 1

Cells == 0..CellBound-1
NoPage == -1

Objects == {<<c, cell, entry>> \in Classes \X Cells \X (0..PAGE-1) :
                entry < max_cnt_per_page(c)}

VARIABLES
    page_num,           \* page_num[c][cell]: header[1] of the data page it points to
    bits,               \* bits[c][cell]: the one bits of a bitmap word
    idx_pages,          \* index pages of each size
    lowest_free_entry,
    held,               \* the objects callers own
    panic,
    refused             \* the object that PANIC was about, if it was in mem_free

index == <<page_num, bits, idx_pages, lowest_free_entry>>
vars == <<index, held, panic, refused>>

Panics == {"NONE", "ATTEMPT_ALLOCATE_ZERO_BYTES", "ATTEMPT_ALLOCATE_LARGER_THEN_PAGE",
           "ALLOCATOR_RELEASE_NO_idx_TABLE_LEAF", "ALLOCATOR_RELEASE_FREE",
           "INDEX_CORRUPT"}      \* not a PANIC: a word used as a pointer, or changed as one

Init ==
    /\ page_num = [c \in Classes |-> [cell \in Cells |-> NoPage]]
    /\ bits = [c \in Classes |-> [cell \in Cells |-> {}]]
    /\ idx_pages = [c \in Classes |-> 0]
    /\ lowest_free_entry = [c \in Classes |-> 0]
    /\ held = {}
    /\ panic = "NONE"
    /\ refused = {}

-----------------------------------------------------------------------------
(* mem_alloc *)

\* The number given to the first data page that is looked at.
bitmap_num(c) == lowest_free_entry[c] \div max_cnt_per_page(c)

\* Where it is looked for: entry idx_entry + 1 of index page idx_entry.
StartCell(c) ==
    LET idx_entry == (bitmap_num(c) * RowSize(c)) \div MaxIdx
    IN  idx_entry * (MaxIdx - 1) + (idx_entry % MaxIdx)

\* The word and the bit of an object of the data page at cell.
BitSet(c, cell, entry) == (entry % WORD) \in bits[c][cell + 1 + (entry \div WORD)]

RowFull(c, cell) == \A entry \in 0..max_cnt_per_page(c)-1 : BitSet(c, cell, entry)

\* Mutant of LowestFree: any free object is taken.
LowestFreeAny(c, cell, entry) == ~BitSet(c, cell, entry)

LowestFree(c, cell, entry) ==
    /\ ~BitSet(c, cell, entry)
    /\ \A e \in 0..entry-1 : BitSet(c, cell, e)

RaiseHint(c, num) ==
    IF lowest_free_entry[c] < num
      THEN lowest_free_entry' = [lowest_free_entry EXCEPT ![c] = num]
      ELSE UNCHANGED lowest_free_entry

\* Mutant of Take: the bit is not set.
TakeKeepBit(c, cell, entry, num) ==
    LET word == cell + 1 + (entry \div WORD)
    IN  /\ UNCHANGED bits
        /\ page_num' = [page_num EXCEPT ![c][cell] = IF @ = NoPage THEN num ELSE @]
        /\ idx_pages' = [idx_pages EXCEPT ![c] =
                           IF @ > word \div (MaxIdx - 1) THEN @
                                                         ELSE (word \div (MaxIdx - 1)) + 1]
        /\ RaiseHint(c, max_cnt_per_page(c) * num + entry)
        /\ held' = held \union {<<c, cell, entry>>}

\* An object of the data page at cell, which the scan reached as number num.
Take(c, cell, entry, num) ==
    LET word == cell + 1 + (entry \div WORD)
    IN  /\ bits' = [bits EXCEPT ![c][word] = @ \union {entry % WORD}]
        /\ page_num' = [page_num EXCEPT ![c][cell] = IF @ = NoPage THEN num ELSE @]
        /\ idx_pages' = [idx_pages EXCEPT ![c] =
                           IF @ > word \div (MaxIdx - 1) THEN @
                                                         ELSE (word \div (MaxIdx - 1)) + 1]
        /\ RaiseHint(c, max_cnt_per_page(c) * num + entry)
        /\ held' = held \union {<<c, cell, entry>>}

\* The hint makes rows begin at other cells than the rows before them did: a cell
\* is then read as a pointer where a word was written, or the other way round.
RowMixed(c, cell) ==
    \/ bits[c][cell] # {}
    \/ \E entry \in 0..max_cnt_per_page(c)-1 :
          page_num[c][cell + 1 + (entry \div WORD)] # NoPage

\* The scan from the hinted data page on, a row at a time.
Scan(c) ==
    \E row \in 0..CellBound :
        LET cell(r) == StartCell(c) + r * RowStride(c)
        IN  /\ cell(row + 1) <= CellBound
            /\ \A r \in 0..row-1 : ~RowMixed(c, cell(r)) /\ RowFull(c, cell(r))
            /\ IF RowMixed(c, cell(row))
                 THEN panic' = "INDEX_CORRUPT" /\ UNCHANGED <<index, held>>
                 ELSE /\ \E entry \in 0..max_cnt_per_page(c)-1 :
                           /\ LowestFree(c, cell(row), entry)
                           /\ Take(c, cell(row), entry, bitmap_num(c) + row)
                      /\ UNCHANGED panic

mem_alloc(size) ==
    /\ panic = "NONE"
    /\ IF size = 0
         THEN panic' = "ATTEMPT_ALLOCATE_ZERO_BYTES" /\ UNCHANGED <<index, held>>
       ELSE IF TooLarge(size)
         THEN panic' = "ATTEMPT_ALLOCATE_LARGER_THEN_PAGE" /\ UNCHANGED <<index, held>>
       ELSE Scan(compressed_size(size))
    /\ UNCHANGED refused

-----------------------------------------------------------------------------
(* mem_free *)

\* The bit of an object as mem_free counts it: index page, entry in it, bit.
bitmap_entry_num(o) == (o[3] \div WORD) + page_num[o[1]][o[2]] * RowSize(o[1]) + 1
idx_table_num(o) == bitmap_entry_num(o) \div MaxIdx
idx_table_postion(o) == (bitmap_entry_num(o) % MaxIdx) + 1
FreeCell(o) == idx_table_num(o) * (MaxIdx - 1) + idx_table_postion(o) - 1

\* Entry MaxIdx of an index page is never written.
FreeBitSet(o) ==
    /\ idx_table_postion(o) < MaxIdx
    /\ FreeCell(o) \in Cells
    /\ (o[3] % WORD) \in bits[o[1]][FreeCell(o)]

\* What is looked at may be the pointer of a data page, whose bits below the page
\* size are zero and whose others may be one.
FreeOutcomes(o) ==
    IF /\ FreeCell(o) \in Cells
       /\ page_num[o[1]][FreeCell(o)] # NoPage
       /\ 2^(o[3] % WORD) >= PAGE
      THEN {"ALLOCATOR_RELEASE_FREE", "INDEX_CORRUPT"}
      ELSE {"ALLOCATOR_RELEASE_FREE"}

LowerHint(c, num) ==
    IF lowest_free_entry[c] > num
      THEN lowest_free_entry' = [lowest_free_entry EXCEPT ![c] = num]
      ELSE UNCHANGED lowest_free_entry

\* o is any object of a data page, owned or not.
mem_free(o) ==
    /\ panic = "NONE"
    /\ page_num[o[1]][o[2]] # NoPage
    /\ IF idx_table_num(o) >= idx_pages[o[1]]
         THEN /\ panic' = "ALLOCATOR_RELEASE_NO_idx_TABLE_LEAF"
              /\ refused' = {o}
              /\ UNCHANGED <<index, held>>
       ELSE IF ~FreeBitSet(o)
         THEN /\ panic' \in FreeOutcomes(o)
              /\ refused' = {o}
              /\ UNCHANGED <<index, held>>
       ELSE /\ bits' = [bits EXCEPT ![o[1]][FreeCell(o)] = @ \ {o[3] % WORD}]
            /\ LowerHint(o[1], max_cnt_per_page(o[1]) * page_num[o[1]][o[2]] + o[3])
            /\ held' = held \ {o}
            /\ UNCHANGED <<page_num, idx_pages, panic, refused>>

freeze_system ==
    /\ panic # "NONE"
    /\ UNCHANGED vars

Next ==
    \/ \E size \in Sizes : mem_alloc(size)
    \/ \E o \in Objects : mem_free(o)
    \/ freeze_system

Spec == Init /\ [][Next]_vars

\* The same while only objects of the first data page of a size are given back.
NextFirstPage ==
    \/ \E size \in Sizes : mem_alloc(size)
    \/ \E o \in Objects : o[2] = 0 /\ mem_free(o)
    \/ freeze_system

SpecFirstPage == Init /\ [][NextFirstPage]_vars

-----------------------------------------------------------------------------
(* Properties *)

\* Every variable stays in its range; bits are set only inside index pages that
\* exist.
TypeOK ==
    /\ page_num \in [Classes -> [Cells -> Nat \union {NoPage}]]
    /\ bits \in [Classes -> [Cells -> SUBSET (0..WORD-1)]]
    /\ idx_pages \in [Classes -> Nat]
    /\ lowest_free_entry \in [Classes -> Nat]
    /\ held \subseteq Objects
    /\ panic \in Panics
    /\ refused \subseteq Objects
    /\ \A c \in Classes, cell \in Cells :
          page_num[c][cell] # NoPage \/ bits[c][cell] # {} =>
              cell \div (MaxIdx - 1) < idx_pages[c]

OwnBit(o) == <<o[1], o[2] + 1 + (o[3] \div WORD), o[3] % WORD>>

\* A bit of the index is set for every object a caller owns and for nothing else,
\* and no two objects share one: so no object is handed out twice
\* (allocator.c:152, 222).
BitsMatchOwners ==
    /\ {b \in Classes \X Cells \X (0..WORD-1) : b[3] \in bits[b[1]][b[2]]}
          = {OwnBit(o) : o \in held}
    /\ \A o, u \in held : OwnBit(o) = OwnBit(u) => o = u

FirstPageObjects == {o \in Objects : o[2] = 0}
EarlierObject(o, u) == o[1] = u[1] /\ o[3] < u[3]

Pool == INSTANCE FirstFitPool WITH
            Frames    <- FirstPageObjects,
            Locations <- Objects,
            Before    <- EarlierObject,
            inUse     <- held \intersect FirstPageObjects,
            halted    <- (refused # {})

\* The first data page of each size is a pool that hands out its lowest free
\* object, whatever happens in the pages after it ("make sure it returns in same
\* order as before", tests/quick/allocator.c:82).
ImplementsPool == Pool!Spec

-----------------------------------------------------------------------------
(* What tests of the repository say, or its notes leave open, and the code does not do *)

\* The hint hides no free object: the scan begins at or before every data page that
\* has one.  "There is a bug with allocator todo with not reusing sections"
\* (implementation_note.md:69): a data page is numbered from the hint, the hint from
\* that number, so it runs ahead of the pages there are (allocator.c:103-117, 154-158).
NoFreeObjectHidden ==
    \A c \in Classes, cell \in Cells :
        page_num[c][cell] # NoPage /\ cell < StartCell(c) => RowFull(c, cell)

\* mem_free takes back every object a caller owns (tests/deep/allocator.c:107-111
\* frees objects of several data pages: "On next assign these same values should
\* be set").
OwnedObjectsCanBeFreed == refused \intersect held = {}

\* An object that is owned is not handed out again ("make sure values are the
\* same", tests/quick/allocator.c:63, after writing to every object).
NeverHandedOutTwice ==
    [][(\E size \in Sizes : mem_alloc(size)) /\ panic' = "NONE" => held' # held]_vars
=============================================================================
