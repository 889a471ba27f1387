----------------------------- MODULE PagerProof -----------------------------
(* Proofs about pg_alloc and pg_free, for every set of disjoint regions,     *)
(* every word and page size, and every place where a bitmap ends: what is    *)
(* claimed of a region whose bitmap ends before its pages holds whatever the *)
(* pages of the other regions do to theirs.                                  *)
EXTENDS Pager, TLAPS

-----------------------------------------------------------------------------
(* Page numbers, words and bits *)

\* A page number splits into its word and its bit (pager.c:285-287).
LEMMA DivisionByWord ==
    ASSUME NEW n \in Nat
    PROVE  /\ n \div WORD \in Nat
           /\ n % WORD \in 0..WORD-1
           /\ n = (n \div WORD) * WORD + (n % WORD)
  BY ConstantsAssumption

\* Pages in order lie in words in order.
LEMMA DivMonotone ==
    ASSUME NEW m \in Nat, NEW n \in Nat, m <= n
    PROVE  m \div WORD <= n \div WORD
  BY ConstantsAssumption

\* The word of the page the scan computes is the word it found (pager.c:246).
LEMMA WordOf ==
    ASSUME NEW j \in Nat, NEW b \in 0..WORD-1
    PROVE  /\ j * WORD + b \in Nat
           /\ (j * WORD + b) \div WORD = j
  BY ConstantsAssumption

\* A later word starts at a later page (pager.c:246).
LEMMA ProductMonotone ==
    ASSUME NEW a \in Int, NEW b \in Int, a <= b
    PROVE  /\ a * WORD \in Int
           /\ b * WORD \in Int
           /\ a * WORD <= b * WORD
  BY ConstantsAssumption

\* Region i has a natural number of whole words, and they fit in its pages.
LEMMA WordsOfRegion ==
    ASSUME NEW i \in Regions
    PROVE  /\ PageCnt[i] \in Nat
           /\ BasePage[i] \in Nat \ {0}
           /\ Words(i) \in Nat
           /\ Words(i) * WORD \in Nat
           /\ Words(i) * WORD <= PageCnt[i]
  <1>1. PageCnt[i] \in Nat /\ BasePage[i] \in Nat \ {0}
    BY ConstantsAssumption
  <1>2. WORD \in Nat \ {0}
    BY ConstantsAssumption
  <1>3. /\ PageCnt[i] \div WORD \in Nat
        /\ PageCnt[i] = (PageCnt[i] \div WORD) * WORD + (PageCnt[i] % WORD)
        /\ PageCnt[i] % WORD \in 0..WORD-1
    BY <1>1, DivisionByWord
  <1>4. QED
    BY <1>1, <1>2, <1>3 DEF Words

\* A bit of a word of the region is a page the scan can reach.
LEMMA BitIsUsable ==
    ASSUME NEW i \in Regions, NEW j \in 0..Words(i)-1, NEW b \in 0..WORD-1
    PROVE  j * WORD + b \in Usable(i)
  <1>1. j + 1 <= Words(i) /\ Words(i) \in Nat /\ j \in Nat
    BY WordsOfRegion
  <1>2. (j + 1) * WORD <= Words(i) * WORD /\ Words(i) * WORD \in Nat
    BY <1>1, ProductMonotone, WordsOfRegion
  <1>3. (j + 1) * WORD = j * WORD + WORD
    BY <1>1, ConstantsAssumption
  <1>4. QED
    BY <1>1, <1>2, <1>3, WordOf, ConstantsAssumption DEF Usable

\* A page the scan can reach is a bit of one of the words it looks at.
LEMMA UsableHasWord ==
    ASSUME NEW i \in Regions, NEW p \in Usable(i)
    PROVE  /\ p \in Nat
           /\ p < PageCnt[i]
           /\ p \div WORD \in 0..Words(i)-1
           /\ p % WORD \in 0..WORD-1
           /\ p = (p \div WORD) * WORD + (p % WORD)
  <1>1. Words(i) \in Nat /\ Words(i) * WORD \in Nat /\ Words(i) * WORD <= PageCnt[i]
        /\ PageCnt[i] \in Nat
    BY WordsOfRegion
  <1>2. p \in Nat /\ p < Words(i) * WORD
    BY <1>1 DEF Usable
  <1>3. /\ p \div WORD \in Nat
        /\ p % WORD \in 0..WORD-1
        /\ p = (p \div WORD) * WORD + (p % WORD)
    BY <1>2, DivisionByWord
  <1>4. p \div WORD < Words(i)
    <2>1. SUFFICES ASSUME Words(i) <= p \div WORD PROVE FALSE
      BY <1>1, <1>3
    <2>2. Words(i) * WORD <= (p \div WORD) * WORD /\ (p \div WORD) * WORD \in Int
      BY <1>1, <1>3, <2>1, ProductMonotone
    <2>3. QED
      BY <1>1, <1>2, <1>3, <2>2, ConstantsAssumption
  <1>5. QED
    BY <1>1, <1>2, <1>3, <1>4

\* If the scan passes over the word of a page that is not before the hint, the
\* page is in use.
LEMMA PassedWordIsFull ==
    ASSUME TypeOK,
           NEW i \in Regions, NEW p \in Usable(i),
           ~Earlier(i, p, last_free_bitmap, last_free_page_num),
           ~HasRoom(i, p \div WORD)
    PROVE  p \in bitmap[i]
  <1>1. /\ p \in Nat /\ p \div WORD \in 0..Words(i)-1 /\ p % WORD \in 0..WORD-1
        /\ p = (p \div WORD) * WORD + (p % WORD)
    BY UsableHasWord
  <1>2. last_free_bitmap \in Regions /\ last_free_page_num \in Nat
    BY DEF TypeOK
  <1>3. i \in last_free_bitmap..RegionCnt-1
    BY <1>2, ConstantsAssumption DEF Earlier, Regions
  <1>4. StartWord(i) \in Nat /\ StartWord(i) <= p \div WORD
    <2>1. CASE i = last_free_bitmap
      <3>1. last_free_page_num <= p
        BY <1>1, <1>2, <2>1 DEF Earlier, Regions
      <3>2. QED
        BY <1>1, <1>2, <2>1, <3>1, DivMonotone, DivisionByWord DEF StartWord
    <2>2. CASE i # last_free_bitmap
      BY <1>1, <2>2 DEF StartWord
    <2>3. QED  BY <2>1, <2>2
  <1>5. p \div WORD \in StartWord(i)..Words(i)-1
    BY <1>1, <1>4, WordsOfRegion
  <1>6. WordFull(i, p \div WORD)
    BY <1>3, <1>5 DEF HasRoom
  <1>7. QED
    BY <1>1, <1>6 DEF WordFull

-----------------------------------------------------------------------------
(* The inductive invariant *)

IInv ==
    /\ TypeOK
    /\ NoFreePageBelowHint
    /\ BitmapsMatchOwners
    /\ OutOfPagesOnlyWhenExhausted

\* A region whose bitmap is apart stores none of it in its pages.
LEMMA ApartStoresNothing ==
    ASSUME NEW i \in ApartRegions, NEW p \in Nat
    PROVE  i \in Regions /\ StoredIn(i, p) = {}
  <1>1. i \in Regions /\ PageCnt[i] <= HeadBits[i]
    BY DEF ApartRegions
  <1>2. PageCnt[i] \in Nat /\ HeadBits[i] \in Nat
    BY <1>1, ConstantsAssumption
  <1>3. QED
    BY <1>1, <1>2 DEF StoredIn

\* A page the scan can reach has its bit in the region's bitmap.
LEMMA UsableInRange ==
    ASSUME NEW i \in Regions, NEW p \in Usable(i)
    PROVE  p \in 0..PageCnt[i]-1
  BY UsableHasWord, WordsOfRegion

\* A frame belongs to one region only.
LEMMA FrameHasOneRegion ==
    ASSUME NEW i \in Regions, NEW p \in Nat, p < PageCnt[i],
           NEW k \in Regions, NEW q \in Nat, q < PageCnt[k],
           BasePage[i] + p = BasePage[k] + q
    PROVE  i = k /\ p = q
  <1>1. /\ PageCnt[i] \in Nat /\ BasePage[i] \in Nat
        /\ PageCnt[k] \in Nat /\ BasePage[k] \in Nat
    BY WordsOfRegion
  <1>2. i = k
    BY <1>1, RegionsDisjoint
  <1>3. QED
    BY <1>1, <1>2

\* The empty bitmaps of pager_init satisfy the inductive invariant.
LEMMA InitIInv == Init => IInv
  <1>1. SUFFICES ASSUME Init PROVE IInv
    OBVIOUS
  <1>2. 0 \in Regions
    BY ConstantsAssumption DEF Regions
  <1>3. TypeOK
    BY <1>1, <1>2 DEF Init, TypeOK, Panics, ApartRegions
  <1>4. NoFreePageBelowHint
    <2>1. ASSUME NEW i \in Regions, NEW p \in Usable(i) PROVE ~Earlier(i, p, 0, 0)
      BY UsableHasWord DEF Earlier, Regions
    <2>2. QED
      BY <1>1, <2>1 DEF Init, NoFreePageBelowHint, ApartRegions
  <1>5. BitmapsMatchOwners
    BY <1>1 DEF Init, BitmapsMatchOwners, ApartRegions
  <1>6. OutOfPagesOnlyWhenExhausted
    BY <1>1 DEF Init, OutOfPagesOnlyWhenExhausted
  <1>7. QED
    BY <1>3, <1>4, <1>5, <1>6 DEF IInv

-----------------------------------------------------------------------------
(* pg_alloc *)

\* The page the scan found: it is free, reachable, and nothing before it is free.
LEMMA ScanFindsFirstFree ==
    ASSUME TypeOK, NoFreePageBelowHint,
           NEW i \in Regions, NEW j \in 0..Words(i)-1, NEW b \in 0..WORD-1,
           ScanStopsAt(i, j), LowestZero(i, j, b)
    PROVE  /\ j * WORD + b \in Usable(i)
           /\ j * WORD + b \notin bitmap[i]
           /\ \A k \in ApartRegions : \A q \in Usable(k) :
                 Earlier(k, q, i, j * WORD + b) => q \in bitmap[k]
  <1>1. j * WORD + b \in Usable(i) /\ j * WORD + b \notin bitmap[i]
    BY BitIsUsable DEF LowestZero
  <1>2. ASSUME NEW k \in ApartRegions, NEW q \in Usable(k), Earlier(k, q, i, j * WORD + b)
        PROVE  q \in bitmap[k]
    <2>0. k \in Regions
      BY DEF ApartRegions
    <2>1. CASE Earlier(k, q, last_free_bitmap, last_free_page_num)
      BY <2>1 DEF NoFreePageBelowHint
    <2>2. CASE ~Earlier(k, q, last_free_bitmap, last_free_page_num)
      <3>1. /\ q \in Nat /\ q \div WORD \in 0..Words(k)-1 /\ q % WORD \in 0..WORD-1
            /\ q = (q \div WORD) * WORD + (q % WORD)
        BY <2>0, UsableHasWord
      <3>2. j \in Nat /\ j * WORD + b \in Nat /\ (j * WORD + b) \div WORD = j
        BY WordOf, WordsOfRegion
      <3>3. last_free_bitmap \in Regions /\ last_free_page_num \in Nat
        BY DEF TypeOK
      <3>4. CASE k < i
        <4>1. k \in last_free_bitmap..i-1
          BY <2>0, <2>2, <3>3, <3>4 DEF Earlier, Regions
        <4>2. ~HasRoom(k, q \div WORD)
          BY <3>1, <4>1 DEF ScanStopsAt
        <4>3. QED
          BY <2>0, <2>2, <4>2, PassedWordIsFull
      <3>5. CASE k = i /\ q < j * WORD + b
        <4>1. q \div WORD <= j
          BY <3>1, <3>2, <3>5, DivMonotone
        <4>2. CASE q \div WORD = j
          <5>1. q % WORD \in 0..b-1
            BY <3>1, <3>2, <3>5, <4>2, ConstantsAssumption
          <5>2. QED
            BY <3>1, <3>5, <4>2, <5>1 DEF LowestZero
        <4>3. CASE q \div WORD # j
          <5>1. ~HasRoom(i, q \div WORD)
            <6>1. CASE q \div WORD \in StartWord(i)..j-1
              BY <6>1 DEF ScanStopsAt
            <6>2. CASE q \div WORD \notin StartWord(i)..j-1
              <7>1. StartWord(i) \in Nat
                BY <3>3, DivisionByWord DEF StartWord
              <7>2. ~(StartWord(i) <= q \div WORD)
                BY <3>1, <3>2, <4>1, <4>3, <6>2, <7>1
              <7>3. QED
                BY <7>1, <7>2, <3>1, WordsOfRegion DEF HasRoom
            <6>3. QED  BY <6>1, <6>2
          <5>2. QED
            BY <2>2, <3>5, <5>1, PassedWordIsFull
        <4>4. QED  BY <4>2, <4>3
      <3>6. QED
        BY <1>2, <3>4, <3>5 DEF Earlier
    <2>3. QED  BY <2>1, <2>2
  <1>3. QED  BY <1>1, <1>2

\* pg_alloc keeps the inductive invariant when it finds a page: the hint moves to
\* the first free page, so everything before it stays used (pager.c:247-249).
LEMMA AllocIInv == IInv /\ pg_alloc => IInv'
  <1>1. SUFFICES ASSUME IInv, pg_alloc PROVE IInv'
    OBVIOUS
  <1>2. PICK i \in Regions : \E j \in 0..Words(i)-1 :
          /\ ScanStopsAt(i, j)
          /\ \E b \in 0..WORD-1 : LowestZero(i, j, b) /\ TakePage(i, j * WORD + b)
    BY <1>1 DEF pg_alloc
  <1>3. PICK j \in 0..Words(i)-1 :
          /\ ScanStopsAt(i, j)
          /\ \E b \in 0..WORD-1 : LowestZero(i, j, b) /\ TakePage(i, j * WORD + b)
    BY <1>2
  <1>4. PICK b \in 0..WORD-1 : LowestZero(i, j, b) /\ TakePage(i, j * WORD + b)
    BY <1>3
  <1>5. PICK page : page = j * WORD + b
    OBVIOUS
  <1>6. /\ page \in Usable(i)
        /\ page \notin bitmap[i]
        /\ \A k \in ApartRegions : \A q \in Usable(k) :
              Earlier(k, q, i, page) => q \in bitmap[k]
    BY <1>1, <1>3, <1>4, <1>5, ScanFindsFirstFree DEF IInv
  <1>7. /\ last_free_bitmap' = i
        /\ last_free_page_num' = page
        /\ bitmap' = [bitmap EXCEPT ![i] = (@ \union {page}) \ StoredIn(i, page)]
        /\ held' = held \union {BasePage[i] + page}
        /\ panic = "NONE" /\ panic' = panic /\ refused' = refused
    BY <1>1, <1>4, <1>5 DEF TakePage, pg_alloc
  <1>8. page \in Nat /\ BasePage[i] + page \in Nat /\ page \in 0..PageCnt[i]-1
    BY <1>6, UsableHasWord, UsableInRange, WordsOfRegion
  <1>9. TypeOK /\ bitmap \in [Regions -> SUBSET Nat]
    BY <1>1 DEF IInv, TypeOK
  <1>10. ASSUME NEW k \in ApartRegions
         PROVE  /\ k \in Regions
                /\ bitmap'[k] = IF k = i THEN bitmap[k] \union {page} ELSE bitmap[k]
    BY <1>7, <1>8, <1>9, ApartStoresNothing
  <1>11. TypeOK'
    <2>1. bitmap' \in [Regions -> SUBSET Nat]
      BY <1>7, <1>8, <1>9
    <2>2. ASSUME NEW k \in Regions PROVE bitmap'[k] \subseteq 0..PageCnt[k]-1
      BY <1>7, <1>8, <1>9 DEF TypeOK
    <2>3. ASSUME NEW k \in ApartRegions PROVE bitmap'[k] \subseteq Usable(k)
      BY <1>6, <1>9, <1>10 DEF TypeOK
    <2>4. QED
      BY <1>7, <1>8, <1>9, <2>1, <2>2, <2>3 DEF TypeOK, Usable, Words, ApartRegions
  <1>12. NoFreePageBelowHint'
    <2>1. SUFFICES ASSUME NEW k \in ApartRegions, NEW q \in Usable(k), Earlier(k, q, i, page)
                   PROVE  q \in bitmap'[k]
      BY <1>7 DEF NoFreePageBelowHint, Usable, Words, Earlier, ApartRegions
    <2>2. q \in bitmap[k]
      BY <1>6, <2>1
    <2>3. QED
      BY <1>10, <2>2
  <1>13. BitmapsMatchOwners'
    <2>1. ASSUME NEW k \in ApartRegions
          PROVE  bitmap'[k] = {q \in 0..PageCnt[k]-1 : BasePage[k] + q \in held'}
      <3>1. k \in Regions /\ PageCnt[k] \in Nat
        BY <1>10, WordsOfRegion
      <3>2. bitmap[k] = {q \in 0..PageCnt[k]-1 : BasePage[k] + q \in held}
        BY <1>1 DEF IInv, BitmapsMatchOwners
      <3>3. ASSUME NEW q \in 0..PageCnt[k]-1
            PROVE  BasePage[k] + q = BasePage[i] + page <=> k = i /\ q = page
        BY <1>8, <3>1, WordsOfRegion, FrameHasOneRegion
      <3>4. QED
        BY <1>7, <1>8, <1>10, <3>2, <3>3
    <2>2. QED
      BY <2>1 DEF BitmapsMatchOwners, ApartRegions
  <1>14. OutOfPagesOnlyWhenExhausted'
    BY <1>7 DEF OutOfPagesOnlyWhenExhausted
  <1>15. QED
    BY <1>11, <1>12, <1>13, <1>14 DEF IInv

\* pg_alloc keeps the inductive invariant when it finds none: with no free page
\* before the hint, no room after it means no room at all (pager.c:260).
LEMMA AllocNoneIInv == IInv /\ pg_alloc_none => IInv'
  <1>1. SUFFICES ASSUME IInv, pg_alloc_none PROVE IInv'
    OBVIOUS
  <1>2. ASSUME NEW i \in ApartRegions, NEW p \in Usable(i)
        PROVE  BasePage[i] + p \in held
    <2>0. i \in Regions
      BY DEF ApartRegions
    <2>1. p \in bitmap[i]
      <3>1. CASE Earlier(i, p, last_free_bitmap, last_free_page_num)
        BY <1>1, <3>1 DEF IInv, NoFreePageBelowHint
      <3>2. CASE ~Earlier(i, p, last_free_bitmap, last_free_page_num)
        <4>1. ~HasRoom(i, p \div WORD)
          BY <1>1, <2>0, UsableHasWord DEF pg_alloc_none
        <4>2. QED
          BY <1>1, <2>0, <3>2, <4>1, PassedWordIsFull DEF IInv
      <3>3. QED  BY <3>1, <3>2
    <2>2. QED
      BY <1>1, <2>1 DEF IInv, BitmapsMatchOwners
  <1>3. /\ UNCHANGED <<bitmap, last_free_bitmap, last_free_page_num, held, refused>>
        /\ panic' = "OUT_OF_FREE_PAGES"
    BY <1>1 DEF pg_alloc_none, PANIC
  <1>4. TypeOK' /\ NoFreePageBelowHint' /\ BitmapsMatchOwners'
    BY <1>1, <1>3 DEF IInv, TypeOK, NoFreePageBelowHint, BitmapsMatchOwners, Panics,
                      Usable, Words, ApartRegions
  <1>5. OutOfPagesOnlyWhenExhausted'
    BY <1>2, <1>3 DEF OutOfPagesOnlyWhenExhausted, Usable, Words, ApartRegions
  <1>6. QED
    BY <1>4, <1>5 DEF IInv

-----------------------------------------------------------------------------
(* pg_free *)

\* A page given back leaves the invariant true: the hint is moved back exactly
\* when the page lies before it.
LEMMA ReleaseIInv ==
    ASSUME IInv, panic = "NONE", NEW location \in Nat, NEW i \in Regions,
           BasePage[i] <= location, ReleasePage(i, location)
    PROVE  IInv'
  <1>1. PICK page : page = location - BasePage[i]
    OBVIOUS
  <1>2. /\ BasePage[i] \in Nat /\ page \in Nat /\ location = BasePage[i] + page
        /\ page < PageCnt[i]
    BY <1>1, WordsOfRegion DEF ReleasePage
  <1>3. /\ page \in bitmap[i]
        /\ bitmap' = [bitmap EXCEPT ![i] = @ \ {page}]
        /\ LowerHint(i, page)
        /\ held' = held \ {location}
        /\ panic' = "NONE" /\ refused' = refused
    BY <1>1 DEF ReleasePage
  <1>4. TypeOK /\ bitmap \in [Regions -> SUBSET Nat]
    BY DEF IInv, TypeOK
  <1>5. TypeOK'
    <2>1. bitmap' \in [Regions -> SUBSET Nat]
      BY <1>3, <1>4
    <2>2. ASSUME NEW k \in Regions PROVE bitmap'[k] \subseteq bitmap[k]
      BY <1>3, <1>4
    <2>3. last_free_bitmap' \in Regions /\ last_free_page_num' \in Nat
      BY <1>2, <1>3, <1>4 DEF TypeOK, LowerHint
    <2>4. held' \subseteq Nat /\ panic' \in Panics /\ refused' \subseteq Nat
      BY <1>3, <1>4 DEF TypeOK, Panics
    <2>5. QED
      BY <1>4, <2>1, <2>2, <2>3, <2>4 DEF TypeOK, Usable, Words, ApartRegions
  <1>6. NoFreePageBelowHint'
    <2>1. SUFFICES ASSUME NEW k \in ApartRegions, NEW q \in Usable(k),
                          Earlier(k, q, last_free_bitmap', last_free_page_num')
                   PROVE  q \in bitmap'[k]
      BY DEF NoFreePageBelowHint, Earlier, Usable, Words, ApartRegions
    <2>2. k \in Regions /\ q \in Nat /\ i \in Int /\ k \in Int
      BY UsableHasWord DEF Regions, ApartRegions
    <2>3. last_free_bitmap \in Int /\ last_free_page_num \in Nat
      BY <1>4 DEF TypeOK, Regions
    <2>4. /\ Earlier(k, q, last_free_bitmap, last_free_page_num)
          /\ ~(k = i /\ q = page)
      BY <1>2, <1>3, <2>1, <2>2, <2>3 DEF LowerHint, Earlier
    <2>5. q \in bitmap[k]
      BY <2>4 DEF IInv, NoFreePageBelowHint
    <2>6. QED
      BY <1>3, <1>4, <2>2, <2>4, <2>5
  <1>7. BitmapsMatchOwners'
    <2>1. ASSUME NEW k \in ApartRegions
          PROVE  bitmap'[k] = {q \in 0..PageCnt[k]-1 : BasePage[k] + q \in held'}
      <3>1. k \in Regions /\ PageCnt[k] \in Nat
        BY WordsOfRegion DEF ApartRegions
      <3>2. bitmap[k] = {q \in 0..PageCnt[k]-1 : BasePage[k] + q \in held}
        BY DEF IInv, BitmapsMatchOwners
      <3>3. ASSUME NEW q \in 0..PageCnt[k]-1
            PROVE  BasePage[k] + q = location <=> k = i /\ q = page
        BY <1>2, <3>1, WordsOfRegion, FrameHasOneRegion
      <3>4. bitmap'[k] = IF k = i THEN bitmap[k] \ {page} ELSE bitmap[k]
        BY <1>3, <1>4, <3>1
      <3>5. QED
        BY <1>3, <3>2, <3>3, <3>4
    <2>2. QED
      BY <2>1 DEF BitmapsMatchOwners, ApartRegions
  <1>8. OutOfPagesOnlyWhenExhausted'
    BY <1>3 DEF OutOfPagesOnlyWhenExhausted
  <1>9. QED
    BY <1>5, <1>6, <1>7, <1>8 DEF IInv

\* A call of pg_free, whichever way it ends.
LEMMA FreeIInv ==
    ASSUME IInv, NEW location \in Locations, pg_free(location)
    PROVE  IInv'
  <1>1. location \in Nat
    BY ConstantsAssumption
  <1>2. CASE \E i \in Regions : ClosestRegion(location, i) /\ ReleasePage(i, location)
    BY <1>1, <1>2, ReleaseIInv DEF ClosestRegion, pg_free
  <1>3. CASE /\ FreePanic(location)
             /\ refused' = {location}
             /\ UNCHANGED <<bitmap, last_free_bitmap, last_free_page_num, held>>
    <2>1. panic' \in Panics /\ panic' # "OUT_OF_FREE_PAGES"
      BY <1>3 DEF FreePanic, PANIC, Panics
    <2>2. TypeOK' /\ NoFreePageBelowHint' /\ BitmapsMatchOwners'
      BY <1>1, <1>3, <2>1 DEF IInv, TypeOK, NoFreePageBelowHint, BitmapsMatchOwners,
                        Usable, Words, ApartRegions
    <2>3. OutOfPagesOnlyWhenExhausted'
      BY <2>1 DEF OutOfPagesOnlyWhenExhausted
    <2>4. QED  BY <2>2, <2>3 DEF IInv
  <1>4. QED
    BY <1>2, <1>3 DEF pg_free

-----------------------------------------------------------------------------
(* What the owner of a page writes in it *)

\* A write to a page changes no bitmap that is apart.
LEMMA StoreKeepsApart ==
    ASSUME TypeOK, NEW i \in Regions, NEW page \in 0..PageCnt[i]-1, StoreInPage(i, page)
    PROVE  /\ TypeOK'
           /\ \A k \in ApartRegions : bitmap'[k] = bitmap[k]
           /\ UNCHANGED <<last_free_bitmap, last_free_page_num, held, panic, refused>>
  <1>1. PICK bits \in SUBSET StoredIn(i, page) :
          bitmap' = [bitmap EXCEPT ![i] = (@ \ StoredIn(i, page)) \union bits]
    BY DEF StoreInPage
  <1>2. UNCHANGED <<last_free_bitmap, last_free_page_num, held, panic, refused>>
    BY DEF StoreInPage
  <1>3. PageCnt[i] \in Nat /\ page \in Nat
    BY ConstantsAssumption
  <1>4. bitmap \in [Regions -> SUBSET Nat] /\ StoredIn(i, page) \subseteq 0..PageCnt[i]-1
    BY DEF TypeOK, StoredIn
  <1>5. ASSUME NEW k \in ApartRegions PROVE bitmap'[k] = bitmap[k]
    BY <1>1, <1>3, <1>4, ApartStoresNothing
  <1>6. bitmap' \in [Regions -> SUBSET Nat]
    BY <1>1, <1>3, <1>4
  <1>7. ASSUME NEW k \in Regions PROVE bitmap'[k] \subseteq 0..PageCnt[k]-1
    BY <1>1, <1>4 DEF TypeOK
  <1>8. TypeOK'
    BY <1>2, <1>5, <1>6, <1>7 DEF TypeOK, Usable, Words, ApartRegions
  <1>9. QED
    BY <1>2, <1>5, <1>8

\* So it keeps the inductive invariant.
LEMMA StoreIInv ==
    ASSUME IInv, NEW i \in Regions, NEW page \in 0..PageCnt[i]-1, StoreInPage(i, page)
    PROVE  IInv'
  <1>1. /\ TypeOK'
        /\ \A k \in ApartRegions : bitmap'[k] = bitmap[k]
        /\ UNCHANGED <<last_free_bitmap, last_free_page_num, held, panic, refused>>
    BY StoreKeepsApart DEF IInv
  <1>2. NoFreePageBelowHint' /\ BitmapsMatchOwners' /\ OutOfPagesOnlyWhenExhausted'
    BY <1>1 DEF IInv, NoFreePageBelowHint, BitmapsMatchOwners, OutOfPagesOnlyWhenExhausted,
                Usable, Words, ApartRegions, Earlier
  <1>3. QED
    BY <1>1, <1>2 DEF IInv

-----------------------------------------------------------------------------
(* The theorems *)

\* IInv is inductive.
LEMMA NextIInv == IInv /\ [Next]_vars => IInv'
  <1>1. SUFFICES ASSUME IInv, [Next]_vars PROVE IInv'
    OBVIOUS
  <1>2. CASE pg_alloc
    BY <1>1, <1>2, AllocIInv
  <1>3. CASE pg_alloc_none
    BY <1>1, <1>3, AllocNoneIInv
  <1>4. CASE \E location \in Locations : pg_free(location)
    BY <1>1, <1>4, FreeIInv
  <1>5. CASE \E i \in Regions : \E page \in 0..PageCnt[i]-1 : StoreInPage(i, page)
    BY <1>1, <1>5, StoreIInv
  <1>6. CASE UNCHANGED vars
    BY <1>1, <1>6 DEF IInv, vars, TypeOK, NoFreePageBelowHint, BitmapsMatchOwners,
                      OutOfPagesOnlyWhenExhausted, Usable, Words, ApartRegions
  <1>7. QED
    BY <1>1, <1>2, <1>3, <1>4, <1>5, <1>6 DEF Next, freeze_system

\* The inductive invariant holds in every reachable state.
THEOREM SpecIInv == Spec => []IInv
  BY InitIInv, NextIInv, PTL DEF Spec

\* Every set bit of a region is one of its pages, one the scan can reach when the
\* bitmap is apart, and the hint stays in range.
THEOREM TypeCorrect == Spec => []TypeOK
  <1>1. IInv => TypeOK  BY DEF IInv
  <1>2. QED  BY <1>1, SpecIInv, PTL

\* The hint of pg_alloc never passes over a free page of a region whose bitmap is
\* apart, for any regions and any word size.
THEOREM HintIsSound == Spec => []NoFreePageBelowHint
  <1>1. IInv => NoFreePageBelowHint  BY DEF IInv
  <1>2. QED  BY <1>1, SpecIInv, PTL

\* A bitmap that ends before the pages of its region records exactly the frames
\* there that callers own, whatever other regions' pages are used for.
THEOREM OwnersAreRecorded == Spec => []BitmapsMatchOwners
  <1>1. IInv => BitmapsMatchOwners  BY DEF IInv
  <1>2. QED  BY <1>1, SpecIInv, PTL

\* The kernel stops for want of pages only when every reachable page of the regions
\* whose bitmap is apart is owned.
THEOREM OutOfPagesIsReal == Spec => []OutOfPagesOnlyWhenExhausted
  <1>1. IInv => OutOfPagesOnlyWhenExhausted  BY DEF IInv
  <1>2. QED  BY <1>1, SpecIInv, PTL

-----------------------------------------------------------------------------
(* The pager implements the page pool *)

\* A page of a region whose bitmap is apart is a frame of the pool, owned when its
\* bit is set.
LEMMA PoolFrame ==
    ASSUME BitmapsMatchOwners, NEW k \in ApartRegions, NEW q \in Usable(k)
    PROVE  /\ k \in Regions
           /\ BasePage[k] + q \in Frames
           /\ q \in bitmap[k] <=> BasePage[k] + q \in held
  <1>1. k \in Regions
    BY DEF ApartRegions
  <1>2. q \in 0..PageCnt[k]-1
    BY <1>1, UsableInRange
  <1>3. QED
    BY <1>1, <1>2 DEF Frames, BitmapsMatchOwners

\* A page of another region is no frame of the pool.
LEMMA NotPoolFrame ==
    ASSUME NEW i \in Regions \ ApartRegions, NEW p \in Nat, p < PageCnt[i]
    PROVE  BasePage[i] + p \notin Frames
  <1>1. ASSUME NEW k \in ApartRegions, NEW q \in Usable(k), BasePage[i] + p = BasePage[k] + q
        PROVE  FALSE
    <2>1. k \in Regions /\ k # i
      BY DEF ApartRegions
    <2>2. q \in Nat /\ q < PageCnt[k]
      BY <2>1, UsableHasWord
    <2>3. QED
      BY <1>1, <2>1, <2>2, FrameHasOneRegion
  <1>2. QED
    BY <1>1 DEF Frames

\* pg_alloc hands out the first free frame of the pool, or a page of a region that
\* is not part of it.
LEMMA AllocRefines ==
    IInv /\ pg_alloc => \/ \E f \in Frames : Pool!Alloc(f)
                        \/ UNCHANGED <<held \intersect Frames, panic, refused>>
  <1>1. SUFFICES ASSUME IInv, pg_alloc
                 PROVE  \/ \E f \in Frames : Pool!Alloc(f)
                        \/ UNCHANGED <<held \intersect Frames, panic, refused>>
    OBVIOUS
  <1>2. PICK i \in Regions : \E j \in 0..Words(i)-1 :
          /\ ScanStopsAt(i, j)
          /\ \E b \in 0..WORD-1 : LowestZero(i, j, b) /\ TakePage(i, j * WORD + b)
    BY <1>1 DEF pg_alloc
  <1>3. PICK j \in 0..Words(i)-1 :
          /\ ScanStopsAt(i, j)
          /\ \E b \in 0..WORD-1 : LowestZero(i, j, b) /\ TakePage(i, j * WORD + b)
    BY <1>2
  <1>4. PICK b \in 0..WORD-1 : LowestZero(i, j, b) /\ TakePage(i, j * WORD + b)
    BY <1>3
  <1>5. PICK page : page = j * WORD + b
    OBVIOUS
  <1>6. /\ page \in Usable(i)
        /\ page \notin bitmap[i]
        /\ \A k \in ApartRegions : \A q \in Usable(k) :
              Earlier(k, q, i, page) => q \in bitmap[k]
    BY <1>1, <1>3, <1>4, <1>5, ScanFindsFirstFree DEF IInv
  <1>7. PICK f : f = BasePage[i] + page
    OBVIOUS
  <1>8. /\ held' = held \union {f}
        /\ panic = "NONE" /\ panic' = panic /\ refused' = refused
    BY <1>1, <1>4, <1>5, <1>7 DEF TakePage, pg_alloc
  <1>9. page \in Nat /\ page < PageCnt[i]
    BY <1>6, UsableHasWord
  <1>10. CASE i \notin ApartRegions
    <2>1. f \notin Frames
      BY <1>7, <1>9, <1>10, NotPoolFrame
    <2>2. Frames' = Frames
      BY DEF Frames, Usable, Words, ApartRegions
    <2>3. QED
      BY <1>8, <2>1, <2>2
  <1>11. CASE i \in ApartRegions
    <2>1. f \in Frames /\ f \notin held
      BY <1>1, <1>6, <1>7, <1>11, PoolFrame DEF IInv
    <2>2. ASSUME NEW g \in Frames, FrameBefore(g, f)
          PROVE  g \in held
      <3>1. PICK h \in ApartRegions, k \in ApartRegions :
              \E p \in Usable(h) : \E q \in Usable(k) :
                g = BasePage[h] + p /\ f = BasePage[k] + q /\ Earlier(h, p, k, q)
        BY <2>2 DEF FrameBefore
      <3>2. PICK p \in Usable(h), q \in Usable(k) :
              g = BasePage[h] + p /\ f = BasePage[k] + q /\ Earlier(h, p, k, q)
        BY <3>1
      <3>3. k \in Regions /\ q \in Nat /\ q < PageCnt[k]
        BY UsableHasWord DEF ApartRegions
      <3>4. k = i /\ q = page
        BY <1>7, <1>9, <3>2, <3>3, FrameHasOneRegion
      <3>5. p \in bitmap[h]
        BY <1>6, <3>2, <3>4
      <3>6. QED
        BY <1>1, <3>2, <3>5, PoolFrame DEF IInv
    <2>3. Frames' = Frames
      BY DEF Frames, Usable, Words, ApartRegions
    <2>4. (held \intersect Frames)' = (held \intersect Frames) \union {f}
      BY <1>8, <2>1, <2>3
    <2>5. Pool!Alloc(f)
      BY <1>8, <2>1, <2>2, <2>4 DEF Pool!Alloc
    <2>6. QED
      BY <2>1, <2>5
  <1>12. QED
    BY <1>10, <1>11

\* pg_alloc panics only on an exhausted pool.
LEMMA AllocNoneRefines == IInv /\ pg_alloc_none => Pool!Exhausted
  <1>1. SUFFICES ASSUME IInv, pg_alloc_none PROVE Pool!Exhausted
    OBVIOUS
  <1>2. /\ IInv' /\ panic = "NONE" /\ panic' = "OUT_OF_FREE_PAGES"
        /\ held' = held /\ refused' = refused
    BY <1>1, AllocNoneIInv DEF pg_alloc_none, PANIC
  <1>3. Frames \subseteq held
    BY <1>2 DEF IInv, OutOfPagesOnlyWhenExhausted, Frames, Usable, Words, ApartRegions
  <1>4. Frames' = Frames
    BY DEF Frames, Usable, Words, ApartRegions
  <1>5. QED
    BY <1>2, <1>3, <1>4 DEF Pool!Exhausted

\* The region pg_free picks for an owned frame is the region the frame is in.
LEMMA ClosestIsOwn ==
    ASSUME NEW location \in Nat,
           NEW k \in Regions, NEW q \in Nat, q < PageCnt[k], location = BasePage[k] + q,
           NEW i \in Regions, ClosestRegion(location, i)
    PROVE  i = k
  <1>1. /\ PageCnt[i] \in Nat /\ BasePage[i] \in Nat
        /\ PageCnt[k] \in Nat /\ BasePage[k] \in Nat
    BY WordsOfRegion
  <1>2. BasePage[k] <= BasePage[i] /\ BasePage[i] <= location
    BY <1>1 DEF ClosestRegion
  <1>3. QED
    BY <1>1, <1>2, RegionsDisjoint

\* pg_free gives back a frame that is in use, panics on any other, or gives back a
\* page of a region that is not part of the pool.
LEMMA FreeRefines ==
    ASSUME IInv, NEW location \in Locations, pg_free(location)
    PROVE  \/ Pool!Free(location) \/ Pool!BadFree(location)
           \/ UNCHANGED <<held \intersect Frames, panic, refused>>
  <1>1. location \in Nat /\ panic = "NONE"
    BY ConstantsAssumption DEF pg_free
  <1>2. Frames' = Frames
    BY DEF Frames, Usable, Words, ApartRegions
  <1>3. CASE \E i \in Regions : ClosestRegion(location, i) /\ ReleasePage(i, location)
    <2>1. PICK i \in Regions : ClosestRegion(location, i) /\ ReleasePage(i, location)
      BY <1>3
    <2>2. PICK page : page = location - BasePage[i]
      OBVIOUS
    <2>3. /\ page \in bitmap[i] /\ location = BasePage[i] + page
          /\ page \in Nat /\ page < PageCnt[i]
      BY <1>1, <2>1, <2>2, WordsOfRegion DEF ReleasePage, ClosestRegion
    <2>4. held' = held \ {location} /\ panic' = panic /\ refused' = refused
      BY <2>1 DEF ReleasePage
    <2>5. CASE i \notin ApartRegions
      <3>1. location \notin Frames
        BY <2>3, <2>5, NotPoolFrame
      <3>2. QED
        BY <1>2, <2>4, <3>1
    <2>6. CASE i \in ApartRegions
      <3>1. page \in Usable(i)
        BY <2>3, <2>6 DEF IInv, TypeOK
      <3>2. location \in held \intersect Frames
        BY <2>3, <2>6, <3>1, PoolFrame DEF IInv
      <3>3. (held \intersect Frames)' = (held \intersect Frames) \ {location}
        BY <1>2, <2>4
      <3>4. QED
        BY <1>1, <2>4, <3>2, <3>3 DEF Pool!Free
    <2>7. QED
      BY <2>5, <2>6
  <1>4. CASE /\ FreePanic(location)
             /\ refused' = {location}
             /\ UNCHANGED <<bitmap, last_free_bitmap, last_free_page_num, held>>
    <2>1. ASSUME NEW k \in ApartRegions, NEW q \in Usable(k), location = BasePage[k] + q,
                 location \in held
          PROVE  FALSE
      <3>1. k \in Regions /\ q \in Nat /\ q < PageCnt[k] /\ q \in bitmap[k]
        BY <2>1, PoolFrame, UsableHasWord DEF IInv, ApartRegions
      <3>2. BasePage[k] \in Nat /\ location - BasePage[k] = q
        BY <2>1, <3>1, WordsOfRegion
      <3>3. CASE \A i \in Regions : BasePage[i] > location
        BY <1>1, <2>1, <3>1, <3>2, <3>3
      <3>4. CASE \E i \in Regions : /\ ClosestRegion(location, i)
                                    /\ location - BasePage[i] >= PageCnt[i]
        BY <1>1, <2>1, <3>1, <3>2, <3>4, ClosestIsOwn, WordsOfRegion
      <3>5. CASE \E i \in Regions : /\ ClosestRegion(location, i)
                                    /\ location - BasePage[i] \notin bitmap[i]
        BY <1>1, <2>1, <3>1, <3>2, <3>5, ClosestIsOwn
      <3>6. QED
        BY <1>4, <3>3, <3>4, <3>5 DEF FreePanic
    <2>2. location \notin held \intersect Frames
      BY <2>1 DEF Frames
    <2>3. panic' # "NONE" /\ held' = held /\ refused' = {location}
      BY <1>4 DEF FreePanic, PANIC
    <2>4. QED
      BY <1>1, <1>2, <2>2, <2>3 DEF Pool!BadFree
  <1>5. QED
    BY <1>3, <1>4 DEF pg_free

\* For any regions and word size, pg_alloc and pg_free behave, towards the regions
\* whose bitmap is apart, as a pool of page frames handed out in order: the hint,
\* the words, the choice of the region to free into and the use made of the other
\* regions cannot be observed.
THEOREM PagerImplementsPool == Spec => ImplementsPagePool
  <1>1. Init => Pool!Init
    BY DEF Init, Pool!Init
  <1>2. IInv /\ [Next]_vars => [Pool!Next]_(Pool!vars)
    <2>1. SUFFICES ASSUME IInv, [Next]_vars PROVE [Pool!Next]_(Pool!vars)
      OBVIOUS
    <2>2. CASE pg_alloc
      BY <2>1, <2>2, AllocRefines DEF Pool!Next, Pool!vars
    <2>3. CASE pg_alloc_none
      BY <2>1, <2>3, AllocNoneRefines DEF Pool!Next
    <2>4. CASE \E location \in Locations : pg_free(location)
      BY <2>1, <2>4, FreeRefines DEF Pool!Next, Pool!vars
    <2>5. CASE \E i \in Regions : \E page \in 0..PageCnt[i]-1 : StoreInPage(i, page)
      BY <2>5 DEF StoreInPage, Pool!vars, Frames, Usable, Words, ApartRegions
    <2>6. CASE UNCHANGED vars
      BY <2>6 DEF vars, Pool!vars, Frames, Usable, Words, ApartRegions
    <2>7. QED
      BY <2>1, <2>2, <2>3, <2>4, <2>5, <2>6 DEF Next, freeze_system
  <1>3. QED
    BY <1>1, <1>2, SpecIInv, PTL DEF Spec, ImplementsPagePool, Pool!Spec
=============================================================================
