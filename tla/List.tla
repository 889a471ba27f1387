-------------------------------- MODULE List --------------------------------
(***************************************************************************)
(* The list of kernel/memory/list.c.  Items live in sections, one page     *)
(* each.  Only the first section is ever linked: list_get makes a page for *)
(* a later one and forgets it, so an item past the first section is        *)
(* written to, and read from, a blank page nothing leads to.  A list is a  *)
(* record of its first section, its count and the pages it lost.           *)
(***************************************************************************)
EXTENDS Integers

CONSTANTS
    SECTION,        \* items of a section, 511 items of 8 bytes in the code
    ITEM_SIZE       \* bytes of an item, 8 for the lists of the kernel

ASSUME ListAssumption ==
    /\ {SECTION, ITEM_SIZE} \subseteq Nat \ {0}
    /\ ITEM_SIZE <= SECTION

EmptyList == [slot |-> [i \in 0..SECTION-1 |-> 0], cnt |-> 0, lost |-> 0]

list_get_panics(l, i) == i > l.cnt

\* What list_get does to the list: a page is made for every section after the first.
Reach(l, i) == [l EXCEPT !.lost = @ + i \div SECTION]

Item(l, i) == IF i < SECTION THEN l.slot[i] ELSE 0
PutItem(l, i, v) == IF i < SECTION THEN [l EXCEPT !.slot[i] = v] ELSE l

list_append(l, v) ==
    LET there == PutItem(Reach(l, l.cnt), l.cnt, v) IN [there EXCEPT !.cnt = @ + 1]

\* The item that takes the place of the removed one is number item_size - 1.
list_remove_panics(l, i) == i >= l.cnt \/ list_get_panics(l, ITEM_SIZE - 1)
list_remove(l, i) ==
    LET there == PutItem(Reach(l, i), i, Item(l, ITEM_SIZE - 1)) IN [there EXCEPT !.cnt = @ - 1]
=============================================================================
