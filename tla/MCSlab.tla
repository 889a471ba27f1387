------------------------------- MODULE MCSlab -------------------------------
(* Small instances of Slab: pages of 16 bytes with a header of 4.            *)
EXTENDS Slab

\* Three objects of the size in a page; two sizes that are refused.
MCSizes == {0, 3, 4, 9}
\* The code's own page: one object of the size in it.
MCHalfPage == {2048}
=============================================================================
