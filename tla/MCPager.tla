------------------------------ MODULE MCPager -------------------------------
(* A small instance of Pager: four regions that are not in address order, one *)
(* of them with pages after its last whole word, one too small for a word and *)
(* one whose bitmap goes on into its first page.  The others' bitmaps end      *)
(* exactly where their pages begin.                                            *)
EXTENDS Pager, TLC

MCPageCnt  == (0 :> 2) @@ (1 :> 4) @@ (2 :> 1) @@ (3 :> 3)
MCBasePage == (0 :> 12) @@ (1 :> 3) @@ (2 :> 9) @@ (3 :> 17)
MCHeadBits == (0 :> 2) @@ (1 :> 2) @@ (2 :> 1) @@ (3 :> 3)
MCLocations == 0..20
=============================================================================
