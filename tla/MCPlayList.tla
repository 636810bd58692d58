------------------------------- MODULE MCPlayList -------------------------------
(***************************************************************************)
(* A small instance of PlayList for TLC: four entries in pages of two, and *)
(* one address more than the list can hold.  Nothing distinguishes one     *)
(* address from another.                                                   *)
(***************************************************************************)
EXTENDS PlayList, TLC

CONSTANTS n1, n2, n3, n4, n5, a, b

FiveNodes == {n1, n2, n3, n4, n5}
TwoPaths == {a, b}

AnyAddress == Permutations(FiveNodes)
=============================================================================
