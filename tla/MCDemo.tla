--------------------------------- MODULE MCDemo ---------------------------------
(***************************************************************************)
(* Seven entries in pages of two: after its two removals main has three   *)
(* pages, the last not full, as it has with sixteen in pages of five.  The *)
(* first file holds up to eight lines, one more than the list takes.       *)
(***************************************************************************)
EXTENDS Demo

CONSTANTS n1, n2, n3, n4, n5, n6, n7

SevenNodes == {n1, n2, n3, n4, n5, n6, n7}
EightPaths == 1 .. 8
FirstFiles == {[i \in 1 .. n |-> i] : n \in 0 .. 8}

AnyAddress == Permutations(SevenNodes)
=============================================================================
