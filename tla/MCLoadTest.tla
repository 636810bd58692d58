------------------------------- MODULE MCLoadTest -------------------------------
(***************************************************************************)
(* A small instance of LoadTest for TLC: two load threads, whose last      *)
(* messages main's joins and the shutdown may overtake.                    *)
(***************************************************************************)
EXTENDS LoadTest

CONSTANTS l1, l2

TwoLoaders == {l1, l2}
LoadersAndMain == {l1, l2, Caller}
=============================================================================
