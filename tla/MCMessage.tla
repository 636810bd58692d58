------------------------------- MODULE MCMessage -------------------------------
(***************************************************************************)
(* Two threads with a call each over a clock of two ticks to the second    *)
(* and two seconds to the minute, which turns both over.                   *)
(***************************************************************************)
EXTENDS Message, TLC

CONSTANTS t1, t2

TwoThreads == {t1, t2}

AnyThread == Permutations(TwoThreads)
=============================================================================
