------------------------------- MODULE MCCondwait -------------------------------
(***************************************************************************)
(* Small instances of Condwait for TLC: a second has three ticks, and the  *)
(* timeouts are two ticks, which carry two times in three, and a second    *)
(* and a tick.                                                             *)
(***************************************************************************)
EXTENDS Condwait

CONSTANTS h1, h2

TwoHandlers == {h1, h2}
ShortAndLong == {<<0, 2>>, <<1, 1>>}
=============================================================================
