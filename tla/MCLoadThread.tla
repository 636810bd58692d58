------------------------------ MODULE MCLoadThread ------------------------------
(***************************************************************************)
(* A load thread with a period of two thirds of a second, so that the      *)
(* deadlines carry, and room for four rounds.                              *)
(***************************************************************************)
EXTENDS LoadThread

Nobody == {}
EveryPeriod == {<<0, Period>>}
=============================================================================
