------------------------------- MODULE MCSlogger -------------------------------
(***************************************************************************)
(* Small instances of Slogger for TLC.                                     *)
(***************************************************************************)
EXTENDS Slogger

CONSTANTS p1, p2

TwoProducers == {p1, p2}
=============================================================================
