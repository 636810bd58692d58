---------------------------- MODULE MCSloggerRestart ----------------------------
(***************************************************************************)
(* A small instance of SloggerRestart for TLC.                             *)
(***************************************************************************)
EXTENDS SloggerRestart

CONSTANTS p1

OneProducer == {p1}
=============================================================================
