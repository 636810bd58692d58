------------------------------- MODULE MCFileName -------------------------------
(***************************************************************************)
(* Every string of up to seven characters over a letter, a separator and a *)
(* newline: names on both sides of the length of an extension, behind a    *)
(* directory or not.                                                       *)
(***************************************************************************)
EXTENDS FileName

CONSTANTS letter, slash

ShortStrings == BoundedSeq({letter, slash, Newline}, 7)
OneSeparator == {slash}
=============================================================================
