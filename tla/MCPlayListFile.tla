----------------------------- MODULE MCPlayListFile -----------------------------
(***************************************************************************)
(* Three entries, a buffer of three characters, and a path shorter than    *)
(* it, one of its length and one longer.  The first run may find a file    *)
(* with one line more than the list takes.                                 *)
(***************************************************************************)
EXTENDS PlayListFile

CONSTANTS x, y

ShortPath == <<x, y>>
FittingPath == <<y, x, x>>
LongPath == <<x, x, y, y>>

Paths == {ShortPath, FittingPath, LongPath}
FoundFiles == {<<ShortPath, <<y>>, ShortPath, <<>>>>, <<LongPath, <<y>>>>}
=============================================================================
