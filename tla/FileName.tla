-------------------------------- MODULE FileName --------------------------------
(***************************************************************************)
(* The name under which a playlist entry is shown.  extract_file_name cuts *)
(* it out of a path in place, and addplaylist_last and addplaylist_front   *)
(* give it the string of their caller: the entry keeps the path as it was, *)
(* the caller's buffer does not.                                           *)
(*                                                                         *)
(* A string is a sequence of characters.  Bounded: MaxEntries, for the     *)
(* entries that one buffer is used for.                                    *)
(***************************************************************************)
EXTENDS SequencesExt, Integers

CONSTANTS
  Strings,     \* what a caller's buffer may hold
  Separators,  \* / and \
  Newline,
  MaxEntries   \* bound: entries added from one buffer

VARIABLES
  given,       \* history: what the caller put into its buffer
  buffer,      \* the caller's buffer
  entries      \* the entries added from it: path and file of each

nameVars == <<given, buffer, entries>>

Extension == 4   \* characters, the dot included

--------------------------------------------------------------------------------
(* extract_file_name.                                                      *)

\* Where the name begins: the search for a separator goes backward and does not
\* look at the first character.
NameStart(path) ==
  LET seps == {i \in 2 .. Len(path) : path[i] \in Separators}
  IN  IF seps = {} THEN 1 ELSE Max(seps) + 1

UpTo(string, char) ==
  LET ends == {i \in DOMAIN string : string[i] = char}
  IN  IF ends = {} THEN string ELSE SubSeq(string, 1, Min(ends) - 1)

\* The name ends at a newline, and a name longer than an extension loses one.
ExtractFileName(path) ==
  LET name == UpTo(SubSeq(path, NameStart(path), Len(path)), Newline)
  IN  IF Len(name) > Extension THEN SubSeq(name, 1, Len(name) - Extension) ELSE name

\* What is left of the string it was given.
AfterExtraction(path) == SubSeq(path, 1, NameStart(path) - 1) \o ExtractFileName(path)

--------------------------------------------------------------------------------

\* The caller has filled its buffer, as readplaylist does its own.
NameInit ==
  /\ given \in Strings /\ buffer = given
  /\ entries = <<>>

\* addplaylist_last and addplaylist_front: the path is copied, then the name is
\* cut out of the caller's string.
AddEntry ==
  /\ Len(entries) < MaxEntries
  /\ entries' = Append(entries, [path |-> buffer, file |-> ExtractFileName(buffer)])
  /\ buffer' = AfterExtraction(buffer)
  /\ UNCHANGED given

\* The strcmp of removeplaylist and swapplaylist.
FoundBy(string) == \E i \in DOMAIN entries : entries[i].path = string

NameDone == Len(entries) = MaxEntries /\ UNCHANGED nameVars

NameSpec == NameInit /\ [][AddEntry \/ NameDone]_nameVars

--------------------------------------------------------------------------------
(* Properties.                                                             *)

\* playlinklist.h:27 declares the parameter of extract_file_name const char *,
\* and so do the functions that pass their own on to it: a caller finds an entry
\* again with the string it added it with.
FoundAgain == entries # <<>> => FoundBy(buffer)
=============================================================================
