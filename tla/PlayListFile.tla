------------------------------ MODULE PlayListFile ------------------------------
(***************************************************************************)
(* saveplaylist and readplaylist: the playlist across runs of the program. *)
(* A run reads the file, changes the list and saves it; it may end, or be  *)
(* killed, at any point, and its list goes with it.                        *)
(*                                                                         *)
(* The list is that of PlaySeq, with no page; a path is a sequence of      *)
(* characters without a newline.  What is written goes through the buffer  *)
(* of stdio, so the disk may hold any beginning of it.  Abstracted: a disk *)
(* that is full stays full until the file is closed; the file outlives the *)
(* process whatever it wrote.  A save or a read that cannot open the file  *)
(* changes nothing.                                                        *)
(*                                                                         *)
(* Bounded: MaxEdits operations on the list in a run, MaxRuns runs.        *)
(***************************************************************************)
EXTENDS PlaySeq

CONSTANTS
  Character, \* the characters that paths are made of
  Newline,
  LineMax,   \* characters that fgets takes at most: 255 in the code
  Previous,  \* the lists, as paths, that the first run may find in the file
  NoFile,
  MaxEdits, MaxRuns

ASSUME FileAssumption ==
  /\ LineMax \in Nat \ {0} /\ MaxPlayListLen \in Nat \ {0}
  /\ Newline \notin Character
  /\ Path \subseteq Seq(Character) /\ Previous \subseteq Seq(Seq(Character))

VARIABLES
  pc,        \* where the program is
  disk,      \* the file
  unread,    \* what readplaylist has not read yet
  unwritten, \* what saveplaylist has not written through to the disk
  entry,     \* saveplaylist's list: the entry it writes next
  full,      \* whether the disk is full
  failed,    \* whether fgets has met an error
  edits, runs,
  saved,     \* history: the list last given to saveplaylist
  complete   \* history: whether that save came to its end, with room for all

fileVars == <<list, page, pc, disk, unread, unwritten, entry, full, failed,
              edits, runs, saved, complete>>
stdio == <<unread, unwritten, entry, full, failed>>
history == <<saved, complete>>

\* The file that holds a list.
Text(paths) == FlattenSeq([i \in DOMAIN paths |-> Append(paths[i], Newline)])

FileInit ==
  /\ Init
  /\ pc = "off" /\ edits = 0 /\ runs = 0
  /\ saved \in Previous /\ disk \in {NoFile, Text(saved)}
  /\ complete = TRUE
  /\ unread = <<>> /\ unwritten = <<>> /\ entry = 1 /\ full = FALSE /\ failed = FALSE

--------------------------------------------------------------------------------
(* readplaylist.                                                           *)

ReadOpen ==
  /\ pc = "off" /\ runs < MaxRuns
  /\ runs' = runs + 1 /\ edits' = 0
  /\ IF disk = NoFile THEN pc' = "ready" /\ UNCHANGED unread
     ELSE pc' = "reading" /\ unread' = disk
  /\ UNCHANGED <<list, page, disk, unwritten, entry, full, failed, history>>

\* Mutant of Taken: the newline of a line that fills the buffer is left out.
TakenInFull(text) ==
  LET ends == {i \in DOMAIN text : text[i] = Newline}
  IN  IF ends = {} THEN Len(text) ELSE Min(ends)

\* How many characters fgets takes: through the newline, or as many as fit.
Taken(text) == Min({LineMax, Len(text)} \cup {i \in DOMAIN text : text[i] = Newline})

\* Mutant of Line: the newline is kept.
LineAsRead(chars) == chars

Line(chars) == IF Last(chars) = Newline THEN Front(chars) ELSE chars

ReadLine ==
  /\ pc = "reading" /\ unread # <<>> /\ ~failed
  /\ AddLast(Line(SubSeq(unread, 1, Taken(unread))))
  /\ unread' = SubSeq(unread, Taken(unread) + 1, Len(unread))
  /\ UNCHANGED <<pc, disk, unwritten, entry, full, failed, edits, runs, history>>

\* An error is not the end of the file: the loop goes round for ever.
ReadFails ==
  /\ pc = "reading" /\ ~failed
  /\ failed' = TRUE
  /\ UNCHANGED <<list, page, pc, disk, unread, unwritten, entry, full, edits, runs, history>>

ReadEnd ==
  /\ pc = "reading" /\ unread = <<>> /\ ~failed
  /\ pc' = "ready"
  /\ UNCHANGED <<list, page, disk, stdio, edits, runs, history>>

--------------------------------------------------------------------------------
(* The run.  Adding to the front of an empty list and removing the only    *)
(* entry are undefined: PlayList.                                          *)

Edit ==
  /\ pc = "ready" /\ edits < MaxEdits
  /\ edits' = edits + 1
  /\ \/ \E path \in Path : AddLast(path) \/ (list # <<>> /\ AddFront(path))
     \/ \E i \in DOMAIN list : (Len(list) > 1 /\ RemoveEntry(i)) \/ SwapEntry(i)
  /\ UNCHANGED <<pc, disk, stdio, runs, history>>

ProcessEnds ==
  /\ pc # "off"
  /\ pc' = "off"
  /\ list' = <<>>
  /\ unread' = <<>> /\ unwritten' = <<>> /\ entry' = 1 /\ full' = FALSE /\ failed' = FALSE
  /\ UNCHANGED <<page, disk, edits, runs, history>>

--------------------------------------------------------------------------------
(* saveplaylist.                                                           *)

\* Mutant of Truncated: the file is opened to be appended to.
OpenedToUpdate == IF disk = NoFile THEN <<>> ELSE disk

Truncated == <<>>

SaveOpen ==
  /\ pc = "ready"
  /\ pc' = "saving"
  /\ disk' = Truncated
  /\ entry' = 1
  /\ saved' = list /\ complete' = FALSE
  /\ UNCHANGED <<list, page, unread, unwritten, full, failed, edits, runs>>

SaveEntry ==
  /\ pc = "saving" /\ entry <= Len(list)
  /\ unwritten' = unwritten \o Append(list[entry], Newline)
  /\ entry' = entry + 1
  /\ UNCHANGED <<list, page, pc, disk, unread, full, failed, edits, runs, history>>

\* The buffer, or a part of it, reaches the disk.
Drain ==
  /\ pc = "saving" /\ ~full
  /\ \E n \in DOMAIN unwritten :
       /\ disk' = disk \o SubSeq(unwritten, 1, n)
       /\ unwritten' = SubSeq(unwritten, n + 1, Len(unwritten))
  /\ UNCHANGED <<list, page, pc, unread, entry, full, failed, edits, runs, history>>

DiskFills ==
  /\ pc = "saving" /\ ~full
  /\ full' = TRUE
  /\ UNCHANGED <<list, page, pc, disk, unread, unwritten, entry, failed, edits, runs, history>>

SaveEnded == entry > Len(list)

\* fclose; saveplaylist reports success even if the disk was full.
SaveClose ==
  /\ pc = "saving" /\ SaveEnded /\ (unwritten = <<>> \/ full)
  /\ pc' = "ready"
  /\ unwritten' = <<>> /\ full' = FALSE
  /\ complete' = ~full
  /\ UNCHANGED <<list, page, disk, unread, entry, failed, edits, runs, saved>>

AllRunsOver == pc = "off" /\ runs = MaxRuns /\ UNCHANGED fileVars

--------------------------------------------------------------------------------

Reading == ReadLine \/ ReadEnd
Saving == SaveEntry \/ Drain \/ SaveClose

FileNext ==
  \/ ReadOpen \/ Reading \/ ReadFails
  \/ Edit \/ ProcessEnds
  \/ SaveOpen \/ Saving \/ DiskFills
  \/ AllRunsOver

FileSpec == FileInit /\ [][FileNext]_fileVars

--------------------------------------------------------------------------------
(* Properties.                                                             *)

\* What readplaylist made of the file is in the list.
HasRead == pc = "reading" /\ unread = <<>> /\ ~failed

Short == \A i \in DOMAIN saved : Len(saved[i]) < LineMax

\* What a list holds after adding each of the paths at its end.
Latest(paths) ==
  SubSeq(paths, IF Len(paths) > MaxPlayListLen THEN Len(paths) - MaxPlayListLen + 1 ELSE 1,
         Len(paths))

\* With paths shorter than the buffer, a list that was saved to the end is read
\* back entry by entry; of a file with more lines than the list takes, the last.
ReadsBack == HasRead /\ complete /\ Short => list = Latest(saved)

\* A save that was cut off, by the end of the process or a full disk, leaves a
\* beginning of the list it was to save, of which the last entry may be cut; of
\* the list before it nothing is left.
CutSaveLeavesBeginning ==
  HasRead /\ ~complete /\ Short =>
    /\ Len(list) <= Len(saved)
    /\ \A i \in DOMAIN list : IF i < Len(list) THEN list[i] = saved[i] ELSE IsPrefix(list[i], saved[i])

\* The parts of a text that fill the buffer one after the other, as many as chars
\* takes with a newline: one that fills the buffer leaves its newline to a part of
\* its own.
Parts(text, chars) ==
  [k \in 1 .. 1 + Len(chars) \div LineMax |->
     SubSeq(text, (k - 1) * LineMax + 1, Min({k * LineMax, Len(text)}))]

Pieces(path) == Parts(path, path)

\* Longer paths come back in pieces of LineMax characters, in order and without a
\* character lost; what the list has no room for is dropped from its beginning.
LongPathsInPieces ==
  HasRead /\ complete => list = Latest(FlattenSeq([i \in DOMAIN saved |-> Pieces(saved[i])]))
--------------------------------------------------------------------------------
(* The inductive invariant that the proofs in PlayListFileProofs use.      *)

Symbol == Character \cup {Newline}

\* What fgets makes of the file that holds a list, and readplaylist of that.
Lines(paths) == FlattenSeq([i \in DOMAIN paths |-> Parts(Append(paths[i], Newline), paths[i])])
Stripped(lines) == [i \in DOMAIN lines |-> Line(lines[i])]

FileTypeOK ==
  /\ pc \in {"off", "reading", "ready", "saving"}
  /\ list \in Seq(Seq(Character)) /\ Len(list) <= MaxPlayListLen
  /\ unread \in Seq(Symbol) /\ unwritten \in Seq(Symbol)
  /\ saved \in Seq(Seq(Character))
  /\ complete \in BOOLEAN /\ full \in BOOLEAN
  /\ pc = "off" => list = <<>>

\* The disk holds the list that was saved, or a beginning of it.
DiskInv ==
  /\ complete => disk \in {NoFile, Text(saved)}
  /\ ~complete => /\ Len(saved) <= MaxPlayListLen
                  /\ disk \in Seq(Symbol) /\ IsPrefix(disk, Text(saved))

\* Disk and buffer together hold the entries written so far.
SavingInv ==
  /\ pc # "saving" => unwritten = <<>>
  /\ pc = "saving" =>
       /\ ~complete /\ saved = list /\ entry \in 1 .. Len(saved) + 1
       /\ ~full => disk \o unwritten = Text(SubSeq(saved, 1, entry - 1))

\* n lines have been read.
ReadingTo(n) ==
  /\ disk = FlattenSeq(SubSeq(Lines(saved), 1, n)) \o unread
  /\ list = Latest(Stripped(SubSeq(Lines(saved), 1, n)))

\* n lines have been read, and the beginning of one more at which the file ends.
ReadingPast(n) ==
  /\ unread = <<>> /\ ~complete
  /\ \E m \in 0 .. Len(Lines(saved)[n + 1]) - 1 :
       list = Latest(Append(Stripped(SubSeq(Lines(saved), 1, n)), SubSeq(Lines(saved)[n + 1], 1, m)))

ReadingInv ==
  pc = "reading" =>
    /\ disk # NoFile
    /\ \/ \E n \in 0 .. Len(Lines(saved)) : ReadingTo(n)
       \/ \E n \in 0 .. Len(Lines(saved)) - 1 : ReadingPast(n)

FileIInv == FileTypeOK /\ DiskInv /\ SavingInv /\ ReadingInv
=============================================================================
