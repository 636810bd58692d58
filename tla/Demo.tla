---------------------------------- MODULE Demo ----------------------------------
(***************************************************************************)
(* The playlist demonstration at the start of main.c: it reads the list,   *)
(* swaps the first two entries and swaps them back, removes two entries,   *)
(* pages forward and back and saves what is left for the next run.  The    *)
(* heap and every call are those of PlayList.                              *)
(*                                                                         *)
(* The file is the sequence of its paths (PlayListFile says what becomes   *)
(* of characters); it is saved in one step, and it can be opened.  A       *)
(* process that crashes leaves the file as it was.                         *)
(***************************************************************************)
EXTENDS PlayList

CONSTANT Files   \* what the first run may find

ASSUME FilesAssumption == Files \subseteq Seq(Path)

VARIABLES
  file,      \* the paths in the file
  unread,    \* those that readplaylist has not read yet
  at,        \* the call main makes next
  shown      \* history: the nodes displayPage has shown

demoVars == <<vars, file, unread, at, shown>>

\* The calls, in order.
Script ==
  <<"readplaylist", "select", "swap", "print", "displaylist",
    "swapback", "print", "displaylist", "removefirst", "displaylist",
    "getPage", "removesecond", "displayPage",
    "getPage", "displayPage", "getPage", "displayPage", "getPage", "displayPage",
    "getPageback", "displayPage", "getPageback", "displayPage",
    "getPageback", "displayPage", "getPageback", "displayPage",
    "saveplaylist">>

DemoInit ==
  /\ Init
  /\ file \in Files /\ unread = file
  /\ at = 1 /\ shown = {}

Calls(name) == ~crashed /\ at \in DOMAIN Script /\ Script[at] = name

Returns == at' = at + 1

--------------------------------------------------------------------------------
(* The calls of main.                                                      *)

Readplaylist ==
  /\ Calls("readplaylist")
  /\ IF unread = <<>> THEN Returns /\ UNCHANGED <<vars, unread>>
     ELSE AddplaylistLast(Head(unread)) /\ unread' = Tail(unread) /\ UNCHANGED at
  /\ UNCHANGED <<file, shown>>

\* A call that goes through NULL.
ThroughNull == Dereferencing({NULL}, FALSE)

\* swapplayNode, which does nothing to a node with no neighbour on that side.
Swap(node, forward) ==
  \/ node = NULL /\ ThroughNull
  \/ /\ node # NULL
     /\ \/ SwapplayNode(node, forward)
        \/ (IF forward THEN next ELSE prv)[node] = NULL /\ UNCHANGED vars

\* Mutant of SwapBack: the second entry goes on forward.
SwapOn == Swap(next[filelist], TRUE)

SwapBack == Swap(next[filelist], FALSE)

SwapFirst ==
  \/ Calls("swap") /\ Swap(filelist, TRUE)
  \/ Calls("swapback") /\ SwapBack

PrintSelected == Calls("print") /\ Dereferencing({selnode}, UNCHANGED <<heap, pagehead, selnode>>)

\* removeplayNode returns at once when it is given NULL.
RemoveTwo ==
  \/ Calls("removefirst") /\ RemoveplayNode(filelist)
  \/ /\ Calls("removesecond")
     /\ IF next[filelist] = NULL THEN UNCHANGED vars ELSE RemoveplayNode(next[filelist])

Call ==
  /\ \/ Calls("select") /\ Select
     \/ SwapFirst \/ PrintSelected \/ RemoveTwo
     \/ Calls("displaylist") /\ Displaylist
     \/ Calls("getPage") /\ GetPage(TRUE)
     \/ Calls("getPageback") /\ GetPage(FALSE)
  /\ Returns
  /\ UNCHANGED <<file, unread, shown>>

Show ==
  /\ Calls("displayPage") /\ DisplayPage
  /\ shown' = shown \cup Range(Ahead(pagehead, PageListLen))
  /\ Returns
  /\ UNCHANGED <<file, unread>>

Saveplaylist ==
  /\ Calls("saveplaylist")
  /\ file' = [i \in DOMAIN Order |-> path[Order[i]]]
  /\ Returns
  /\ UNCHANGED <<vars, unread, shown>>

\* The process has ended, by a crash or at the end of main, and is run again.
RunAgain ==
  /\ crashed \/ at > Len(Script)
  /\ live' = {} /\ Store(next, prv, path)
  /\ filelist' = NULL /\ pagehead' = NULL /\ selnode' = NULL /\ crashed' = FALSE
  /\ unread' = file /\ at' = 1 /\ shown' = {}
  /\ UNCHANGED file

DemoNext == Readplaylist \/ Call \/ Show \/ Saveplaylist \/ RunAgain

DemoSpec == DemoInit /\ [][DemoNext]_demoVars

--------------------------------------------------------------------------------
(* Properties.                                                             *)

\* The entries that fit into the list.
Latest(paths) ==
  SubSeq(paths, IF Len(paths) > MaxPlayListLen THEN Len(paths) - MaxPlayListLen + 1 ELSE 1, Len(paths))

Found == Latest(file)

\* The demonstration goes through NULL or a freed node only when it has found
\* fewer than two entries, although an eviction, two removals and seven turns of
\* the page come before its end.
CrashesOnlyWhenShort == crashed => Len(file) < 2

\* A run that comes to its end leaves the file without the first and the third
\* entry it found: the two swaps cancel.  Once a single entry is left, no later
\* run comes to its end.
SavesWithoutTwo ==
  [][at = Len(Script) /\ at' # at =>
       Len(Found) >= 2 /\ file' = RemoveAt(RemoveAt(Found, 3), 1)]_demoVars

\* displayPage has shown every entry that is saved: turning the page skips none
\* and the last page is reached.
EverythingShown == Calls("saveplaylist") => shown = live

--------------------------------------------------------------------------------
(* The inductive invariant that the proofs in DemoProofs use.              *)

\* Only the two swaps can be undefined.
CrashInv == crashed => Len(file) < 2 /\ at \in {4, 7}

ReadInv ==
  at = 1 => \E n \in 0 .. Len(file) : /\ unread = SubSeq(file, n + 1, Len(file))
                                     /\ Entries = Latest(SubSeq(file, 1, n))

WithoutTwo(paths) == RemoveAt(RemoveAt(paths, 3), 1)

\* What is in the list before each call.
ContentsInv ==
  ~crashed =>
    /\ at \in 2 .. 3 => Entries = Found
    /\ at \in 4 .. 6 => /\ Len(Found) # 0
                        /\ Entries = IF Len(Found) = 1 THEN Found
                                     ELSE ReplaceAt(ReplaceAt(Found, 1, Found[2]), 2, Found[1])
    /\ at \in 7 .. 28 => Len(Found) >= 2
    /\ at \in 7 .. 9 => Entries = Found
    /\ at \in 10 .. 12 => Entries = RemoveAt(Found, 1)
    /\ at \in 13 .. 28 => Entries = WithoutTwo(Found)

\* The selection, as long as it is used, and the page.
PointerInv ==
  ~crashed =>
    /\ at = 3 => selnode = filelist
    /\ at \in 4 .. 6 => selnode = IF Len(Order) = 1 THEN Order[1] ELSE Order[2]
    /\ at = 7 => selnode = Order[1]
    /\ at \in 1 .. 11 => pagehead = NULL
    /\ at \in 12 .. 13 => Position = 1
    /\ at \in 14 .. 28 => Position \in 1 .. Len(Order)

\* How far the entries have been shown: the page that is shown next joins on
\* those, and once four pages have been there is nothing left.
Past(n) == Position + PageListLen > Len(Order) \/ Position > n

ShownInv ==
  ~crashed =>
    /\ at \in 1 .. 13 => shown = {}
    /\ at \in 13 .. 19 =>
         \E c \in 0 .. Len(Order) :
           /\ shown = {Order[i] : i \in 1 .. c}
           /\ at \in {13, 15, 17, 19} => Position <= c + 1
           /\ at \in {14, 16, 18} => c = Len(Order) \/ Position + PageListLen <= c + 1
    /\ at \in 15 .. 16 => Past(PageListLen)
    /\ at \in 17 .. 18 => Past(2 * PageListLen)
    /\ at = 19 => Past(3 * PageListLen)
    /\ at \in 20 .. 28 => (MaxPlayListLen <= 4 * PageListLen + 2 => shown = live)

DemoIInv ==
  /\ ListIInv
  /\ file \in Seq(Path) /\ unread \in Seq(Path) /\ at \in 1 .. 29
  /\ CrashInv /\ ReadInv /\ ContentsInv /\ PointerInv /\ ShownInv
=============================================================================
