-------------------------------- MODULE PlayList --------------------------------
(***************************************************************************)
(* The playlist of playlinklist.c: a doubly linked list on the heap, the   *)
(* page cursor pagehead (headoflist in main.c) and the selection selnode   *)
(* (selectedlist in main.c).  One thread calls the operations one after    *)
(* the other; each is one step.                                            *)
(*                                                                         *)
(* A node is an address.  free takes it out of live, malloc takes any      *)
(* address that is not live, and a pointer kept across the two may come to *)
(* denote another entry.  An operation that dereferences NULL or a freed   *)
(* node is undefined; nothing is said about the program afterwards.        *)
(*                                                                         *)
(* Abstracted: the characters of a path; a node's file name, which         *)
(* extract_file_name derives from its path when the node is made and which *)
(* travels with it; what the operations return and print; malloc does not  *)
(* fail.  The #if UNIQUE blocks are not part of the build.                 *)
(***************************************************************************)
EXTENDS SequencesExt, Integers

CONSTANTS
  Node,            \* addresses malloc may return
  NULL,
  Path,            \* the paths that callers add
  PageListLen,     \* 5 in the code
  MaxPlayListLen,  \* 16 in the code
  Lost             \* in the properties: the position of a freed pagehead

ASSUME PlayListAssumption ==
  /\ IsFiniteSet(Node) /\ Cardinality(Node) >= MaxPlayListLen
  /\ NULL \notin Node
  /\ Path # {}
  /\ PageListLen \in Nat \ {0}
  /\ MaxPlayListLen \in Nat /\ MaxPlayListLen >= 2
  /\ Lost \notin Nat

VARIABLES
  live,            \* the addresses that are allocated
  next, prv, path, \* the fields of each node
  filelist,        \* the first node
  pagehead,        \* the first node of the page on display
  selnode,         \* the selected node
  crashed          \* whether an operation was undefined

heap == <<live, next, prv, path, filelist>>
vars == <<heap, pagehead, selnode, crashed>>

Pointer == Node \cup {NULL}

\* No link leads to a freed node.
TypeOK ==
  /\ live \subseteq Node
  /\ next \in [Node -> live \cup {NULL}] /\ prv \in [Node -> live \cup {NULL}]
  /\ path \in [Node -> Path]
  /\ filelist \in Pointer /\ pagehead \in Pointer /\ selnode \in Pointer
  /\ crashed \in BOOLEAN

\* What the path field of a node that is not allocated is taken to be.
Blank == CHOOSE p \in Path : TRUE

Init ==
  /\ live = {}
  /\ next = [n \in Node |-> NULL] /\ prv = [n \in Node |-> NULL]
  /\ path = [n \in Node |-> Blank]
  /\ filelist = NULL /\ pagehead = NULL /\ selnode = NULL
  /\ crashed = FALSE

--------------------------------------------------------------------------------
(* Pointers.                                                               *)

\* The nodes on the way from node n along a field, next or prv, until NULL.
Walk(field, n) ==
  LET step[i \in 0 .. Cardinality(Node)] ==
        IF i = 0 THEN n
        ELSE IF step[i - 1] = NULL THEN NULL ELSE field[step[i - 1]]
      length == Cardinality({i \in DOMAIN step : step[i] # NULL})
  IN  [i \in 1 .. length |-> step[i - 1]]

LastOr(seq, default) == IF seq = <<>> THEN default ELSE Last(seq)

\* The list, from its head.
Order == Walk(next, filelist)

\* An operation goes on if it dereferences live nodes only; if not, all that is
\* known is that it is undefined.
Dereferencing(pointers, effect) ==
  /\ ~crashed
  /\ crashed' = ~(pointers \subseteq live)
  /\ IF crashed' THEN UNCHANGED <<heap, pagehead, selnode>> ELSE effect

\* A field in which node's is set to value; NULL has none.
With(field, node, value) == [n \in Node |-> IF n = node THEN value ELSE field[n]]

\* The fields after the operation.  What a freed node held is forgotten.
Store(nxt, prev, pth) ==
  /\ next' = [n \in Node |-> IF n \in live' THEN nxt[n] ELSE NULL]
  /\ prv' = [n \in Node |-> IF n \in live' THEN prev[n] ELSE NULL]
  /\ path' = [n \in Node |-> IF n \in live' THEN pth[n] ELSE Blank]

NonNull(pointers) == pointers \ {NULL}

--------------------------------------------------------------------------------
(* addplaylist_last and addplaylist_front.                                 *)

PrvAfterDroppingFirst(second) == With(prv, second, NULL)

\* Mutant of NextAfterDroppingLast: the new last node keeps its next.
NextUnchanged(before) == next

NextAfterDroppingLast(before) == With(next, before, NULL)

\* At MaxPlayListLen the first node is freed; the new one goes behind the last.
AddplaylistLast(p) ==
  LET evict   == Len(Order) = MaxPlayListLen
      last    == LastOr(Order, NULL)
      second  == next[filelist]
      kept    == live \ (IF evict THEN {filelist} ELSE {})
      touched == Range(Order) \cup (IF evict THEN {filelist, second} ELSE {})
  IN  Dereferencing(touched,
         /\ \E l \in Node \ kept :
              /\ live' = kept \cup {l}
              /\ Store(With(With(next, last, l), l, NULL),
                       With(IF evict THEN PrvAfterDroppingFirst(second) ELSE prv, l, last),
                       With(path, l, p))
              /\ filelist' = CASE evict            -> second
                               [] filelist = NULL  -> l
                               [] OTHER            -> filelist
         /\ UNCHANGED <<pagehead, selnode>>)

\* At MaxPlayListLen the last node is freed; the new one goes before the first,
\* whose prv is set whether or not there is a first.
AddplaylistFront(p) ==
  LET evict   == Len(Order) = MaxPlayListLen
      last    == LastOr(Order, NULL)
      before  == Order[Len(Order) - 1]
      kept    == live \ (IF evict THEN {last} ELSE {})
      touched == Range(Order) \cup {filelist}
  IN  Dereferencing(touched,
         /\ \E l \in Node \ kept :
              /\ live' = kept \cup {l}
              /\ Store(With(IF evict THEN NextAfterDroppingLast(before) ELSE next, l, filelist),
                       With(With(prv, filelist, l), l, NULL),
                       With(path, l, p))
              /\ filelist' = l
         /\ UNCHANGED <<pagehead, selnode>>)

--------------------------------------------------------------------------------
(* removeplaylist and removeplayNode.                                      *)

\* The page moves to a neighbour of the removed node.
PageAfterRemoval(node) ==
  IF node # pagehead THEN pagehead
  ELSE IF next[node] # NULL THEN next[node] ELSE prv[node]

\* Mutant of PrvAfterRemoval: only the link forward is mended.
PrvNotMended(before, after) == prv

PrvAfterRemoval(before, after) == With(prv, after, before)

\* The node's neighbours are linked to each other.  The selection is not a
\* parameter and stays.  Without a node before it, the new first node's prv is
\* set whether or not there is one.
RemoveplayNode(node) ==
  LET before  == prv[node]
      after   == next[node]
      touched == {node} \cup (IF before = NULL THEN {after} ELSE NonNull({before, after}))
  IN  Dereferencing(touched,
         /\ pagehead' = PageAfterRemoval(node)
         /\ live' = live \ {node}
         /\ Store(With(next, before, after), PrvAfterRemoval(before, after), path)
         /\ filelist' = IF before = NULL THEN after ELSE filelist
         /\ UNCHANGED selnode)

\* The first node with the path, if there is one.
Find(p) ==
  LET at == {i \in DOMAIN Order : path[Order[i]] = p}
  IN  IF at = {} THEN NULL ELSE Order[Min(at)]

Removeplaylist(p) == Find(p) # NULL /\ RemoveplayNode(Find(p))

--------------------------------------------------------------------------------
(* swapplaylist and swapplayNode.                                          *)

\* Mutant of SelectionAfterSwap: the selection stays on its node.
SelectionStays(node, other, behind) == selnode

\* The selection goes with the entry of node to other.  A selection on other
\* moves to the node on the far side of node.
SelectionAfterSwap(node, other, behind) ==
  CASE selnode = node  -> other
    [] selnode = other -> behind
    [] OTHER           -> selnode

\* Two neighbours exchange what they hold; the nodes stay where they are.
SwapplayNode(node, forward) ==
  LET other   == IF forward THEN next[node] ELSE prv[node]
      behind  == IF forward THEN prv[node] ELSE next[node]
      touched == {node} \cup NonNull({other})
  IN  Dereferencing(touched,
         /\ other # NULL
         /\ path' = [path EXCEPT ![node] = path[other], ![other] = path[node]]
         /\ selnode' = SelectionAfterSwap(node, other, behind)
         /\ UNCHANGED <<live, next, prv, filelist, pagehead>>)

Swapplaylist(p, forward) == Find(p) # NULL /\ SwapplayNode(Find(p), forward)

--------------------------------------------------------------------------------
(* getPage.                                                                *)

\* Mutant of Short: one step too far back.
ShortByOneMore(walked) == PageListLen - Len(walked) + 1

\* How many entries a walk that met the end of the list lacks to fill a page.
Short(walked) == PageListLen - Len(walked)

\* Forward: if the page is followed by another, start there.  Then walk one page
\* in the direction asked for; at the end of the list fall back so that the page
\* is full, if the list is long enough.
GetPage(forward) ==
  LET ahead   == Walk(next, pagehead)
      head    == IF pagehead = NULL THEN filelist
                 ELSE IF forward /\ Len(ahead) > PageListLen THEN ahead[PageListLen + 1]
                 ELSE pagehead
      walked  == Walk(IF forward THEN next ELSE prv, head)
      turn    == IF forward THEN head ELSE LastOr(walked, NULL)
      back    == Walk(prv, turn)
      short   == Short(walked)
      touched == Range(ahead) \cup Range(walked) \cup Range(back)
  IN  Dereferencing(touched,
         /\ pagehead' = IF Len(walked) > PageListLen
                        THEN IF forward THEN head ELSE walked[PageListLen + 1]
                        ELSE IF turn = NULL THEN pagehead
                        ELSE IF short < Len(back) THEN back[short + 1] ELSE Last(back)
         /\ UNCHANGED <<heap, selnode>>)

--------------------------------------------------------------------------------
(* displaylist and displayPage, which print what they walk over, and       *)
(* deleteList.                                                             *)

\* The first n nodes from a node on.
Ahead(node, n) == SubSeq(Walk(next, node), 1, Min({n, Len(Walk(next, node))}))

Displaylist == Dereferencing(Range(Order), UNCHANGED <<heap, pagehead, selnode>>)

DisplayPage ==
  Dereferencing(Range(Ahead(pagehead, PageListLen)), UNCHANGED <<heap, pagehead, selnode>>)

\* deleteList frees every node after those behind it, and leaves its caller's
\* pointers as they were.
DeleteList == live' = live \ Range(Order) /\ Store(next, prv, path)

--------------------------------------------------------------------------------
(* The caller.                                                             *)

\* main.c:63 selects the first node.
Select ==
  /\ ~crashed
  /\ selnode' = filelist
  /\ UNCHANGED <<heap, pagehead, crashed>>

\* Nothing under src calls deleteList.  A caller that goes on after it has to clear
\* its pointers, all of which dangle.
Discard ==
  Dereferencing(Range(Order),
     DeleteList /\ filelist' = NULL /\ pagehead' = NULL /\ selnode' = NULL)

\* Undefined from here on.
Crashed == crashed /\ UNCHANGED vars

Next ==
  \/ \E p \in Path : \/ AddplaylistLast(p) \/ AddplaylistFront(p) \/ Removeplaylist(p)
                     \/ \E forward \in BOOLEAN : Swapplaylist(p, forward)
  \/ \E node \in Range(Order) : \/ RemoveplayNode(node)
                                \/ \E forward \in BOOLEAN : SwapplayNode(node, forward)
  \/ \E forward \in BOOLEAN : GetPage(forward)
  \/ Displaylist \/ DisplayPage
  \/ Select \/ Discard
  \/ Crashed

Spec == Init /\ [][Next]_vars

--------------------------------------------------------------------------------
(* Properties.                                                             *)

\* The heap holds exactly the nodes of the list, each once, linked the same way
\* in both directions, and never more than MaxPlayListLen: no operation leaks a
\* node, cuts the list or leaves a stale prv, although each of them mends the
\* links on its own.
WellFormed ==
  /\ TypeOK
  /\ IsInjective(Order) /\ Range(Order) = live
  /\ Len(Order) <= MaxPlayListLen
  /\ Walk(prv, LastOr(Order, NULL)) = Reverse(Order)

PageInPlace == pagehead \in live \cup {NULL}

\* While the list has two nodes or more and the page is in place, no operation
\* dereferences NULL or a freed node.
CrashOnlyAtTheEdges ==
  [][~crashed /\ crashed' => Len(Order) < 2 \/ ~PageInPlace]_vars

\* Swapping the selected entry with a neighbour leaves that entry selected.
SelectionFollows ==
  [][\A forward \in BOOLEAN :
       selnode \in live /\ SwapplayNode(selnode, forward)
         => path'[selnode'] = path[selnode]]_vars

\* The list as its callers know it: the paths, and the position of the page.
Entries == [i \in DOMAIN Order |-> path[Order[i]]]
Position == IF pagehead = NULL THEN 0
            ELSE IF pagehead \in Range(Order) THEN CHOOSE i \in DOMAIN Order : Order[i] = pagehead
            ELSE Lost

Playlist == INSTANCE PlaySeq WITH list <- Entries, page <- Position

\* Every operation does to the linked list and its page cursor what it promises
\* to do to a sequence and a position in it, eviction and paging included.
ImplementsPlaySeq == Playlist!Spec
--------------------------------------------------------------------------------
(* The inductive invariant that the proofs in PlayListProofs use.          *)

\* s is the list: its nodes are those on the heap, each once, and the two fields
\* of each lead to its neighbours in s.
Linked(s) ==
  /\ s \in Seq(Node)
  /\ IsInjective(s) /\ Range(s) = live
  /\ Len(s) <= MaxPlayListLen
  /\ filelist = IF s = <<>> THEN NULL ELSE s[1]
  /\ \A i \in DOMAIN s : /\ next[s[i]] = IF i < Len(s) THEN s[i + 1] ELSE NULL
                         /\ prv[s[i]] = IF i > 1 THEN s[i - 1] ELSE NULL

\* What a freed node held is forgotten.
Forgotten == \A n \in Node \ live : next[n] = NULL /\ prv[n] = NULL

ListIInv == TypeOK /\ Linked(Order) /\ Forgotten
=============================================================================
