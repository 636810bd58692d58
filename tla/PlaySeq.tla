-------------------------------- MODULE PlaySeq --------------------------------
(***************************************************************************)
(* What the playlist of playlinklist.c promises, with no nodes and no      *)
(* pointers: a bounded sequence of paths, and the position at which the    *)
(* page on display begins.                                                 *)
(*                                                                         *)
(*   - adding to a full list drops the entry at the other end;             *)
(*   - a page is PageListLen entries; going on shows the next page, and    *)
(*     the last PageListLen entries when less than a page is left; going   *)
(*     back shows the previous page, or the first;                         *)
(*   - the page stays on the same entry while others come and go, moves    *)
(*     to a neighbour when its entry is removed, and is Lost when its      *)
(*     entry is dropped from a full list.  Only the next entry added may   *)
(*     happen to take a lost page's place.                                 *)
(*                                                                         *)
(* PlayList.tla is shown to implement this module.                         *)
(***************************************************************************)
EXTENDS SequencesExt, Integers

CONSTANTS
  Path,            \* the paths that can be added
  PageListLen,     \* entries to a page
  MaxPlayListLen,  \* entries to the list
  Lost             \* the position of a page whose entry was dropped

VARIABLES
  list,            \* the paths, in playing order
  page             \* where the page begins; 0 before there is one

vars == <<list, page>>

Full == Len(list) = MaxPlayListLen

Init == list = <<>> /\ page = 0

AddLast(path) ==
  /\ list' = Append(IF Full THEN Tail(list) ELSE list, path)
  /\ CASE page = 0                          -> page' = 0
       [] page = Lost \/ (Full /\ page = 1) -> page' \in {Lost, Len(list')}
       [] OTHER                             -> page' = IF Full THEN page - 1 ELSE page

AddFront(path) ==
  /\ list' = <<path>> \o (IF Full THEN Front(list) ELSE list)
  /\ CASE page = 0                                  -> page' = 0
       [] page = Lost \/ (Full /\ page = Len(list)) -> page' \in {Lost, 1}
       [] OTHER                                     -> page' = page + 1

\* The entries behind the removed one move up; the last one has none behind it.
RemoveEntry(i) ==
  /\ list' = RemoveAt(list, i)
  /\ page' = IF page # Lost /\ (page > i \/ (page = i /\ i = Len(list)))
             THEN page - 1 ELSE page

\* Entry i changes places with the one behind it.
SwapEntry(i) ==
  /\ i < Len(list)
  /\ list' = ReplaceAt(ReplaceAt(list, i, list[i + 1]), i + 1, list[i])
  /\ page' = page

Clear == list' = <<>> /\ page' = 0

LastPage == IF Len(list) > PageListLen THEN Len(list) - PageListLen + 1
            ELSE IF list = <<>> THEN 0 ELSE 1

NextPage ==
  LET behind == page + PageListLen
      start  == IF page = 0 THEN 1 ELSE IF behind <= Len(list) THEN behind ELSE page
  IN  /\ page # Lost
      /\ page' = IF start < LastPage THEN start ELSE LastPage
      /\ list' = list

PreviousPage ==
  /\ page # Lost
  /\ page' = IF list = <<>> THEN 0
             ELSE IF page > PageListLen THEN page - PageListLen ELSE 1
  /\ list' = list

Next ==
  \/ \E path \in Path : AddLast(path) \/ AddFront(path)
  \/ \E i \in DOMAIN list : RemoveEntry(i) \/ SwapEntry(i)
  \/ Clear \/ NextPage \/ PreviousPage

Spec == Init /\ [][Next]_vars
=============================================================================
