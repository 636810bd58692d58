----------------------------- MODULE PlayListProofs -----------------------------
(***************************************************************************)
(* Proofs about PlayList for any set of addresses, any paths, and any      *)
(* length of the list and of a page.                                       *)
(***************************************************************************)
EXTENDS PlayList, FiniteSetTheorems, WellFoundedInduction, TLAPS

\* A set of naturals has a least element.
LEMMA MinExists ==
  ASSUME NEW S \in SUBSET Nat, S # {}
  PROVE  Min(S) \in S /\ \A y \in S : Min(S) <= y
<1> DEFINE R == OpToRel(<, Nat)
<1>1. PICK x \in S : \A y \in S : ~(<<y, x>> \in R)
  <2>1. IsWellFoundedOn(R, Nat)
    BY NatLessThanWellFounded
  <2> HIDE DEF R
  <2> QED BY <2>1, WFMin
<1>2. \A y \in S : y < x => <<y, x>> \in R
  BY DEF OpToRel
<1> HIDE DEF R
<1>3. ASSUME NEW y \in S PROVE x <= y
  <2>1. ~(y < x) /\ x \in Nat /\ y \in Nat
    BY <1>1, <1>2
  <2> QED BY <2>1
<1> QED BY <1>3 DEF Min

LEMMA Sizes ==
  /\ Cardinality(Node) \in Nat /\ MaxPlayListLen <= Cardinality(Node)
  /\ MaxPlayListLen \in Nat /\ MaxPlayListLen >= 2
  /\ PageListLen \in Nat \ {0}
  /\ NULL \notin Node
BY PlayListAssumption, FS_CardinalityType

--------------------------------------------------------------------------------
(* Walks.                                                                  *)

\* If the nodes of w lead along the field from one to the next and then to NULL,
\* the walk from the first of them is w.
LEMMA WalkIs ==
  ASSUME NEW field, NEW w \in Seq(Node), Len(w) <= Cardinality(Node),
         \A i \in DOMAIN w : field[w[i]] = IF i < Len(w) THEN w[i + 1] ELSE NULL,
         NEW n, n = IF w = <<>> THEN NULL ELSE w[1]
  PROVE  Walk(field, n) = w
<1> DEFINE N == Cardinality(Node)
           step[i \in 0 .. N] ==
             IF i = 0 THEN n
             ELSE IF step[i - 1] = NULL THEN NULL ELSE field[step[i - 1]]
           length == Cardinality({i \in DOMAIN step : step[i] # NULL})
           G == [i \in 0 .. N |-> IF i < Len(w) THEN w[i + 1] ELSE NULL]
<1>1. N \in Nat /\ Len(w) \in Nat /\ DOMAIN w = 1 .. Len(w) /\ NULL \notin Node
      /\ \A i \in 1 .. Len(w) : w[i] \in Node
  BY Sizes
<1>2. G = [i \in 0 .. N |-> IF i = 0 THEN n
                            ELSE IF G[i - 1] = NULL THEN NULL ELSE field[G[i - 1]]]
  <2> SUFFICES ASSUME NEW i \in 0 .. N
               PROVE  G[i] = IF i = 0 THEN n ELSE IF G[i - 1] = NULL THEN NULL ELSE field[G[i - 1]]
    OBVIOUS
  <2>1. CASE i = 0
    BY <1>1, <2>1
  <2>2. CASE i # 0 /\ i - 1 < Len(w)
    BY <1>1, <2>2
  <2>3. CASE i # 0 /\ ~(i - 1 < Len(w))
    BY <1>1, <2>3
  <2> QED BY <2>1, <2>2, <2>3
<1>3. step = [i \in 0 .. N |-> IF i = 0 THEN n
                               ELSE IF step[i - 1] = NULL THEN NULL ELSE field[step[i - 1]]]
  <2> HIDE DEF N, G
  <2> QED BY <1>2
<1>4. step = G
  <2> HIDE DEF step, G, N
  <2>1. SUFFICES ASSUME NEW i \in 0 .. N, step[i] # G[i] PROVE FALSE
    BY <1>2, <1>3
  <2> DEFINE Bad == {j \in 0 .. N : step[j] # G[j]}
  <2>2. Bad \in SUBSET Nat /\ Bad # {}
    BY <2>1
  <2>3. PICK j \in Bad : \A k \in Bad : j <= k
    <3> HIDE DEF Bad
    <3> QED BY <2>2, MinExists
  <2>4. CASE j = 0
    BY <1>2, <1>3, <2>4
  <2>5. CASE j # 0
    <3>1. j - 1 \in 0 .. N /\ j \in 0 .. N /\ ~(j <= j - 1)
      BY <1>1, <2>5
    <3>2. step[j - 1] = G[j - 1]
      BY <2>3, <3>1
    <3> QED BY <1>2, <1>3, <2>5, <3>1, <3>2
  <2> QED BY <2>4, <2>5
<1>5. {i \in DOMAIN G : G[i] # NULL} = 0 .. Len(w) - 1
  BY <1>1
<1>6. Cardinality(0 .. Len(w) - 1) = Len(w)
  <2>1. 0 \in Int /\ Len(w) - 1 \in Int
    BY <1>1
  <2>2. Cardinality(0 .. Len(w) - 1) = IF 0 > Len(w) - 1 THEN 0 ELSE (Len(w) - 1) - 0 + 1
    BY <2>1, FS_Interval
  <2> QED BY <1>1, <2>2
<1>7. Walk(field, n) = [i \in 1 .. length |-> step[i - 1]]
  BY DEF Walk
<1>8. length = Len(w)
  <2> HIDE DEF step, G
  <2> QED BY <1>4, <1>5, <1>6
<1>9. Walk(field, n) = [i \in 1 .. Len(w) |-> G[i - 1]]
  <2> HIDE DEF step, G, length
  <2> QED BY <1>4, <1>7, <1>8
<1>10. [i \in 1 .. Len(w) |-> G[i - 1]] = w
  BY <1>1
<1> QED BY <1>9, <1>10

\* The rest of s from position k on, and what leads up to k, backward.
From(s, k) == [i \in 1 .. Len(s) - k + 1 |-> s[k + i - 1]]
Back(s, k) == [i \in 1 .. k |-> s[k + 1 - i]]

LEMMA WalkNull == ASSUME NEW field PROVE Walk(field, NULL) = <<>>
<1> DEFINE w == <<>>
<1>1. w \in Seq(Node) /\ Len(w) = 0 /\ DOMAIN w = {}
  OBVIOUS
<1>2. NULL = IF w = <<>> THEN NULL ELSE w[1]
  OBVIOUS
<1> HIDE DEF w
<1>3. Len(w) <= Cardinality(Node)
  BY <1>1, Sizes
<1>4. Walk(field, NULL) = w
  BY <1>1, <1>2, <1>3, WalkIs
<1> QED BY <1>4 DEF w

LEMMA FunctionIsSeq ==
  ASSUME NEW S, NEW m \in Nat, NEW f \in [1 .. m -> S]
  PROVE  f \in Seq(S) /\ Len(f) = m /\ DOMAIN f = 1 .. m
OBVIOUS

\* Every walk over a linked list.
LEMMA Walks ==
  ASSUME NEW s, Linked(s)
  PROVE  /\ Order = s
         /\ \A k \in DOMAIN s : Walk(next, s[k]) = From(s, k) /\ Walk(prv, s[k]) = Back(s, k)
<1>1. /\ s \in Seq(Node) /\ Len(s) \in Nat /\ DOMAIN s = 1 .. Len(s)
      /\ Len(s) <= Cardinality(Node)
      /\ \A i \in 1 .. Len(s) : s[i] \in Node
      /\ \A i \in 1 .. Len(s) : /\ next[s[i]] = IF i < Len(s) THEN s[i + 1] ELSE NULL
                             /\ prv[s[i]] = IF i > 1 THEN s[i - 1] ELSE NULL
  BY Sizes DEF Linked
<1>2. Order = s
  BY <1>1, WalkIs DEF Linked, Order
<1>3. ASSUME NEW k \in DOMAIN s PROVE Walk(next, s[k]) = From(s, k)
  <2> DEFINE w == From(s, k)
  <2>1. /\ w \in Seq(Node) /\ Len(w) = Len(s) - k + 1 /\ DOMAIN w = 1 .. Len(s) - k + 1
        /\ w # <<>> /\ w[1] = s[k]
    <3>1. Len(s) - k + 1 \in Nat /\ Len(s) - k + 1 >= 1
      BY <1>1
    <3>2. w \in [1 .. Len(s) - k + 1 -> Node]
      <4>1. \A i \in 1 .. Len(s) - k + 1 : k + i - 1 \in 1 .. Len(s)
        BY <1>1
      <4> QED BY <1>1, <4>1 DEF From
    <3>3. w \in Seq(Node) /\ Len(w) = Len(s) - k + 1 /\ DOMAIN w = 1 .. Len(s) - k + 1
      <4> HIDE DEF w
      <4> QED BY <3>1, <3>2, FunctionIsSeq
    <3>4. w # <<>>
      BY <3>1, <3>3
    <3>5. w[1] = s[k]
      BY <1>1, <3>1 DEF From
    <3> QED BY <3>3, <3>4, <3>5
  <2>2. ASSUME NEW i \in DOMAIN w PROVE next[w[i]] = IF i < Len(w) THEN w[i + 1] ELSE NULL
    <3>1. k + i - 1 \in 1 .. Len(s) /\ w[i] = s[k + i - 1]
      BY <1>1, <2>1 DEF From
    <3>2. next[s[k + i - 1]] = IF k + i - 1 < Len(s) THEN s[k + i] ELSE NULL
      <4>1. (k + i - 1) + 1 = k + i
        BY <1>1, <2>1
      <4> QED BY <1>1, <3>1, <4>1
    <3>3. i < Len(w) => w[i + 1] = s[k + i]
      BY <1>1, <2>1 DEF From
    <3> QED BY <1>1, <2>1, <3>1, <3>2, <3>3
  <2> HIDE DEF w
  <2>3. Len(w) <= Cardinality(Node)
    BY <1>1, <2>1, Sizes
  <2>4. s[k] = IF w = <<>> THEN NULL ELSE w[1]
    BY <2>1
  <2>5. Walk(next, s[k]) = w
    BY <2>1, <2>2, <2>3, <2>4, WalkIs
  <2> QED BY <2>5 DEF w
<1>4. ASSUME NEW k \in DOMAIN s PROVE Walk(prv, s[k]) = Back(s, k)
  <2> DEFINE w == Back(s, k)
  <2>1. /\ w \in Seq(Node) /\ Len(w) = k /\ DOMAIN w = 1 .. k
        /\ w # <<>> /\ w[1] = s[k]
    <3>1. k \in Nat /\ k >= 1
      BY <1>1
    <3>2. w \in [1 .. k -> Node]
      <4>1. \A i \in 1 .. k : k + 1 - i \in 1 .. Len(s)
        BY <1>1
      <4> QED BY <1>1, <4>1 DEF Back
    <3>3. w \in Seq(Node) /\ Len(w) = k /\ DOMAIN w = 1 .. k
      <4> HIDE DEF w
      <4> QED BY <3>1, <3>2, FunctionIsSeq
    <3>4. w # <<>>
      BY <3>1, <3>3
    <3>5. w[1] = s[k]
      BY <1>1, <3>1 DEF Back
    <3> QED BY <3>3, <3>4, <3>5
  <2>2. ASSUME NEW i \in DOMAIN w PROVE prv[w[i]] = IF i < Len(w) THEN w[i + 1] ELSE NULL
    <3>1. k + 1 - i \in 1 .. Len(s) /\ w[i] = s[k + 1 - i]
      BY <1>1, <2>1 DEF Back
    <3>2. prv[s[k + 1 - i]] = IF k + 1 - i > 1 THEN s[k - i] ELSE NULL
      <4>1. (k + 1 - i) - 1 = k - i
        BY <1>1, <2>1
      <4> QED BY <1>1, <3>1, <4>1
    <3>3. i < Len(w) => w[i + 1] = s[k - i]
      BY <1>1, <2>1 DEF Back
    <3> QED BY <1>1, <2>1, <3>1, <3>2, <3>3
  <2> HIDE DEF w
  <2>3. Len(w) <= Cardinality(Node)
    BY <1>1, <2>1, Sizes
  <2>4. s[k] = IF w = <<>> THEN NULL ELSE w[1]
    BY <2>1
  <2>5. Walk(prv, s[k]) = w
    BY <2>1, <2>2, <2>3, <2>4, WalkIs
  <2> QED BY <2>5 DEF w
<1> QED BY <1>2, <1>3, <1>4

\* The same after a step.
LEMMA OrderNext ==
  ASSUME NEW s, Linked(s)'
  PROVE  Order' = s
<1>1. /\ s \in Seq(Node) /\ Len(s) <= Cardinality(Node)
      /\ \A i \in DOMAIN s : next'[s[i]] = IF i < Len(s) THEN s[i + 1] ELSE NULL
      /\ filelist' = IF s = <<>> THEN NULL ELSE s[1]
  BY Sizes DEF Linked
<1> QED BY <1>1, WalkIs DEF Order

--------------------------------------------------------------------------------
(* What each operation makes of the list.                                  *)

LEMMA LinkedFacts ==
  ASSUME NEW s, Linked(s)
  PROVE  /\ s \in Seq(Node) /\ Len(s) \in Nat /\ DOMAIN s = 1 .. Len(s) /\ Len(s) <= MaxPlayListLen
         /\ \A i \in 1 .. Len(s) : s[i] \in Node /\ s[i] \in live /\ s[i] # NULL
         /\ \A i, j \in 1 .. Len(s) : s[i] = s[j] => i = j
         /\ live = {s[i] : i \in 1 .. Len(s)}
         /\ filelist = IF Len(s) = 0 THEN NULL ELSE s[1]
         /\ \A i \in 1 .. Len(s) : /\ next[s[i]] = IF i < Len(s) THEN s[i + 1] ELSE NULL
                                /\ prv[s[i]] = IF i > 1 THEN s[i - 1] ELSE NULL
         /\ s = <<>> <=> Len(s) = 0
<1>1. s \in Seq(Node) /\ Len(s) \in Nat /\ DOMAIN s = 1 .. Len(s) /\ (s = <<>> <=> Len(s) = 0)
  BY DEF Linked
<1>2. live = {s[i] : i \in 1 .. Len(s)}
  BY <1>1 DEF Linked, Range
<1>3. \A i \in 1 .. Len(s) : s[i] \in Node /\ s[i] \in live /\ s[i] # NULL
  BY <1>1, <1>2, Sizes
<1> QED BY <1>1, <1>2, <1>3 DEF Linked, IsInjective

\* A list is linked after a step if its neighbours are.
LEMMA LinkedNext ==
  ASSUME NEW m \in Nat, m <= MaxPlayListLen, NEW t \in [1 .. m -> Node],
         \A i, j \in 1 .. m : t[i] = t[j] => i = j,
         live' = {t[i] : i \in 1 .. m},
         filelist' = IF m = 0 THEN NULL ELSE t[1],
         \A i \in 1 .. m : /\ next'[t[i]] = IF i < m THEN t[i + 1] ELSE NULL
                         /\ prv'[t[i]] = IF i > 1 THEN t[i - 1] ELSE NULL
  PROVE  Linked(t)'
<1>1. t \in Seq(Node) /\ Len(t) = m /\ DOMAIN t = 1 .. m /\ (t = <<>> <=> m = 0)
  <2>1. t \in Seq(Node) /\ Len(t) = m /\ DOMAIN t = 1 .. m
    BY FunctionIsSeq
  <2> QED BY <2>1
<1> QED BY <1>1 DEF Linked, Range, IsInjective

\* The types of what Store leaves behind.
LEMMA LinkTypes ==
  ASSUME NEW t, Linked(t)', NEW a, NEW b, NEW c, Store(a, b, c),
         \A n \in live' : c[n] \in Path,
         pagehead' \in Pointer, selnode' \in Pointer, crashed' = FALSE
  PROVE  TypeOK' /\ Forgotten'
<1>1. Forgotten'
  BY DEF Forgotten, Store
<1>2. /\ t \in Seq(Node) /\ DOMAIN t = 1 .. Len(t) /\ Len(t) \in Nat
      /\ live' = {t[i] : i \in 1 .. Len(t)}
      /\ \A i \in 1 .. Len(t) : /\ next'[t[i]] = IF i < Len(t) THEN t[i + 1] ELSE NULL
                             /\ prv'[t[i]] = IF i > 1 THEN t[i - 1] ELSE NULL
      /\ filelist' = IF t = <<>> THEN NULL ELSE t[1]
  BY DEF Linked, Range
<1>3. ASSUME NEW n \in Node
      PROVE  next'[n] \in live' \cup {NULL} /\ prv'[n] \in live' \cup {NULL}
  <2>1. CASE n \in live'
    <3>1. PICK i \in 1 .. Len(t) : n = t[i]
      BY <1>2, <2>1
    <3>2. i < Len(t) => i + 1 \in 1 .. Len(t)
      BY <1>2, <3>1
    <3>3. i > 1 => i - 1 \in 1 .. Len(t)
      BY <1>2, <3>1
    <3> QED BY <1>2, <3>1, <3>2, <3>3
  <2>2. CASE n \notin live'
    BY <1>1, <2>2 DEF Forgotten
  <2> QED BY <2>1, <2>2
<1>4. next' \in [Node -> live' \cup {NULL}] /\ prv' \in [Node -> live' \cup {NULL}]
  BY <1>3 DEF Store
<1>5. path' \in [Node -> Path]
  <2>1. Blank \in Path
    BY PlayListAssumption DEF Blank
  <2> QED BY <2>1 DEF Store
<1>6. live' \subseteq Node /\ filelist' \in Pointer
  <2>1. \A i \in 1 .. Len(t) : t[i] \in Node
    BY <1>2
  <2>2. t # <<>> => t[1] \in Node
    BY <1>2
  <2> QED BY <1>2, <2>1, <2>2 DEF Pointer
<1> QED BY <1>1, <1>4, <1>5, <1>6 DEF TypeOK

\* The list behind an entry l added last, and before one added in front.
AfterLast(s, l) == Append(IF Len(s) = MaxPlayListLen THEN Tail(s) ELSE s, l)
AfterFront(s, l) == <<l>> \o (IF Len(s) = MaxPlayListLen THEN Front(s) ELSE s)

LEMMA SeqIsFunction ==
  ASSUME NEW S, NEW f \in Seq(S), NEW m, Len(f) = m
  PROVE  f = [i \in 1 .. m |-> f[i]]
OBVIOUS

LEMMA AppendIs ==
  ASSUME NEW S, NEW s \in Seq(S), NEW e \in S
  PROVE  Append(s, e) = [i \in 1 .. Len(s) + 1 |-> IF i <= Len(s) THEN s[i] ELSE e]
<1>1. Append(s, e) \in Seq(S) /\ Len(Append(s, e)) = Len(s) + 1 /\ Len(s) \in Nat
  OBVIOUS
<1>2. \A i \in 1 .. Len(s) + 1 : Append(s, e)[i] = IF i <= Len(s) THEN s[i] ELSE e
  OBVIOUS
<1>3. Append(s, e) = [i \in 1 .. Len(s) + 1 |-> Append(s, e)[i]]
  BY <1>1, SeqIsFunction
<1> QED BY <1>2, <1>3

LEMMA AfterLastIs ==
  ASSUME NEW S, NEW s \in Seq(S), Len(s) <= MaxPlayListLen, NEW l \in S
  PROVE  LET d == IF Len(s) = MaxPlayListLen THEN 1 ELSE 0
             m == Len(s) - d
         IN  AfterLast(s, l) = [i \in 1 .. m + 1 |-> IF i <= m THEN s[i + d] ELSE l]
<1>1. CASE Len(s) = MaxPlayListLen
  <2>1. AfterLast(s, l) = Append(Tail(s), l)
    BY <1>1 DEF AfterLast
  <2>2. Append(Tail(s), l) = [i \in 1 .. (Len(s) - 1) + 1 |-> IF i <= Len(s) - 1 THEN s[i + 1] ELSE l]
    <3>1. Tail(s) \in Seq(S) /\ Len(s) \in Nat /\ Len(Tail(s)) = Len(s) - 1
          /\ \A i \in 1 .. Len(s) - 1 : Tail(s)[i] = s[i + 1]
      BY <1>1, Sizes
    <3>2. Append(Tail(s), l)
            = [i \in 1 .. Len(Tail(s)) + 1 |-> IF i <= Len(Tail(s)) THEN Tail(s)[i] ELSE l]
      <4> DEFINE u == Tail(s)
      <4>1. u \in Seq(S)
        BY <3>1
      <4> HIDE DEF u
      <4>2. Append(u, l) = [i \in 1 .. Len(u) + 1 |-> IF i <= Len(u) THEN u[i] ELSE l]
        BY <4>1, AppendIs
      <4> QED BY <4>2 DEF u
    <3> QED BY <3>1, <3>2
  <2> QED BY <1>1, <2>1, <2>2
<1>2. CASE Len(s) # MaxPlayListLen
  <2>1. AfterLast(s, l) = Append(s, l)
    BY <1>2 DEF AfterLast
  <2>2. Append(s, l) = [i \in 1 .. (Len(s) - 0) + 1 |-> IF i <= Len(s) - 0 THEN s[i + 0] ELSE l]
    BY AppendIs
  <2> QED BY <1>2, <2>1, <2>2
<1> QED BY <1>1, <1>2

LEMMA AfterFrontIs ==
  ASSUME NEW S, NEW s \in Seq(S), Len(s) <= MaxPlayListLen, NEW l \in S
  PROVE  LET d == IF Len(s) = MaxPlayListLen THEN 1 ELSE 0
             m == Len(s) - d
         IN  AfterFront(s, l) = [i \in 1 .. m + 1 |-> IF i = 1 THEN l ELSE s[i - 1]]
<1>1. CASE Len(s) = MaxPlayListLen
  <2>1. AfterFront(s, l) = <<l>> \o SubSeq(s, 1, Len(s) - 1)
    BY <1>1 DEF AfterFront, Front
  <2>2. <<l>> \o SubSeq(s, 1, Len(s) - 1)
          = [i \in 1 .. (Len(s) - 1) + 1 |-> IF i = 1 THEN l ELSE s[i - 1]]
    BY <1>1, Sizes
  <2> QED BY <1>1, <2>1, <2>2
<1>2. CASE Len(s) # MaxPlayListLen
  <2>1. AfterFront(s, l) = <<l>> \o s
    BY <1>2 DEF AfterFront
  <2>2. <<l>> \o s = [i \in 1 .. (Len(s) - 0) + 1 |-> IF i = 1 THEN l ELSE s[i - 1]]
    OBVIOUS
  <2> QED BY <1>2, <2>1, <2>2
<1> QED BY <1>1, <1>2

\* An entry added last goes behind the others; a full list loses its first one.
LEMMA AddLastEffect ==
  ASSUME NEW s, Linked(s), TypeOK, Forgotten, NEW p \in Path, AddplaylistLast(p), ~crashed'
  PROVE  \E l \in Node :
           /\ Linked(AfterLast(s, l))' /\ TypeOK' /\ Forgotten'
           /\ l \notin live \ (IF Len(s) = MaxPlayListLen THEN {s[1]} ELSE {})
           /\ live' = (live \ (IF Len(s) = MaxPlayListLen THEN {s[1]} ELSE {})) \cup {l}
           /\ \A n \in live' : path'[n] = IF n = l THEN p ELSE path[n]
           /\ pagehead' = pagehead /\ selnode' = selnode
<1> DEFINE evict  == Len(s) = MaxPlayListLen
           last   == IF Len(s) = 0 THEN NULL ELSE s[Len(s)]
           second == next[filelist]
           kept   == live \ (IF evict THEN {filelist} ELSE {})
           d      == IF evict THEN 1 ELSE 0
           m      == Len(s) - d
<1>0. Order = s /\ LastOr(Order, NULL) = last
  BY Walks, LinkedFacts DEF LastOr, Last
<1>a. PICK l \in Node \ (live \ (IF Len(Order) = MaxPlayListLen THEN {filelist} ELSE {})) :
        /\ live' = (live \ (IF Len(Order) = MaxPlayListLen THEN {filelist} ELSE {})) \cup {l}
        /\ Store(With(With(next, LastOr(Order, NULL), l), l, NULL),
                 With(IF Len(Order) = MaxPlayListLen THEN PrvAfterDroppingFirst(next[filelist]) ELSE prv,
                      l, LastOr(Order, NULL)),
                 With(path, l, p))
        /\ filelist' = CASE Len(Order) = MaxPlayListLen -> next[filelist]
                         [] filelist = NULL             -> l
                         [] OTHER                       -> filelist
  BY DEF AddplaylistLast, Dereferencing
<1>1. /\ l \in Node \ kept
      /\ live' = kept \cup {l}
      /\ Store(With(With(next, last, l), l, NULL),
               With(IF evict THEN PrvAfterDroppingFirst(second) ELSE prv, l, last),
               With(path, l, p))
      /\ filelist' = IF evict THEN second ELSE IF filelist = NULL THEN l ELSE filelist
  <2>1. l \in Node \ kept /\ live' = kept \cup {l}
    BY <1>0, <1>a
  <2>2. filelist' = IF evict THEN second ELSE IF filelist = NULL THEN l ELSE filelist
    <3>1. ~(evict /\ filelist = NULL)
      BY LinkedFacts, Sizes
    <3> HIDE DEF evict
    <3>2. evict <=> Len(Order) = MaxPlayListLen
      BY <1>0 DEF evict
    <3>3. CASE evict
      BY <1>a, <3>1, <3>2, <3>3
    <3>4. CASE ~evict /\ filelist = NULL
      BY <1>a, <3>2, <3>4
    <3>5. CASE ~evict /\ filelist # NULL
      BY <1>a, <3>2, <3>5
    <3> QED BY <3>3, <3>4, <3>5
  <2>3. Store(With(With(next, last, l), l, NULL),
              With(IF evict THEN PrvAfterDroppingFirst(second) ELSE prv, l, last),
              With(path, l, p))
    <3> HIDE DEF last
    <3> QED BY <1>0, <1>a
  <2> QED BY <2>1, <2>2, <2>3
<1>2. crashed' = FALSE /\ pagehead' = pagehead /\ selnode' = selnode
  BY DEF AddplaylistLast, Dereferencing, TypeOK
<1> DEFINE t == [i \in 1 .. m + 1 |-> IF i <= m THEN s[i + d] ELSE l]
<1>3. AfterLast(s, l) = t
  BY AfterLastIs, LinkedFacts
<1>4. /\ Len(s) \in Nat /\ m \in Nat /\ m + 1 <= MaxPlayListLen /\ Len(s) = m + d /\ d \in {0, 1}
      /\ evict => Len(s) >= 2 /\ filelist = s[1] /\ second = s[2]
  BY LinkedFacts, Sizes
<1>5. kept = {s[i + d] : i \in 1 .. m}
  <2>1. CASE evict
    <3>1. kept = {s[i] : i \in 1 .. Len(s)} \ {s[1]}
      BY <1>4, <2>1, LinkedFacts
    <3>2. \A i \in 1 .. Len(s) : s[i] # s[1] <=> i > 1
      BY <1>4, <2>1, LinkedFacts
    <3>3. \A i \in 1 .. Len(s) : i > 1 => i - 1 \in 1 .. m /\ (i - 1) + d = i
      BY <1>4, <2>1
    <3>4. \A i \in 1 .. m : i + d \in 1 .. Len(s) /\ i + d > 1
      BY <1>4, <2>1
    <3> HIDE DEF kept, m, d, evict
    <3> QED BY <3>1, <3>2, <3>3, <3>4
  <2>2. CASE ~evict
    BY <2>2, <1>4, LinkedFacts
  <2> QED BY <2>1, <2>2
<1>6. \A i \in 1 .. m : /\ i + d \in 1 .. Len(s) /\ s[i + d] \in Node /\ s[i + d] # l /\ s[i + d] # NULL
                      /\ t[i] = s[i + d] /\ s[i + d] \in live'
  <2>1. \A i \in 1 .. m : i + d \in 1 .. Len(s)
    BY <1>4
  <2>2. \A i \in 1 .. m : s[i + d] \in kept
    BY <1>5
  <2>3. \A i \in 1 .. m : t[i] = s[i + d]
    <3> HIDE DEF m, d
    <3> QED BY <1>4
  <2>4. \A i \in 1 .. m : s[i + d] \in Node /\ s[i + d] # NULL
    <3> HIDE DEF m, d
    <3> QED BY <2>1, LinkedFacts
  <2>5. \A x \in kept : x # l /\ x \in live'
    BY <1>1
  <2> HIDE DEF kept, m, d, t
  <2> QED BY <2>1, <2>2, <2>3, <2>4, <2>5
<1>7. t[m + 1] = l /\ l \in Node /\ l # NULL /\ l \in live'
  <2>1. t[m + 1] = l
    <3> HIDE DEF m, d
    <3> QED BY <1>4
  <2> HIDE DEF t, kept
  <2> QED BY <1>1, <2>1, Sizes
<1>8. t \in [1 .. m + 1 -> Node]
  <2> HIDE DEF m, d
  <2> QED BY <1>4, <1>6, <1>7
<1>9. \A i, j \in 1 .. m + 1 : t[i] = t[j] => i = j
  <2> SUFFICES ASSUME NEW i \in 1 .. m + 1, NEW j \in 1 .. m + 1, t[i] = t[j] PROVE i = j
    OBVIOUS
  <2>1. (i \in 1 .. m \/ i = m + 1) /\ (j \in 1 .. m \/ j = m + 1)
    BY <1>4
  <2>2. CASE i \in 1 .. m /\ j \in 1 .. m
    <3>1. s[i + d] = s[j + d] /\ i + d \in 1 .. Len(s) /\ j + d \in 1 .. Len(s)
      BY <1>6, <2>2
    <3>2. i + d = j + d
      BY <3>1, LinkedFacts
    <3> QED BY <1>4, <3>2
  <2> HIDE DEF t, m, d
  <2> QED BY <1>6, <1>7, <2>1, <2>2
<1>10. live' = {t[i] : i \in 1 .. m + 1}
  <2>1. \A i \in 1 .. m + 1 : i \in 1 .. m \/ i = m + 1
    BY <1>4
  <2>2. \A i \in 1 .. m : i \in 1 .. m + 1
    BY <1>4
  <2>3. m + 1 \in 1 .. m + 1
    BY <1>4
  <2> HIDE DEF t, kept, m, d
  <2> QED BY <1>1, <1>5, <1>6, <1>7, <2>1, <2>2, <2>3
<1>11. filelist' = IF m + 1 = 0 THEN NULL ELSE t[1]
  <2>1. CASE evict
    <3>1. 1 \in 1 .. m /\ 1 + d = 2
      BY <1>4, <2>1
    <3> QED BY <1>1, <1>4, <1>6, <2>1, <3>1
  <2>2. CASE ~evict /\ Len(s) = 0
    BY <1>1, <1>4, <1>7, <2>2, LinkedFacts
  <2>3. CASE ~evict /\ Len(s) # 0
    <3>1. 1 \in 1 .. m /\ 1 + d = 1 /\ filelist = s[1] /\ s[1] # NULL
      BY <1>4, <2>3, LinkedFacts
    <3> QED BY <1>1, <1>4, <1>6, <2>3, <3>1
  <2> QED BY <2>1, <2>2, <2>3
<1>12. ASSUME NEW i \in 1 .. m + 1
       PROVE  /\ next'[t[i]] = IF i < m + 1 THEN t[i + 1] ELSE NULL
              /\ prv'[t[i]] = IF i > 1 THEN t[i - 1] ELSE NULL
  <2>1. CASE i = m + 1
    <3>1. next'[l] = NULL /\ prv'[l] = last
      BY <1>1, <1>7 DEF Store, With
    <3>2. last = IF i > 1 THEN t[i - 1] ELSE NULL
      <4>1. CASE i > 1
        <5>1. i - 1 = m /\ m \in 1 .. m /\ m + d = Len(s) /\ Len(s) # 0
          BY <1>4, <2>1, <4>1
        <5> HIDE DEF t, m, d
        <5> QED BY <1>6, <4>1, <5>1
      <4>2. CASE ~(i > 1)
        <5>1. m = 0
          <6> HIDE DEF t, m, d, last
          <6> QED BY <1>4, <2>1, <4>2
        <5>2. Len(s) = 0
          BY <1>4, <5>1
        <5> HIDE DEF t, m, d
        <5> QED BY <4>2, <5>2
      <4> HIDE DEF t, m, d, last
      <4> QED BY <4>1, <4>2
    <3> QED BY <1>4, <1>7, <2>1, <3>1, <3>2
  <2>2. CASE i \in 1 .. m
    <3> DEFINE x == s[i + d]
    <3>1. x \in Node /\ x # l /\ x \in live' /\ t[i] = x /\ i + d \in 1 .. Len(s)
      BY <1>6, <2>2
    <3>2. next'[x] = IF x = last THEN l ELSE next[x]
      BY <1>1, <3>1 DEF Store, With
    <3>3. x = last <=> i = m
      <4>1. Len(s) # 0 /\ Len(s) \in 1 .. Len(s) /\ last = s[Len(s)]
        BY <1>4, <3>1
      <4>2. i + d = Len(s) <=> i = m
        BY <1>4, <2>2
      <4> HIDE DEF last, m, d
      <4> QED BY <3>1, <4>1, <4>2, LinkedFacts
    <3>4. next[x] = IF i + d < Len(s) THEN s[(i + d) + 1] ELSE NULL
      BY <3>1, LinkedFacts
    <3>5. i < m => i + 1 \in 1 .. m /\ (i + d) + 1 = (i + 1) + d
      BY <1>4, <2>2
    <3>6. next'[x] = IF i < m + 1 THEN t[i + 1] ELSE NULL
      <4> HIDE DEF t, x, last, m, d
      <4>1. CASE i = m
        BY <1>4, <1>7, <3>2, <3>3, <4>1
      <4>2. CASE i # m
        <5>1. i < m /\ i + d < Len(s) /\ i < m + 1
          BY <1>4, <2>2, <4>2
        <5> QED BY <1>6, <3>2, <3>3, <3>4, <3>5, <4>2, <5>1
      <4> QED BY <4>1, <4>2
    <3>7. prv'[x] = IF evict /\ x = second THEN NULL ELSE prv[x]
      BY <1>1, <3>1 DEF Store, With, PrvAfterDroppingFirst
    <3>8. prv[x] = IF i + d > 1 THEN s[(i + d) - 1] ELSE NULL
      BY <3>1, LinkedFacts
    <3>9. prv'[x] = IF i > 1 THEN t[i - 1] ELSE NULL
      <4>1. CASE i = 1
        <5>1. evict => x = second
          BY <1>4, <4>1
        <5>2. ~evict => i + d = 1
          BY <4>1
        <5> HIDE DEF t, x, m, d
        <5> QED BY <3>7, <3>8, <4>1, <5>1, <5>2
      <4>2. CASE i # 1
        <5>1. i > 1 /\ i - 1 \in 1 .. m /\ (i + d) - 1 = (i - 1) + d /\ i + d > 1
          BY <1>4, <2>2, <4>2
        <5>2. evict => x # second
          <6>1. evict => i + d # 2 /\ 2 \in 1 .. Len(s)
            BY <1>4, <2>2, <4>2
          <6> QED BY <1>4, <3>1, <6>1, LinkedFacts
        <5> HIDE DEF t, x, m, d
        <5> QED BY <1>6, <3>7, <3>8, <5>1, <5>2
      <4> QED BY <4>1, <4>2
    <3> QED BY <3>1, <3>6, <3>9
  <2>3. i = m + 1 \/ i \in 1 .. m
    BY <1>4
  <2> QED BY <2>1, <2>2, <2>3
<1>13. Linked(t)'
  <2> HIDE DEF t, m, d
  <2>1. m + 1 \in Nat
    BY <1>4
  <2> QED BY <1>4, <1>8, <1>9, <1>10, <1>11, <1>12, <2>1, LinkedNext
<1>14. \A n \in live' : path'[n] = IF n = l THEN p ELSE path[n]
  <2>1. \A n \in live' : n \in Node
    BY <1>1 DEF TypeOK
  <2> QED BY <1>1, <2>1 DEF Store, With
<1>15. TypeOK' /\ Forgotten'
  <2>1. \A n \in live' : n \in Node
    BY <1>1 DEF TypeOK
  <2>2. \A n \in live' : With(path, l, p)[n] \in Path
    BY <2>1 DEF With, TypeOK
  <2>3. pagehead' \in Pointer /\ selnode' \in Pointer
    BY <1>2 DEF TypeOK
  <2> HIDE DEF t
  <2> QED BY <1>1, <1>2, <1>13, <2>2, <2>3, LinkTypes
<1>16. evict => filelist = s[1]
  BY <1>4
<1> QED BY <1>1, <1>2, <1>3, <1>13, <1>14, <1>15, <1>16

\* An entry added in front goes before the others; a full list loses its last one.
LEMMA AddFrontEffect ==
  ASSUME NEW s, Linked(s), TypeOK, Forgotten, NEW p \in Path, AddplaylistFront(p), ~crashed'
  PROVE  \E l \in Node :
           /\ Linked(AfterFront(s, l))' /\ TypeOK' /\ Forgotten' /\ Len(s) # 0
           /\ l \notin live \ (IF Len(s) = MaxPlayListLen THEN {s[Len(s)]} ELSE {})
           /\ live' = (live \ (IF Len(s) = MaxPlayListLen THEN {s[Len(s)]} ELSE {})) \cup {l}
           /\ \A n \in live' : path'[n] = IF n = l THEN p ELSE path[n]
           /\ pagehead' = pagehead /\ selnode' = selnode
<1> DEFINE evict  == Len(s) = MaxPlayListLen
           last   == s[Len(s)]
           before == s[Len(s) - 1]
           kept   == live \ (IF evict THEN {last} ELSE {})
           d      == IF evict THEN 1 ELSE 0
           m      == Len(s) - d
<1>0. Order = s
  BY Walks
<1>a. /\ \E l \in Node \ (live \ (IF Len(Order) = MaxPlayListLen THEN {LastOr(Order, NULL)} ELSE {})) :
         /\ live' = (live \ (IF Len(Order) = MaxPlayListLen THEN {LastOr(Order, NULL)} ELSE {})) \cup {l}
         /\ Store(With(IF Len(Order) = MaxPlayListLen THEN NextAfterDroppingLast(Order[Len(Order) - 1])
                       ELSE next, l, filelist),
                  With(With(prv, filelist, l), l, NULL),
                  With(path, l, p))
         /\ filelist' = l
      /\ filelist \in live
      /\ crashed' = FALSE /\ pagehead' = pagehead /\ selnode' = selnode
  BY DEF AddplaylistFront, Dereferencing, TypeOK
<1>b. Len(s) \in Nat /\ Len(s) # 0
  BY <1>a, LinkedFacts, Sizes DEF TypeOK
<1>c. LastOr(Order, NULL) = last
  BY <1>0, <1>b, LinkedFacts DEF LastOr, Last
<1>1. PICK l \in Node \ kept :
        /\ live' = kept \cup {l}
        /\ Store(With(IF evict THEN NextAfterDroppingLast(before) ELSE next, l, filelist),
                 With(With(prv, filelist, l), l, NULL),
                 With(path, l, p))
        /\ filelist' = l
  <2> HIDE DEF last
  <2> QED BY <1>0, <1>a, <1>c
<1>2. crashed' = FALSE /\ pagehead' = pagehead /\ selnode' = selnode
  BY <1>a
<1> DEFINE t == [i \in 1 .. m + 1 |-> IF i = 1 THEN l ELSE s[i - 1]]
<1>3. AfterFront(s, l) = t
  BY AfterFrontIs, LinkedFacts
<1>4. /\ m \in Nat /\ m + 1 <= MaxPlayListLen /\ Len(s) = m + d /\ d \in {0, 1} /\ m >= 1
      /\ filelist = s[1]
  BY <1>b, LinkedFacts, Sizes
<1>5. kept = {s[i] : i \in 1 .. m}
  <2>1. CASE evict
    <3>1. kept = {s[i] : i \in 1 .. Len(s)} \ {s[Len(s)]}
      BY <2>1, LinkedFacts
    <3>2. \A i \in 1 .. Len(s) : s[i] # s[Len(s)] <=> i < Len(s)
      BY <1>b, LinkedFacts
    <3>3. \A i \in 1 .. Len(s) : i < Len(s) <=> i \in 1 .. m
      BY <1>4, <2>1
    <3>4. \A i \in 1 .. m : i \in 1 .. Len(s)
      BY <1>4
    <3> HIDE DEF kept, m, d, evict
    <3> QED BY <3>1, <3>2, <3>3, <3>4
  <2>2. CASE ~evict
    BY <2>2, <1>4, LinkedFacts
  <2> QED BY <2>1, <2>2
<1>6. \A j \in 1 .. m : /\ j \in 1 .. Len(s) /\ s[j] \in Node /\ s[j] # l /\ s[j] # NULL
                      /\ j + 1 \in 1 .. m + 1 /\ t[j + 1] = s[j] /\ s[j] \in live'
  <2>1. \A j \in 1 .. m : j \in 1 .. Len(s) /\ j + 1 \in 1 .. m + 1
    BY <1>4
  <2>2. \A j \in 1 .. m : s[j] \in kept
    BY <1>5
  <2>3. \A j \in 1 .. m : t[j + 1] = s[j]
    <3> HIDE DEF m, d
    <3> QED BY <1>4
  <2>4. \A j \in 1 .. m : s[j] \in Node /\ s[j] # NULL
    <3> HIDE DEF m, d
    <3> QED BY <2>1, LinkedFacts
  <2>5. \A x \in kept : x # l /\ x \in live'
    BY <1>1
  <2> HIDE DEF kept, m, d, t
  <2> QED BY <2>1, <2>2, <2>3, <2>4, <2>5
<1>7. t[1] = l /\ l \in Node /\ l # NULL /\ l \in live' /\ 1 \in 1 .. m + 1
  <2>1. t[1] = l /\ 1 \in 1 .. m + 1
    <3> HIDE DEF m, d
    <3> QED BY <1>4
  <2> HIDE DEF t, kept
  <2> QED BY <1>1, <2>1, Sizes
<1>i. \A i \in 1 .. m + 1 : i = 1 \/ (i - 1 \in 1 .. m /\ (i - 1) + 1 = i)
  <2> HIDE DEF m
  <2> QED BY <1>4
<1>8. t \in [1 .. m + 1 -> Node]
  <2>1. \A i \in 1 .. m + 1 : t[i] \in Node
    <3> HIDE DEF m, d, t
    <3> QED BY <1>6, <1>7, <1>i
  <2> HIDE DEF m, d
  <2> QED BY <2>1
<1>9. \A i, j \in 1 .. m + 1 : t[i] = t[j] => i = j
  <2> SUFFICES ASSUME NEW i \in 1 .. m + 1, NEW j \in 1 .. m + 1, t[i] = t[j] PROVE i = j
    OBVIOUS
  <2> HIDE DEF t, m, d
  <2>1. CASE i = 1 \/ j = 1
    BY <1>6, <1>7, <1>i, <2>1
  <2>2. CASE i # 1 /\ j # 1
    <3>1. s[i - 1] = s[j - 1] /\ i - 1 \in 1 .. Len(s) /\ j - 1 \in 1 .. Len(s)
      BY <1>6, <1>i, <2>2
    <3>2. i - 1 = j - 1
      BY <3>1, LinkedFacts
    <3> QED BY <1>4, <3>2
  <2> QED BY <2>1, <2>2
<1>10. live' = {t[i] : i \in 1 .. m + 1}
  <2> HIDE DEF t, kept, m, d
  <2> QED BY <1>1, <1>5, <1>6, <1>7, <1>i
<1>11. filelist' = IF m + 1 = 0 THEN NULL ELSE t[1]
  <2> HIDE DEF t, m, d
  <2> QED BY <1>1, <1>4, <1>7
<1>12. ASSUME NEW i \in 1 .. m + 1
       PROVE  /\ next'[t[i]] = IF i < m + 1 THEN t[i + 1] ELSE NULL
              /\ prv'[t[i]] = IF i > 1 THEN t[i - 1] ELSE NULL
  <2>1. CASE i = 1
    <3>1. next'[l] = filelist /\ prv'[l] = NULL
      BY <1>1, <1>7 DEF Store, With
    <3>2. 1 \in 1 .. m /\ 1 < m + 1
      BY <1>4
    <3> HIDE DEF t, m, d
    <3> QED BY <1>4, <1>6, <1>7, <2>1, <3>1, <3>2
  <2>2. CASE i # 1
    <3> DEFINE j == i - 1
               x == s[j]
    <3>0. j \in 1 .. m /\ j + 1 = i /\ i > 1
      BY <1>4, <1>i, <2>2
    <3>1. x \in Node /\ x # l /\ x \in live' /\ t[i] = x /\ j \in 1 .. Len(s)
      <4> HIDE DEF t, m, d, j
      <4> QED BY <1>6, <3>0
    <3>2. next'[x] = IF evict /\ x = before THEN NULL ELSE next[x]
      BY <1>1, <3>1 DEF Store, With, NextAfterDroppingLast
    <3>3. next[x] = IF j < Len(s) THEN s[j + 1] ELSE NULL
      BY <3>1, LinkedFacts
    <3>4. next'[x] = IF i < m + 1 THEN t[i + 1] ELSE NULL
      <4>1. CASE j = m
        <5>1. evict => x = before
          BY <1>4, <4>1
        <5>2. ~evict => j = Len(s)
          BY <1>4, <4>1
        <5> HIDE DEF t, x, m, d, j
        <5> QED BY <1>4, <3>0, <3>2, <3>3, <4>1, <5>1, <5>2
      <4>2. CASE j # m
        <5>1. j < m /\ j < Len(s) /\ j + 1 \in 1 .. m /\ (j + 1) + 1 = i + 1 /\ i < m + 1
          <6> HIDE DEF t, x, m, d, j, evict
          <6> QED BY <1>4, <1>b, <3>0, <4>2
        <5>2. evict => x # before
          <6>1. evict => j # Len(s) - 1 /\ Len(s) - 1 \in 1 .. Len(s)
            BY <1>4, <3>0, <4>2
          <6> QED BY <3>1, <6>1, LinkedFacts
        <5>3. t[i + 1] = s[j + 1]
          <6> HIDE DEF t, m, d, j
          <6> QED BY <1>6, <5>1
        <5> HIDE DEF t, x, m, d, j
        <5> QED BY <3>2, <3>3, <5>1, <5>2, <5>3
      <4> QED BY <4>1, <4>2
    <3>5. prv'[x] = IF x = filelist THEN l ELSE prv[x]
      BY <1>1, <3>1 DEF Store, With
    <3>6. prv[x] = IF j > 1 THEN s[j - 1] ELSE NULL
      BY <3>1, LinkedFacts
    <3>7. x = filelist <=> j = 1
      BY <1>4, <3>1, LinkedFacts
    <3>8. prv'[x] = t[i - 1]
      <4>1. CASE j = 1
        <5> HIDE DEF t, m, d, x
        <5> QED BY <1>7, <3>5, <3>7, <4>1
      <4>2. CASE j # 1
        <5>1. j > 1 /\ j - 1 \in 1 .. m /\ (j - 1) + 1 = i - 1
          BY <1>4, <3>0, <4>2
        <5>2. t[i - 1] = s[j - 1]
          <6> HIDE DEF t, m, d, j
          <6> QED BY <1>6, <5>1
        <5> HIDE DEF t, x, m, d, j
        <5> QED BY <3>5, <3>6, <3>7, <4>2, <5>1, <5>2
      <4> QED BY <4>1, <4>2
    <3> HIDE DEF t, x, m, d, j
    <3> QED BY <3>0, <3>1, <3>4, <3>8
  <2> QED BY <2>1, <2>2
<1>13. Linked(t)'
  <2> HIDE DEF t, m, d
  <2>1. m + 1 \in Nat
    BY <1>4
  <2> QED BY <1>4, <1>8, <1>9, <1>10, <1>11, <1>12, <2>1, LinkedNext
<1>14. \A n \in live' : path'[n] = IF n = l THEN p ELSE path[n]
  <2>1. \A n \in live' : n \in Node
    BY <1>1 DEF TypeOK
  <2> QED BY <1>1, <2>1 DEF Store, With
<1>15. TypeOK' /\ Forgotten'
  <2>1. \A n \in live' : n \in Node
    BY <1>1 DEF TypeOK
  <2>2. \A n \in live' : With(path, l, p)[n] \in Path
    BY <2>1 DEF With, TypeOK
  <2>3. pagehead' \in Pointer /\ selnode' \in Pointer
    BY <1>2 DEF TypeOK
  <2> HIDE DEF t
  <2> QED BY <1>1, <1>2, <1>13, <2>2, <2>3, LinkTypes
<1> HIDE DEF t
<1> QED BY <1>b, <1>1, <1>2, <1>3, <1>13, <1>14, <1>15
\* The list without its entry k.
Without(s, k) == [i \in 1 .. Len(s) - 1 |-> IF i < k THEN s[i] ELSE s[i + 1]]

\* A node of the list is taken out of it; the list had another.
LEMMA RemoveEffect ==
  ASSUME NEW s, Linked(s), TypeOK, Forgotten, NEW k \in 1 .. Len(s),
         RemoveplayNode(s[k]), ~crashed'
  PROVE  /\ Linked(Without(s, k))' /\ TypeOK' /\ Forgotten' /\ Len(s) >= 2
         /\ live' = live \ {s[k]}
         /\ \A n \in live' : path'[n] = path[n]
         /\ pagehead' = PageAfterRemoval(s[k]) /\ selnode' = selnode
<1> DEFINE n      == Len(s)
           m      == n - 1
           before == IF k > 1 THEN s[k - 1] ELSE NULL
           after  == IF k < n THEN s[k + 1] ELSE NULL
           t      == Without(s, k)
<1>1. /\ s \in Seq(Node) /\ n \in Nat /\ n <= MaxPlayListLen /\ k \in Nat /\ k >= 1 /\ k <= n
      /\ before = prv[s[k]] /\ after = next[s[k]]
      /\ k > 1 => k - 1 \in 1 .. n
      /\ k < n => k + 1 \in 1 .. n
  BY LinkedFacts
<1>2. /\ pagehead' = PageAfterRemoval(s[k])
      /\ live' = live \ {s[k]}
      /\ Store(With(next, before, after), With(prv, after, before), path)
      /\ filelist' = IF before = NULL THEN after ELSE filelist
      /\ selnode' = selnode /\ crashed' = FALSE
      /\ before = NULL => after \in live
  <2> HIDE DEF before, after
  <2> QED BY <1>1 DEF RemoveplayNode, Dereferencing, PrvAfterRemoval, TypeOK
<1>3. n >= 2 /\ m \in Nat /\ m <= MaxPlayListLen /\ m + 1 = n
  <2>1. k = 1 => after # NULL
    BY <1>2, Sizes DEF TypeOK
  <2>2. k = 1 => k < n
    BY <2>1
  <2> QED BY <1>1, <2>2, Sizes
<1>4. ASSUME NEW i \in 1 .. m
      PROVE  /\ i \in 1 .. n /\ i + 1 \in 1 .. n
             /\ i < k => t[i] = s[i] /\ i # k
             /\ ~(i < k) => t[i] = s[i + 1] /\ i + 1 # k
  <2>1. t[i] = IF i < k THEN s[i] ELSE s[i + 1]
    BY DEF Without
  <2> HIDE DEF t, n, m
  <2>2. i \in 1 .. n /\ i + 1 \in 1 .. n
    BY <1>1, <1>3
  <2> QED BY <1>1, <1>3, <2>1, <2>2
<1>5. \A i, j \in 1 .. n : s[i] = s[j] => i = j
  BY LinkedFacts
<1>6. \A i \in 1 .. m : t[i] \in live' /\ t[i] \in Node /\ t[i] # NULL
  <2>1. \A i \in 1 .. n : s[i] \in live /\ s[i] \in Node /\ s[i] # NULL
    BY LinkedFacts
  <2> SUFFICES ASSUME NEW i \in 1 .. m
               PROVE  t[i] \in live' /\ t[i] \in Node /\ t[i] # NULL
    OBVIOUS
  <2> HIDE DEF t, n, m
  <2>2. CASE i < k
    BY <1>1, <1>2, <1>4, <1>5, <2>1, <2>2
  <2>3. CASE ~(i < k)
    BY <1>1, <1>2, <1>4, <1>5, <2>1, <2>3
  <2> QED BY <2>2, <2>3
<1>7. t \in [1 .. m -> Node] /\ DOMAIN t = 1 .. m
  <2>1. t = [i \in 1 .. m |-> t[i]]
    BY DEF Without
  <2> HIDE DEF t, m
  <2> QED BY <1>6, <2>1
<1>8. \A i, j \in 1 .. m : t[i] = t[j] => i = j
  <2> SUFFICES ASSUME NEW i \in 1 .. m, NEW j \in 1 .. m, t[i] = t[j] PROVE i = j
    OBVIOUS
  <2> HIDE DEF t, n, m
  <2>1. CASE i < k /\ j < k
    BY <1>4, <1>5, <2>1
  <2>2. CASE i < k /\ ~(j < k)
    <3>1. i = j + 1
      BY <1>4, <1>5, <2>2
    <3> QED BY <1>1, <2>2, <3>1
  <2>3. CASE ~(i < k) /\ j < k
    <3>1. i + 1 = j
      BY <1>4, <1>5, <2>3
    <3> QED BY <1>1, <2>3, <3>1
  <2>4. CASE ~(i < k) /\ ~(j < k)
    <3>1. i + 1 = j + 1
      BY <1>4, <1>5, <2>4
    <3> QED BY <3>1
  <2> QED BY <2>1, <2>2, <2>3, <2>4
<1>9. live' = {t[i] : i \in 1 .. m}
  <2> SUFFICES ASSUME NEW x \in live' PROVE \E i \in 1 .. m : x = t[i]
    BY <1>6
  <2>1. PICK j \in 1 .. n : x = s[j] /\ j # k
    BY <1>2, LinkedFacts
  <2>2. CASE j < k
    <3>1. j \in 1 .. m
      BY <1>1, <2>2
    <3> HIDE DEF t, n, m
    <3> QED BY <1>4, <2>1, <2>2, <3>1
  <2>3. CASE ~(j < k)
    <3>1. j - 1 \in 1 .. m /\ ~(j - 1 < k) /\ (j - 1) + 1 = j
      BY <1>1, <2>1, <2>3
    <3> HIDE DEF t, n, m
    <3> QED BY <1>4, <2>1, <3>1
  <2> QED BY <2>2, <2>3
<1>10. filelist' = IF m = 0 THEN NULL ELSE t[1]
  <2>0. 1 \in 1 .. m /\ m # 0
    BY <1>3
  <2>1. CASE k = 1
    <3>1. before = NULL /\ k < n /\ after = s[2] /\ ~(1 < k) /\ 1 + 1 = 2
      BY <1>3, <2>1
    <3> HIDE DEF t, n, m, before, after
    <3> QED BY <1>2, <1>4, <2>0, <3>1
  <2>2. CASE k # 1
    <3>1. before # NULL /\ 1 < k
      BY <1>1, <2>2, LinkedFacts
    <3>2. filelist = s[1]
      BY <1>3, LinkedFacts
    <3> HIDE DEF t, n, m, before, after
    <3> QED BY <1>2, <1>4, <2>0, <3>1, <3>2
  <2> QED BY <2>1, <2>2
<1>11. ASSUME NEW i \in 1 .. m
       PROVE  /\ next'[t[i]] = IF i < m THEN t[i + 1] ELSE NULL
              /\ prv'[t[i]] = IF i > 1 THEN t[i - 1] ELSE NULL
  <2> DEFINE x == t[i]
  <2>1. next'[x] = IF x = before THEN after ELSE next[x]
    <3>1. x \in Node /\ x \in live'
      BY <1>6
    <3> HIDE DEF x, before, after
    <3> QED BY <1>2, <3>1 DEF Store, With
  <2>2. prv'[x] = IF x = after THEN before ELSE prv[x]
    <3>1. x \in Node /\ x \in live'
      BY <1>6
    <3> HIDE DEF x, before, after
    <3> QED BY <1>2, <3>1 DEF Store, With
  <2>3. \A j \in 1 .. n : /\ next[s[j]] = IF j < n THEN s[j + 1] ELSE NULL
                          /\ prv[s[j]] = IF j > 1 THEN s[j - 1] ELSE NULL
    BY LinkedFacts
  <2>4. x = before <=> i = k - 1
    <3> HIDE DEF t, n, m
    <3>1. CASE k > 1
      <4>1. i < k => (x = before <=> i = k - 1)
        BY <1>1, <1>4, <1>5, <3>1
      <4>2. ~(i < k) => (x = before <=> i + 1 = k - 1)
        BY <1>1, <1>4, <1>5, <3>1
      <4> QED BY <1>1, <4>1, <4>2
    <3>2. CASE ~(k > 1)
      <4>1. i # k - 1
        BY <1>1, <3>2
      <4> QED BY <1>6, <3>2, <4>1
    <3> QED BY <3>1, <3>2
  <2>5. x = after <=> i = k
    <3> HIDE DEF t, n, m
    <3>1. CASE k < n
      <4>1. i < k => (x = after <=> i = k + 1)
        BY <1>1, <1>4, <1>5, <3>1
      <4>2. ~(i < k) => (x = after <=> i + 1 = k + 1)
        BY <1>1, <1>4, <1>5, <3>1
      <4> QED BY <1>1, <4>1, <4>2
    <3>2. CASE ~(k < n)
      <4>1. i # k
        BY <1>1, <1>3, <3>2
      <4> QED BY <1>6, <3>2, <4>1
    <3> QED BY <3>1, <3>2
  <2>6. next'[x] = IF i < m THEN t[i + 1] ELSE NULL
    <3>1. CASE i = k - 1
      <4>1. (i < m <=> k < n) /\ i + 1 = k
        BY <1>1, <3>1
      <4>2. k < n => k \in 1 .. m /\ ~(k < k)
        BY <1>1
      <4> HIDE DEF t, x, n, m
      <4> QED BY <1>4, <2>1, <2>4, <3>1, <4>1, <4>2
    <3>2. CASE i # k - 1 /\ i < k
      <4>1. i < m /\ i < n /\ i + 1 < k /\ i + 1 \in 1 .. m
        BY <1>1, <3>2
      <4> HIDE DEF t, x, n, m, before, after
      <4>2. x = s[i] /\ i \in 1 .. n /\ t[i + 1] = s[i + 1]
        BY <1>4, <3>2, <4>1 DEF x
      <4> QED BY <2>1, <2>3, <2>4, <3>2, <4>1, <4>2
    <3>3. CASE ~(i < k)
      <4>1. /\ i # k - 1 /\ (i + 1 < n <=> i < m)
            /\ i < m => i + 1 \in 1 .. m /\ ~(i + 1 < k)
        BY <1>1, <3>3
      <4> HIDE DEF t, x, n, m, before, after
      <4>2. x = s[i + 1] /\ i + 1 \in 1 .. n /\ (i < m => t[i + 1] = s[(i + 1) + 1])
        BY <1>4, <3>3, <4>1 DEF x
      <4> QED BY <2>1, <2>3, <2>4, <4>1, <4>2
    <3> QED BY <3>1, <3>2, <3>3
  <2>7. prv'[x] = IF i > 1 THEN t[i - 1] ELSE NULL
    <3>1. CASE i = k
      <4>1. k > 1 => k - 1 \in 1 .. m /\ k - 1 < k
        BY <1>1, <3>1
      <4> HIDE DEF t, x, n, m
      <4> QED BY <1>4, <2>2, <2>5, <3>1, <4>1
    <3>2. CASE i < k
      <4>1. i # k /\ (i > 1 => i - 1 \in 1 .. m /\ i - 1 < k)
        BY <1>1, <3>2
      <4> HIDE DEF t, x, n, m, before, after
      <4>2. x = s[i] /\ i \in 1 .. n /\ (i > 1 => t[i - 1] = s[i - 1])
        BY <1>4, <3>2, <4>1 DEF x
      <4> QED BY <2>2, <2>3, <2>5, <3>2, <4>1, <4>2
    <3>3. CASE i > k
      <4>1. /\ i # k /\ ~(i < k) /\ i > 1 /\ i - 1 \in 1 .. m /\ ~(i - 1 < k)
            /\ (i - 1) + 1 = i /\ (i + 1) - 1 = i /\ i + 1 > 1
        BY <1>1, <3>3
      <4> HIDE DEF t, x, n, m, before, after
      <4>2. x = s[i + 1] /\ i + 1 \in 1 .. n /\ t[i - 1] = s[i]
        BY <1>4, <4>1 DEF x
      <4> QED BY <2>2, <2>3, <2>5, <4>1, <4>2
    <3> QED BY <1>1, <3>1, <3>2, <3>3
  <2> HIDE DEF t
  <2> QED BY <2>6, <2>7
<1>12. Linked(t)'
  <2> HIDE DEF t, m
  <2> QED BY <1>3, <1>7, <1>8, <1>9, <1>10, <1>11, LinkedNext
<1>13. \A x \in live' : path'[x] = path[x]
  <2>1. \A x \in live' : x \in Node
    BY <1>2 DEF TypeOK
  <2> QED BY <1>2, <2>1 DEF Store
<1>14. TypeOK' /\ Forgotten'
  <2>1. \A x \in live' : path[x] \in Path
    BY <1>2 DEF TypeOK
  <2>2. pagehead' \in Pointer /\ selnode' \in Pointer
    <3>1. s[k] \in Node
      BY LinkedFacts
    <3> QED BY <1>2, <3>1 DEF TypeOK, PageAfterRemoval, Pointer
  <2> HIDE DEF t, before, after
  <2> QED BY <1>2, <1>12, <2>1, <2>2, LinkTypes
<1> HIDE DEF before, after, m
<1> QED BY <1>2, <1>3, <1>12, <1>13, <1>14
\* An operation that is undefined, or that only reads, keeps the list.
LEMMA HeapKept ==
  ASSUME NEW s, Linked(s), TypeOK, Forgotten, UNCHANGED <<live, next, prv, filelist>>,
         path' \in [Node -> Path],
         pagehead' \in Pointer, selnode' \in Pointer, crashed' \in BOOLEAN
  PROVE  Linked(s)' /\ TypeOK' /\ Forgotten'
<1>1. Linked(s)'
  BY DEF Linked
<1>2. TypeOK'
  BY DEF TypeOK, Pointer
<1> QED BY <1>1, <1>2 DEF Forgotten

\* Two neighbours exchange their paths.
LEMMA SwapEffect ==
  ASSUME NEW s, Linked(s), TypeOK, Forgotten, NEW k \in 1 .. Len(s), NEW forward \in BOOLEAN,
         SwapplayNode(s[k], forward), ~crashed'
  PROVE  \E j \in 1 .. Len(s) :
           /\ j = IF forward THEN k + 1 ELSE k - 1
           /\ Linked(s)' /\ TypeOK' /\ Forgotten'
           /\ path' = [path EXCEPT ![s[k]] = path[s[j]], ![s[j]] = path[s[k]]]
           /\ live' = live /\ pagehead' = pagehead
<1> DEFINE other  == IF forward THEN next[s[k]] ELSE prv[s[k]]
           behind == IF forward THEN prv[s[k]] ELSE next[s[k]]
           j      == IF forward THEN k + 1 ELSE k - 1
<1>1. /\ other # NULL
      /\ path' = [path EXCEPT ![s[k]] = path[other], ![other] = path[s[k]]]
      /\ selnode' = SelectionAfterSwap(s[k], other, behind)
      /\ live' = live /\ next' = next /\ prv' = prv /\ filelist' = filelist
      /\ pagehead' = pagehead /\ crashed' = FALSE
  BY DEF SwapplayNode, Dereferencing, TypeOK
<1>2. j \in 1 .. Len(s) /\ other = s[j]
  BY <1>1, LinkedFacts
<1>3. path' \in [Node -> Path]
  <2>1. s[k] \in Node /\ s[j] \in Node
    <3> HIDE DEF j
    <3> QED BY <1>2, LinkedFacts
  <2> HIDE DEF other, j
  <2> QED BY <1>1, <1>2, <2>1 DEF TypeOK
<1>4. selnode' \in Pointer
  <2>1. selnode \in Pointer /\ s[k] \in Node /\ pagehead \in Pointer
    BY LinkedFacts DEF TypeOK
  <2>2. other \in Pointer /\ behind \in Pointer
    BY <2>1 DEF TypeOK, Pointer
  <2>3. \/ selnode' = other \/ selnode' = behind \/ selnode' = selnode
    <3> HIDE DEF other, behind
    <3>1. CASE selnode = s[k]
      BY <1>1, <3>1 DEF SelectionAfterSwap
    <3>2. CASE selnode # s[k] /\ selnode = other
      BY <1>1, <3>2 DEF SelectionAfterSwap
    <3>3. CASE selnode # s[k] /\ selnode # other
      BY <1>1, <3>3 DEF SelectionAfterSwap
    <3> QED BY <3>1, <3>2, <3>3
  <2> QED BY <2>1, <2>2, <2>3
<1>5. Linked(s)' /\ TypeOK' /\ Forgotten'
  <2>1. pagehead' \in Pointer /\ crashed' \in BOOLEAN
    BY <1>1 DEF TypeOK
  <2> QED BY <1>1, <1>3, <1>4, <2>1, HeapKept
<1> HIDE DEF other
<1> QED BY <1>1, <1>2, <1>5

\* Nothing is left of the list.
LEMMA DeleteEffect ==
  ASSUME NEW s, Linked(s), TypeOK, Forgotten, Discard, ~crashed'
  PROVE  Linked(<<>>)' /\ TypeOK' /\ Forgotten' /\ pagehead' = NULL
<1>1. Order = s
  BY Walks
<1>2. /\ live' = live \ Range(s) /\ Store(next, prv, path)
      /\ filelist' = NULL /\ pagehead' = NULL /\ selnode' = NULL /\ crashed' = FALSE
  BY <1>1 DEF Discard, DeleteList, Dereferencing, TypeOK
<1>3. live' = {}
  BY <1>2 DEF Linked
<1>4. Linked(<<>>)'
  BY <1>2, <1>3, Sizes DEF Linked, Range, IsInjective
<1>5. TypeOK' /\ Forgotten'
  <2>1. NULL \in Pointer /\ \A n \in live' : path[n] \in Path
    BY <1>3 DEF Pointer
  <2> DEFINE e == <<>>
  <2>2. Linked(e)'
    BY <1>4
  <2> HIDE DEF e
  <2> QED BY <1>2, <2>1, <2>2, LinkTypes
<1> QED BY <1>2, <1>4, <1>5

\* Where the page goes from position k of a list of n entries, 0 before there is
\* a page.
PageAhead(n, k) ==
  LET start == IF k = 0 THEN 1 ELSE IF k + PageListLen <= n THEN k + PageListLen ELSE k
      last  == IF n > PageListLen THEN n - PageListLen + 1 ELSE 1
  IN  IF start < last THEN start ELSE last

PageBefore(k) == IF k > PageListLen THEN k - PageListLen ELSE 1
LEMMA PageBounds ==
  ASSUME NEW n \in Nat \ {0}, NEW k \in 0 .. n
  PROVE  PageAhead(n, k) \in 1 .. n /\ PageBefore(k) \in 1 .. n
BY Sizes DEF PageAhead, PageBefore

\* A walk from a freed node shows that node only.
LEMMA WalkDangling ==
  ASSUME Forgotten, NEW n \in Node \ live
  PROVE  Walk(next, n) = <<n>>
<1> DEFINE w == <<n>>
<1>1. w \in Seq(Node) /\ Len(w) = 1 /\ DOMAIN w = 1 .. 1 /\ w[1] = n /\ w # <<>>
  OBVIOUS
<1>2. next[n] = NULL
  BY DEF Forgotten
<1> HIDE DEF w
<1>3. \A i \in DOMAIN w : next[w[i]] = IF i < Len(w) THEN w[i + 1] ELSE NULL
  BY <1>1, <1>2
<1>4. n = (IF w = <<>> THEN NULL ELSE w[1]) /\ n \in Node
  BY <1>1
<1>5. Len(w) <= Cardinality(Node)
  BY <1>1, Sizes
<1>6. Walk(next, n) = w
  BY <1>1, <1>3, <1>4, <1>5, WalkIs
<1> QED BY <1>6 DEF w

LEMMA LastOfFrom ==
  ASSUME NEW s \in Seq(Node), NEW k \in 1 .. Len(s)
  PROVE  /\ Len(From(s, k)) = Len(s) - k + 1
         /\ \A i \in 1 .. Len(s) - k + 1 : From(s, k)[i] = s[k + i - 1]
         /\ Len(Back(s, k)) = k
         /\ \A i \in 1 .. k : Back(s, k)[i] = s[k + 1 - i]
         /\ Back(s, k) # <<>> /\ Last(Back(s, k)) = s[1]
<1>1. Len(s) - k + 1 \in Nat /\ k \in Nat /\ k >= 1
  OBVIOUS
<1>2. Len(From(s, k)) = Len(s) - k + 1 /\ Len(Back(s, k)) = k
  <2>1. \A i \in 1 .. Len(s) - k + 1 : k + i - 1 \in 1 .. Len(s)
    BY <1>1
  <2>2. \A i \in 1 .. k : k + 1 - i \in 1 .. Len(s)
    BY <1>1
  <2>3. From(s, k) \in [1 .. Len(s) - k + 1 -> Node] /\ Back(s, k) \in [1 .. k -> Node]
    BY <2>1, <2>2 DEF From, Back
  <2> QED BY <1>1, <2>3, FunctionIsSeq
<1>3. Back(s, k)[k] = s[1]
  BY <1>1 DEF Back
<1>4. Back(s, k) # <<>>
  <2> DEFINE b == Back(s, k)
  <2>1. Len(b) # 0
    BY <1>1, <1>2
  <2> HIDE DEF b
  <2>2. b # <<>>
    BY <2>1
  <2> QED BY <2>2 DEF b
<1>5. Last(Back(s, k)) = s[1]
  BY <1>2, <1>3 DEF Last
<1> QED BY <1>2, <1>4, <1>5 DEF From, Back

\* The page goes where PageAhead and PageBefore say.  A page whose first node was
\* freed would have been dereferenced.
LEMMA GetPageEffect ==
  ASSUME NEW s, Linked(s), TypeOK, Forgotten, NEW forward \in BOOLEAN,
         GetPage(forward), ~crashed'
  PROVE  \E k \in 0 .. Len(s) :
           /\ pagehead = IF k = 0 THEN NULL ELSE s[k]
           /\ pagehead' = IF Len(s) = 0 THEN NULL
                          ELSE s[IF forward THEN PageAhead(Len(s), k) ELSE PageBefore(k)]
           /\ UNCHANGED <<live, next, prv, path, filelist, selnode>> /\ crashed' = FALSE
<1> DEFINE ahead  == Walk(next, pagehead)
           head   == IF pagehead = NULL THEN filelist
                     ELSE IF forward /\ Len(ahead) > PageListLen THEN ahead[PageListLen + 1]
                     ELSE pagehead
           walked == Walk(IF forward THEN next ELSE prv, head)
           turn   == IF forward THEN head ELSE LastOr(walked, NULL)
           back   == Walk(prv, turn)
           short  == Short(walked)
           n      == Len(s)
<1>1. /\ pagehead' = IF Len(walked) > PageListLen
                     THEN IF forward THEN head ELSE walked[PageListLen + 1]
                     ELSE IF turn = NULL THEN pagehead
                     ELSE IF short < Len(back) THEN back[short + 1] ELSE Last(back)
      /\ UNCHANGED <<live, next, prv, path, filelist, selnode>>
      /\ crashed' = FALSE
      /\ Range(ahead) \subseteq live
  <2> HIDE DEF ahead, walked, turn, short, back, head
  <2> QED BY DEF GetPage, Dereferencing, TypeOK, heap, ahead, walked, turn, short, back, head
<1>2. s \in Seq(Node) /\ n \in Nat /\ (\A i \in 1 .. n : s[i] # NULL) /\ PageListLen \in Nat \ {0}
      /\ filelist = IF n = 0 THEN NULL ELSE s[1]
  BY LinkedFacts, Sizes
<1>3. pagehead \in live \cup {NULL}
  <2>1. CASE pagehead \in Node \ live
    <3>1. ahead = <<pagehead>>
      BY <2>1, WalkDangling
    <3>2. pagehead \in Range(<<pagehead>>)
      BY DEF Range
    <3> QED BY <1>1, <2>1, <3>1, <3>2
  <2> QED BY <2>1 DEF TypeOK, Pointer
<1>4. PICK k \in 0 .. n : pagehead = IF k = 0 THEN NULL ELSE s[k]
  <2>1. CASE pagehead = NULL
    BY <1>2, <2>1
  <2>2. CASE pagehead # NULL
    <3>1. PICK i \in 1 .. n : pagehead = s[i]
      BY <1>3, <2>2, LinkedFacts
    <3>2. i \in 0 .. n /\ i # 0
      BY <1>2
    <3> QED BY <3>1, <3>2
  <2> QED BY <2>1, <2>2
<1>5. CASE n = 0
  <2>1. pagehead = NULL /\ head = NULL /\ k = 0
    BY <1>2, <1>4, <1>5
  <2>2. walked = <<>>
    <3> HIDE DEF head
    <3> QED BY <2>1, WalkNull
  <2>3. turn = NULL /\ Len(walked) = 0
    <3> HIDE DEF head, walked
    <3> QED BY <2>1, <2>2 DEF LastOr
  <2>4. pagehead' = NULL
    <3> HIDE DEF head, walked, turn, short, back
    <3> QED BY <1>1, <1>2, <2>1, <2>3
  <2> HIDE DEF n
  <2> QED BY <1>1, <1>4, <1>5, <2>4 DEF n
<1>6. CASE n # 0
  <2> DEFINE start == IF k = 0 THEN 1 ELSE IF k + PageListLen <= n THEN k + PageListLen ELSE k
             h     == IF k = 0 THEN 1 ELSE IF forward THEN start ELSE k
  <2>1. h \in 1 .. n
    BY <1>2, <1>6
  <2>2. head = s[h]
    <3>1. CASE k = 0
      BY <1>2, <1>4, <1>6, <3>1
    <3>2. CASE k # 0
      <4>1. k \in 1 .. n /\ pagehead = s[k] /\ pagehead # NULL
        BY <1>2, <1>4, <3>2
      <4>2. ahead = From(s, k)
        <5>1. DOMAIN s = 1 .. Len(s)
          BY LinkedFacts
        <5> QED BY <4>1, <5>1, Walks
      <4>3. Len(ahead) = n - k + 1 /\ \A i \in 1 .. n - k + 1 : ahead[i] = s[k + i - 1]
        <5> HIDE DEF ahead
        <5> QED BY <1>2, <4>1, <4>2, LastOfFrom
      <4> HIDE DEF ahead, n
      <4>4. Len(ahead) > PageListLen <=> k + PageListLen <= n
        BY <1>2, <4>1, <4>3
      <4>5. k + PageListLen <= n => ahead[PageListLen + 1] = s[k + PageListLen]
        <5>1. k + PageListLen <= n
                => PageListLen + 1 \in 1 .. n - k + 1 /\ k + (PageListLen + 1) - 1 = k + PageListLen
          BY <1>2, <4>1
        <5> QED BY <4>3, <5>1
      <4> QED BY <3>2, <4>1, <4>4, <4>5
    <3> QED BY <3>1, <3>2
  <2>3. head # NULL
    <3> HIDE DEF head, h, n
    <3> QED BY <1>2, <2>1, <2>2
  <2>4. DOMAIN s = 1 .. n
    BY LinkedFacts
  <2>5. CASE forward
    <3> DEFINE last == IF n > PageListLen THEN n - PageListLen + 1 ELSE 1
    <3>0. h = start
      BY <2>5
    <3>1. walked = From(s, h) /\ turn = s[h] /\ turn # NULL /\ back = Back(s, h)
      <4> HIDE DEF h
      <4> QED BY <1>2, <2>1, <2>2, <2>3, <2>4, <2>5, Walks
    <3>2. /\ Len(walked) = n - h + 1 /\ short = PageListLen - (n - h + 1)
          /\ Len(back) = h /\ (\A i \in 1 .. h : back[i] = s[h + 1 - i]) /\ Last(back) = s[1]
      <4> HIDE DEF walked, back, h
      <4> QED BY <1>2, <2>1, <3>1, LastOfFrom DEF Short
    <3> HIDE DEF walked, turn, back, short, head, h, n
    <3>3. pagehead' = s[IF h < last THEN h ELSE last]
      <4>1. CASE n - h + 1 > PageListLen
        <5>1. h < last
          BY <1>2, <2>1, <4>1
        <5> QED BY <1>1, <2>2, <2>5, <3>2, <4>1, <5>1
      <4>2. CASE ~(n - h + 1 > PageListLen) /\ short < h
        <5>1. ~(h < last) /\ short + 1 \in 1 .. h /\ h + 1 - (short + 1) = last
          BY <1>2, <2>1, <3>2, <4>2
        <5> HIDE DEF last
        <5> QED BY <1>1, <3>1, <3>2, <4>2, <5>1
      <4>3. CASE ~(n - h + 1 > PageListLen) /\ ~(short < h)
        <5>1. ~(h < last) /\ last = 1
          BY <1>2, <2>1, <3>2, <4>3
        <5> HIDE DEF last
        <5> QED BY <1>1, <3>1, <3>2, <4>3, <5>1
      <4> QED BY <4>1, <4>2, <4>3
    <3>4. PageAhead(n, k) = IF h < last THEN h ELSE last
      BY <3>0 DEF PageAhead
    <3> QED BY <1>1, <1>4, <1>6, <2>5, <3>3, <3>4 DEF n
  <2>6. CASE ~forward
    <3>0. h = IF k = 0 THEN 1 ELSE k
      BY <2>6
    <3>1. walked = Back(s, h)
      <4> HIDE DEF h, head
      <4> QED BY <1>2, <2>1, <2>2, <2>4, <2>6, Walks
    <3>2. /\ Len(walked) = h /\ (\A i \in 1 .. h : walked[i] = s[h + 1 - i])
          /\ Last(walked) = s[1] /\ walked # <<>> /\ short = PageListLen - h
      <4> HIDE DEF walked, h
      <4> QED BY <1>2, <2>1, <3>1, LastOfFrom DEF Short
    <3>3. turn = s[1] /\ turn # NULL /\ 1 \in 1 .. n
      <4>1. 1 \in 1 .. n
        BY <1>2, <1>6
      <4> HIDE DEF walked, n
      <4> QED BY <1>2, <2>6, <3>2, <4>1 DEF LastOr
    <3>4. back = Back(s, 1)
      <4> HIDE DEF turn
      <4> QED BY <2>4, <3>3, Walks
    <3>5. Len(back) = 1 /\ back[1] = s[1] /\ Last(back) = s[1]
      <4>1. 1 \in 1 .. 1 /\ 1 + 1 - 1 = 1
        OBVIOUS
      <4> HIDE DEF back
      <4> QED BY <1>2, <3>3, <3>4, <4>1, LastOfFrom
    <3> HIDE DEF walked, turn, back, short, head, h, n
    <3>6. pagehead' = s[IF h > PageListLen THEN h - PageListLen ELSE 1]
      <4>1. CASE h > PageListLen
        <5>1. PageListLen + 1 \in 1 .. h /\ h + 1 - (PageListLen + 1) = h - PageListLen
          BY <1>2, <2>1, <4>1
        <5> QED BY <1>1, <2>6, <3>2, <4>1, <5>1
      <4>2. CASE ~(h > PageListLen)
        <5>1. short < 1 => short + 1 = 1
          BY <1>2, <2>1, <3>2, <4>2
        <5> QED BY <1>1, <3>2, <3>3, <3>5, <4>2, <5>1
      <4> QED BY <4>1, <4>2
    <3>7. PageBefore(k) = IF h > PageListLen THEN h - PageListLen ELSE 1
      BY <1>2, <3>0 DEF PageBefore
    <3> QED BY <1>1, <1>4, <1>6, <2>6, <3>6, <3>7 DEF n
  <2> QED BY <2>5, <2>6
<1> HIDE DEF n
<1> QED BY <1>5, <1>6
--------------------------------------------------------------------------------
(* The invariant.                                                          *)

\* Find leads to a node of the list.
LEMMA FindIs ==
  ASSUME NEW s, Linked(s), NEW p \in Path, Find(p) # NULL
  PROVE  \E k \in 1 .. Len(s) : Find(p) = s[k]
<1>1. Order = s /\ DOMAIN s = 1 .. Len(s)
  BY Walks, LinkedFacts
<1> DEFINE at == {i \in 1 .. Len(s) : path[s[i]] = p}
<1>2. Find(p) = IF at = {} THEN NULL ELSE s[Min(at)]
  BY <1>1 DEF Find
<1>3. at # {} /\ at \in SUBSET Nat /\ \A i \in at : i \in 1 .. Len(s)
  BY <1>2
<1> HIDE DEF at
<1>4. Min(at) \in at
  BY <1>3, MinExists
<1> QED BY <1>2, <1>3, <1>4

\* The steps, with the nodes given by their positions in the list.
LEMMA NextCases ==
  ASSUME NEW s, Linked(s), Next
  PROVE  \/ \E p \in Path : AddplaylistLast(p) \/ AddplaylistFront(p)
         \/ \E k \in 1 .. Len(s) : \/ RemoveplayNode(s[k])
                                   \/ \E forward \in BOOLEAN : SwapplayNode(s[k], forward)
         \/ \E forward \in BOOLEAN : GetPage(forward)
         \/ Discard
         \/ Displaylist \/ DisplayPage \/ Select \/ Crashed
<1>1. ASSUME NEW p \in Path, Removeplaylist(p)
      PROVE  \E k \in 1 .. Len(s) : RemoveplayNode(s[k])
  BY <1>1, FindIs DEF Removeplaylist
<1>2. ASSUME NEW p \in Path, NEW forward \in BOOLEAN, Swapplaylist(p, forward)
      PROVE  \E k \in 1 .. Len(s) : SwapplayNode(s[k], forward)
  BY <1>2, FindIs DEF Swapplaylist
<1>3. \A node \in Range(Order) : \E k \in 1 .. Len(s) : node = s[k]
  BY Walks, LinkedFacts DEF Range
<1> QED BY <1>1, <1>2, <1>3 DEF Next

\* An undefined operation says nothing about the list, and so is none of it.
LEMMA CrashKeeps ==
  ASSUME NEW s, Linked(s), Next, crashed'
  PROVE  UNCHANGED <<live, next, prv, path, filelist, pagehead, selnode>>
<1>1. ASSUME NEW p \in Path, AddplaylistLast(p)
      PROVE  UNCHANGED <<live, next, prv, path, filelist, pagehead, selnode>>
  BY <1>1 DEF AddplaylistLast, Dereferencing, heap
<1>2. ASSUME NEW p \in Path, AddplaylistFront(p)
      PROVE  UNCHANGED <<live, next, prv, path, filelist, pagehead, selnode>>
  BY <1>2 DEF AddplaylistFront, Dereferencing, heap
<1>3. ASSUME NEW k \in 1 .. Len(s), RemoveplayNode(s[k])
      PROVE  UNCHANGED <<live, next, prv, path, filelist, pagehead, selnode>>
  BY <1>3 DEF RemoveplayNode, Dereferencing, heap
<1>4. ASSUME NEW k \in 1 .. Len(s), NEW forward \in BOOLEAN, SwapplayNode(s[k], forward)
      PROVE  UNCHANGED <<live, next, prv, path, filelist, pagehead, selnode>>
  BY <1>4 DEF SwapplayNode, Dereferencing, heap
<1>5. ASSUME NEW forward \in BOOLEAN, GetPage(forward)
      PROVE  UNCHANGED <<live, next, prv, path, filelist, pagehead, selnode>>
  BY <1>5 DEF GetPage, Dereferencing, heap
<1>6. CASE Discard
  BY <1>6 DEF Discard, Dereferencing, heap
<1>7. CASE Displaylist \/ DisplayPage
  BY <1>7 DEF Displaylist, DisplayPage, Dereferencing, heap
<1>8. CASE Select \/ Crashed
  BY <1>8 DEF Select, Crashed, vars, heap
<1> QED BY <1>1, <1>2, <1>3, <1>4, <1>5, <1>6, <1>7, <1>8, NextCases

\* The operations that print, and the caller's selection, leave the list.
LEMMA Reading ==
  ASSUME Displaylist \/ DisplayPage \/ Select \/ Crashed, TypeOK
  PROVE  /\ UNCHANGED <<live, next, prv, path, filelist, pagehead>>
         /\ selnode' \in Pointer /\ crashed' \in BOOLEAN
<1>1. CASE Displaylist
  BY <1>1 DEF Displaylist, Dereferencing, heap, TypeOK
<1>2. CASE DisplayPage
  BY <1>2 DEF DisplayPage, Dereferencing, heap, TypeOK
<1>3. CASE Select \/ Crashed
  BY <1>3 DEF Select, Crashed, vars, heap, TypeOK
<1> QED BY <1>1, <1>2, <1>3

\* Whether an operation is undefined is decided by what it dereferences.
LEMMA CrashedType ==
  ASSUME NEW s, Linked(s), TypeOK, Next
  PROVE  crashed' \in BOOLEAN
<1>1. ASSUME NEW p \in Path, AddplaylistLast(p) PROVE crashed' \in BOOLEAN
  BY <1>1 DEF AddplaylistLast, Dereferencing
<1>2. ASSUME NEW p \in Path, AddplaylistFront(p) PROVE crashed' \in BOOLEAN
  BY <1>2 DEF AddplaylistFront, Dereferencing
<1>3. ASSUME NEW k \in 1 .. Len(s), RemoveplayNode(s[k]) PROVE crashed' \in BOOLEAN
  BY <1>3 DEF RemoveplayNode, Dereferencing
<1>4. ASSUME NEW k \in 1 .. Len(s), NEW forward \in BOOLEAN, SwapplayNode(s[k], forward)
      PROVE  crashed' \in BOOLEAN
  BY <1>4 DEF SwapplayNode, Dereferencing
<1>5. ASSUME NEW forward \in BOOLEAN, GetPage(forward) PROVE crashed' \in BOOLEAN
  BY <1>5 DEF GetPage, Dereferencing
<1>6. CASE Discard
  BY <1>6 DEF Discard, Dereferencing
<1> QED BY <1>1, <1>2, <1>3, <1>4, <1>5, <1>6, NextCases, Reading

LEMMA ListInit == Init => ListIInv
<1> SUFFICES ASSUME Init PROVE ListIInv
  OBVIOUS
<1> DEFINE e == <<>>
<1>1. e \in Seq(Node) /\ Len(e) = 0 /\ DOMAIN e = {} /\ Range(e) = {} /\ e = <<>>
  BY DEF Range
<1>2. Linked(e)
  <2> HIDE DEF e
  <2> QED BY <1>1, Sizes DEF Linked, Init, IsInjective
<1>3. Order = e
  <2> HIDE DEF e
  <2> QED BY <1>2, Walks
<1>4. TypeOK /\ Forgotten
  <2>1. Blank \in Path
    BY PlayListAssumption DEF Blank
  <2> QED BY <2>1 DEF Init, TypeOK, Forgotten, Pointer
<1> QED BY <1>2, <1>3, <1>4 DEF ListIInv

\* Every operation mends the links of the whole list.
LEMMA ListStep == ListIInv /\ [Next]_vars => ListIInv'
<1> SUFFICES ASSUME ListIInv, [Next]_vars PROVE ListIInv'
  OBVIOUS
<1>1. PICK s : Linked(s) /\ TypeOK /\ Forgotten
  BY DEF ListIInv
<1>2. SUFFICES ASSUME Next
               PROVE  \E t : Linked(t)' /\ TypeOK' /\ Forgotten'
  <2>1. ASSUME UNCHANGED vars PROVE ListIInv'
    <3>1. Linked(s)' /\ TypeOK' /\ Forgotten'
      <4>1. /\ UNCHANGED <<live, next, prv, filelist>>
            /\ path' \in [Node -> Path]
            /\ pagehead' \in Pointer /\ selnode' \in Pointer /\ crashed' \in BOOLEAN
        BY <1>1, <2>1 DEF vars, heap, TypeOK
      <4> QED BY <1>1, <4>1, HeapKept
    <3>2. Order' = s
      BY <3>1, OrderNext
    <3> QED BY <3>1, <3>2 DEF ListIInv
  <2>2. ASSUME Next, \E t : Linked(t)' /\ TypeOK' /\ Forgotten' PROVE ListIInv'
    <3>1. PICK t : Linked(t)' /\ TypeOK' /\ Forgotten'
      BY <2>2
    <3>2. Order' = t
      BY <3>1, OrderNext
    <3> QED BY <3>1, <3>2 DEF ListIInv
  <2> QED BY <2>1, <2>2
<1>3. CASE crashed'
  <2>1. UNCHANGED <<live, next, prv, path, filelist, pagehead, selnode>> /\ crashed' \in BOOLEAN
    BY <1>1, <1>2, <1>3, CrashKeeps, CrashedType
  <2> QED BY <1>1, <2>1, HeapKept DEF TypeOK
<1>4. CASE ~crashed'
  <2>1. ASSUME NEW p \in Path, AddplaylistLast(p) PROVE \E t : Linked(t)' /\ TypeOK' /\ Forgotten'
    BY <1>1, <1>4, <2>1, AddLastEffect
  <2>2. ASSUME NEW p \in Path, AddplaylistFront(p) PROVE \E t : Linked(t)' /\ TypeOK' /\ Forgotten'
    BY <1>1, <1>4, <2>2, AddFrontEffect
  <2>3. ASSUME NEW k \in 1 .. Len(s), RemoveplayNode(s[k])
        PROVE  \E t : Linked(t)' /\ TypeOK' /\ Forgotten'
    BY <1>1, <1>4, <2>3, RemoveEffect
  <2>4. ASSUME NEW k \in 1 .. Len(s), NEW forward \in BOOLEAN, SwapplayNode(s[k], forward)
        PROVE  \E t : Linked(t)' /\ TypeOK' /\ Forgotten'
    BY <1>1, <1>4, <2>4, SwapEffect
  <2>5. ASSUME NEW forward \in BOOLEAN, GetPage(forward)
        PROVE  \E t : Linked(t)' /\ TypeOK' /\ Forgotten'
    <3>1. PICK k \in 0 .. Len(s) :
            /\ pagehead' = IF Len(s) = 0 THEN NULL
                           ELSE s[IF forward THEN PageAhead(Len(s), k) ELSE PageBefore(k)]
            /\ UNCHANGED <<live, next, prv, path, filelist, selnode>> /\ crashed' = FALSE
      BY <1>1, <1>4, <2>5, GetPageEffect
    <3>2. pagehead' \in Pointer
      <4>1. CASE Len(s) = 0
        BY <3>1, <4>1 DEF Pointer
      <4>2. CASE Len(s) # 0
        <5>1. Len(s) \in Nat \ {0} /\ \A i \in 1 .. Len(s) : s[i] \in Node
          BY <1>1, <4>2, LinkedFacts
        <5>2. PageAhead(Len(s), k) \in 1 .. Len(s) /\ PageBefore(k) \in 1 .. Len(s)
          BY <5>1, PageBounds
        <5> QED BY <3>1, <4>2, <5>1, <5>2 DEF Pointer
      <4> QED BY <4>1, <4>2
    <3>3. path' \in [Node -> Path] /\ selnode' \in Pointer
      BY <1>1, <3>1 DEF TypeOK
    <3> QED BY <1>1, <3>1, <3>2, <3>3, HeapKept
  <2>6. CASE Discard
    BY <1>1, <1>4, <2>6, DeleteEffect
  <2>7. CASE Displaylist \/ DisplayPage \/ Select \/ Crashed
    <3>1. UNCHANGED <<live, next, prv, path, filelist, pagehead>>
          /\ selnode' \in Pointer /\ crashed' \in BOOLEAN
      BY <1>1, <2>7, Reading
    <3> QED BY <1>1, <3>1, HeapKept DEF TypeOK
  <2> QED BY <1>1, <1>2, <2>1, <2>2, <2>3, <2>4, <2>5, <2>6, <2>7, NextCases
<1> QED BY <1>3, <1>4

\* In every state the nodes on the heap are those of one list, linked alike in
\* both directions, whatever operations of playlinklist.c came before.
THEOREM ListInductive == Spec => []ListIInv
BY ListInit, ListStep, PTL DEF Spec

\* No sequence of operations leaks a node, cuts the list, leaves a stale prv or
\* grows the list beyond MAXPLAYLISTLEN.
THEOREM ListWellFormed == Spec => []WellFormed
<1>1. ListIInv => WellFormed
  <2> SUFFICES ASSUME ListIInv PROVE WellFormed
    OBVIOUS
  <2> DEFINE s == Order
  <2>1. Linked(s) /\ TypeOK /\ s = Order
    BY DEF ListIInv
  <2> HIDE DEF s
  <2>2. IsInjective(s) /\ Range(s) = live /\ Len(s) <= MaxPlayListLen /\ s \in Seq(Node)
        /\ Len(s) \in Nat /\ DOMAIN s = 1 .. Len(s)
    BY <2>1 DEF Linked
  <2>3. Walk(prv, LastOr(s, NULL)) = Reverse(s)
    <3>1. CASE s = <<>>
      <4>1. LastOr(s, NULL) = NULL
        BY <3>1 DEF LastOr
      <4>2. Reverse(s) = <<>>
        BY <3>1 DEF Reverse
      <4> QED BY <4>1, <4>2, WalkNull
    <3>2. CASE s # <<>>
      <4>1. Len(s) \in DOMAIN s
        BY <2>2, <3>2
      <4>2. LastOr(s, NULL) = s[Len(s)]
        BY <3>2 DEF LastOr, Last
      <4>3. Walk(prv, s[Len(s)]) = Back(s, Len(s))
        BY <2>1, <4>1, Walks
      <4>4. \A i \in 1 .. Len(s) : Len(s) + 1 - i = (Len(s) - i) + 1
        BY <2>2
      <4>5. Back(s, Len(s)) = Reverse(s)
        BY <4>4 DEF Back, Reverse
      <4> QED BY <4>2, <4>3, <4>5
    <3> QED BY <3>1, <3>2
  <2> QED BY <2>1, <2>2, <2>3 DEF WellFormed
<1> QED BY ListInductive, <1>1, PTL
--------------------------------------------------------------------------------
(* What a step may never do.                                               *)

\* A walk that sets out from a node of the list stays on it.
LEMMA WalkStays ==
  ASSUME NEW s, Linked(s), NEW n \in live \cup {NULL}, NEW field \in {next, prv}
  PROVE  LET w == Walk(field, n)
         IN  /\ w \in Seq(live) /\ Range(w) \subseteq live
             /\ LastOr(w, NULL) \in live \cup {NULL}
<1> DEFINE w == Walk(field, n)
<1>1. w \in Seq(live)
  <2>1. CASE n = NULL
    <3>1. w = <<>>
      BY <2>1, WalkNull
    <3> QED BY <3>1
  <2>2. CASE n # NULL
    <3>1. PICK k \in 1 .. Len(s) : n = s[k]
      BY <2>2, LinkedFacts
    <3>2. w = From(s, k) \/ w = Back(s, k)
      BY <3>1, Walks, LinkedFacts
    <3>3. /\ Len(s) - k + 1 \in Nat /\ k \in Nat
          /\ \A i \in 1 .. Len(s) - k + 1 : k + i - 1 \in 1 .. Len(s)
          /\ \A i \in 1 .. k : k + 1 - i \in 1 .. Len(s)
      BY LinkedFacts
    <3>4. From(s, k) \in [1 .. Len(s) - k + 1 -> live] /\ Back(s, k) \in [1 .. k -> live]
      BY <3>3, LinkedFacts DEF From, Back
    <3>5. From(s, k) \in Seq(live) /\ Back(s, k) \in Seq(live)
      BY <3>3, <3>4, FunctionIsSeq
    <3> HIDE DEF w
    <3> QED BY <3>2, <3>5
  <2> QED BY <2>1, <2>2
<1> HIDE DEF w
<1>2. Range(w) \subseteq live
  BY <1>1 DEF Range
<1>3. LastOr(w, NULL) \in live \cup {NULL}
  <2>1. w # <<>> => Len(w) \in 1 .. Len(w)
    BY <1>1
  <2> QED BY <1>1, <2>1 DEF LastOr, Last
<1> QED BY <1>1, <1>2, <1>3 DEF w

\* Paging and showing a page are defined whenever the page is in place, and
\* printing or deleting the list always is.
LEMMA GetPageSafe ==
  ASSUME NEW s, Linked(s), PageInPlace, NEW forward \in BOOLEAN, GetPage(forward)
  PROVE  ~crashed'
<1> DEFINE ahead  == Walk(next, pagehead)
           head   == IF pagehead = NULL THEN filelist
                     ELSE IF forward /\ Len(ahead) > PageListLen THEN ahead[PageListLen + 1]
                     ELSE pagehead
           walked == Walk(IF forward THEN next ELSE prv, head)
           turn   == IF forward THEN head ELSE LastOr(walked, NULL)
           back   == Walk(prv, turn)
<1>1. ahead \in Seq(live) /\ Range(ahead) \subseteq live
  BY WalkStays DEF PageInPlace
<1>2. head \in live \cup {NULL}
  <2>1. Len(ahead) > PageListLen => PageListLen + 1 \in 1 .. Len(ahead)
    <3> HIDE DEF ahead
    <3> QED BY <1>1, Sizes
  <2>2. Len(ahead) > PageListLen => ahead[PageListLen + 1] \in live
    <3> HIDE DEF ahead
    <3> QED BY <1>1, <2>1
  <2>3. filelist \in live \cup {NULL}
    <3>1. Len(s) # 0 => 1 \in 1 .. Len(s)
      BY LinkedFacts
    <3> QED BY <3>1, LinkedFacts
  <2> HIDE DEF ahead
  <2> QED BY <2>2, <2>3 DEF PageInPlace
<1> HIDE DEF head
<1>3. Range(walked) \subseteq live /\ LastOr(walked, NULL) \in live \cup {NULL}
  BY <1>2, WalkStays
<1> HIDE DEF walked
<1>4. turn \in live \cup {NULL}
  BY <1>2, <1>3
<1> HIDE DEF turn
<1>5. Range(back) \subseteq live
  BY <1>4, WalkStays
<1> HIDE DEF back, ahead
<1>6. crashed' = ~((Range(ahead) \cup Range(walked) \cup Range(back)) \subseteq live)
  BY DEF GetPage, Dereferencing, ahead, head, walked, turn, back
<1> QED BY <1>1, <1>3, <1>5, <1>6

LEMMA DisplaySafe ==
  ASSUME NEW s, Linked(s), PageInPlace, Discard \/ Displaylist \/ DisplayPage
  PROVE  ~crashed'
<1>1. CASE Discard \/ Displaylist
  <2>1. Order = s /\ Range(s) = live
    BY Walks DEF Linked
  <2> QED BY <1>1, <2>1 DEF Discard, Displaylist, Dereferencing
<1>2. CASE DisplayPage
  <2> DEFINE w == Walk(next, pagehead)
             n == Min({PageListLen, Len(w)})
  <2>1. w \in Seq(live)
    BY WalkStays DEF PageInPlace
  <2>2. n \in Nat /\ n <= Len(w)
    <3> HIDE DEF w
    <3>1. {PageListLen, Len(w)} \in SUBSET Nat
      BY <2>1, Sizes
    <3> QED BY <3>1, MinExists
  <2>3. Range(SubSeq(w, 1, n)) \subseteq live
    <3> HIDE DEF w, n
    <3> QED BY <2>1, <2>2 DEF Range
  <2> HIDE DEF w
  <2>4. crashed' = ~(Range(SubSeq(w, 1, n)) \subseteq live)
    BY <1>2 DEF DisplayPage, Dereferencing, Ahead, w
  <2> QED BY <2>3, <2>4
<1> QED BY <1>1, <1>2

\* With two entries and the page in place, all that is dereferenced is allocated.
LEMMA NoCrash ==
  ASSUME NEW s, Linked(s), TypeOK, ~crashed, Len(s) >= 2, PageInPlace, Next
  PROVE  ~crashed'
<1>1. /\ Order = s /\ Range(s) = live
      /\ filelist = s[1] /\ filelist \in live /\ next[filelist] = s[2] /\ s[2] \in live
  <2>1. 1 \in 1 .. Len(s) /\ 2 \in 1 .. Len(s) /\ 1 + 1 = 2 /\ 1 < Len(s) /\ Len(s) # 0
    BY LinkedFacts
  <2> QED BY <2>1, LinkedFacts, Walks DEF Linked
<1>2. ASSUME NEW p \in Path, AddplaylistLast(p) PROVE ~crashed'
  BY <1>1, <1>2 DEF AddplaylistLast, Dereferencing
<1>3. ASSUME NEW p \in Path, AddplaylistFront(p) PROVE ~crashed'
  BY <1>1, <1>3 DEF AddplaylistFront, Dereferencing
<1>4. ASSUME NEW k \in 1 .. Len(s), RemoveplayNode(s[k]) PROVE ~crashed'
  <2>1. s[k] \in live /\ next[s[k]] \in live \cup {NULL} /\ prv[s[k]] \in live \cup {NULL}
    BY LinkedFacts DEF TypeOK
  <2>2. prv[s[k]] = NULL => next[s[k]] \in live
    <3>1. k > 1 => k - 1 \in 1 .. Len(s)
      BY LinkedFacts
    <3>2. prv[s[k]] = NULL => k = 1
      BY <3>1, LinkedFacts
    <3> QED BY <1>1, <3>2
  <2> QED BY <1>4, <2>1, <2>2 DEF RemoveplayNode, Dereferencing, NonNull
<1>5. ASSUME NEW k \in 1 .. Len(s), NEW forward \in BOOLEAN, SwapplayNode(s[k], forward)
      PROVE  ~crashed'
  <2>1. s[k] \in live /\ next[s[k]] \in live \cup {NULL} /\ prv[s[k]] \in live \cup {NULL}
    BY LinkedFacts DEF TypeOK
  <2> QED BY <1>5, <2>1 DEF SwapplayNode, Dereferencing, NonNull
<1>6. ASSUME NEW forward \in BOOLEAN, GetPage(forward) PROVE ~crashed'
  BY <1>6, GetPageSafe
<1>7. CASE Discard \/ Displaylist \/ DisplayPage
  BY <1>7, DisplaySafe
<1>8. CASE Select \/ Crashed
  BY <1>8 DEF Select, Crashed
<1> QED BY <1>2, <1>3, <1>4, <1>5, <1>6, <1>7, <1>8, NextCases

\* No call of playlinklist.c dereferences NULL or a freed node while the list has
\* two entries or more and headoflist is NULL or one of them.
THEOREM CrashesAtTheEdges == Spec => CrashOnlyAtTheEdges
<1>1. ListIInv /\ [Next]_vars
        => [~crashed /\ crashed' => Len(Order) < 2 \/ ~PageInPlace]_vars
  <2> SUFFICES ASSUME ListIInv, Next, ~crashed, crashed', PageInPlace
               PROVE  Len(Order) < 2
    OBVIOUS
  <2>1. PICK s : s = Order /\ Linked(s) /\ TypeOK
    BY DEF ListIInv
  <2>2. Len(s) \in Nat /\ ~(Len(s) >= 2)
    BY <2>1, NoCrash, LinkedFacts
  <2> QED BY <2>1, <2>2
<1> QED BY ListInductive, <1>1, PTL DEF Spec, CrashOnlyAtTheEdges

\* swapplayNode moves the selection with the entry it moves.
THEOREM SelectionMoves == Spec => SelectionFollows
<1>1. ListIInv /\ [Next]_vars
        => [\A forward \in BOOLEAN :
              selnode \in live /\ SwapplayNode(selnode, forward)
                => path'[selnode'] = path[selnode]]_vars
  <2> SUFFICES ASSUME ListIInv, NEW forward \in BOOLEAN,
                      selnode \in live, SwapplayNode(selnode, forward)
               PROVE  path'[selnode'] = path[selnode]
    OBVIOUS
  <2> DEFINE other  == IF forward THEN next[selnode] ELSE prv[selnode]
             behind == IF forward THEN prv[selnode] ELSE next[selnode]
  <2>1. selnode \in Node /\ other \in Node \cup {NULL} /\ path \in [Node -> Path]
    BY DEF ListIInv, TypeOK
  <2>2. CASE crashed'
    BY <2>2 DEF SwapplayNode, Dereferencing, heap
  <2>3. CASE ~crashed'
    <3>1. /\ other # NULL
          /\ path' = [path EXCEPT ![selnode] = path[other], ![other] = path[selnode]]
          /\ selnode' = SelectionAfterSwap(selnode, other, behind)
      BY <2>3 DEF SwapplayNode, Dereferencing
    <3>2. selnode # other
      <4>1. PICK s : Linked(s)
        BY DEF ListIInv
      <4>2. PICK k \in 1 .. Len(s) : selnode = s[k]
        BY <4>1, LinkedFacts
      <4>3. Len(s) \in Nat /\ (k < Len(s) => k + 1 \in 1 .. Len(s) /\ k + 1 # k)
            /\ (k > 1 => k - 1 \in 1 .. Len(s) /\ k - 1 # k)
        BY <4>1, LinkedFacts
      <4>4. next[s[k]] # s[k] /\ prv[s[k]] # s[k]
        BY <4>1, <4>3, LinkedFacts
      <4> QED BY <4>2, <4>4
    <3> HIDE DEF other, behind
    <3>3. selnode' = other
      BY <3>1, <3>2 DEF SelectionAfterSwap
    <3> QED BY <2>1, <3>1, <3>3
  <2> QED BY <2>2, <2>3
<1> QED BY ListInductive, <1>1, PTL DEF Spec, SelectionFollows
--------------------------------------------------------------------------------
(* The list implements the sequence of paths with its page.                *)

\* Entries and Position of a list s, a path field and a page.
PathsOf(s, pth) == [i \in 1 .. Len(s) |-> pth[s[i]]]
PosOf(s, head) == IF head = NULL THEN 0
                  ELSE IF head \in Range(s) THEN CHOOSE i \in DOMAIN s : s[i] = head
                  ELSE Lost

LEMMA Mapped ==
  ASSUME NEW s, Linked(s)
  PROVE  Entries = PathsOf(s, path) /\ Position = PosOf(s, pagehead)
<1>1. Order = s /\ DOMAIN s = 1 .. Len(s)
  BY Walks, LinkedFacts
<1> QED BY <1>1 DEF Entries, Position, PathsOf, PosOf

LEMMA MappedNext ==
  ASSUME NEW s, Linked(s)'
  PROVE  Entries' = PathsOf(s, path') /\ Position' = PosOf(s, pagehead')
<1>1. s \in Seq(Node)
  BY DEF Linked
<1>2. Order' = s /\ DOMAIN s = 1 .. Len(s)
  BY <1>1, OrderNext
<1> QED BY <1>2 DEF Entries, Position, PathsOf, PosOf

LEMMA PathsAre ==
  ASSUME NEW s \in Seq(Node), NEW pth \in [Node -> Path]
  PROVE  /\ PathsOf(s, pth) \in Seq(Path) /\ Len(PathsOf(s, pth)) = Len(s)
         /\ DOMAIN PathsOf(s, pth) = 1 .. Len(s)
         /\ \A i \in 1 .. Len(s) : PathsOf(s, pth)[i] = pth[s[i]]
<1>1. PathsOf(s, pth) \in [1 .. Len(s) -> Path] /\ Len(s) \in Nat
  BY DEF PathsOf
<1>2. \A i \in 1 .. Len(s) : PathsOf(s, pth)[i] = pth[s[i]]
  BY DEF PathsOf
<1> DEFINE e == PathsOf(s, pth)
<1> HIDE DEF e
<1>3. e \in Seq(Path) /\ Len(e) = Len(s) /\ DOMAIN e = 1 .. Len(s)
  BY <1>1, FunctionIsSeq DEF e
<1> QED BY <1>2, <1>3 DEF e

\* Positions of entries are unlike one another.
LEMMA PositionIs ==
  ASSUME NEW s \in Seq(Node), \A i, j \in 1 .. Len(s) : s[i] = s[j] => i = j
  PROVE  /\ PosOf(s, NULL) = 0
         /\ \A k \in 1 .. Len(s) : PosOf(s, s[k]) = k
         /\ \A x \in Node : (\A k \in 1 .. Len(s) : x # s[k]) => PosOf(s, x) = Lost
         /\ \A k \in 0 .. Len(s) : k # Lost
<1>1. DOMAIN s = 1 .. Len(s) /\ \A k \in 1 .. Len(s) : s[k] \in Node /\ s[k] # NULL
  BY Sizes
<1>2. ASSUME NEW k \in 1 .. Len(s) PROVE PosOf(s, s[k]) = k
  <2>1. s[k] \in Range(s) /\ s[k] # NULL
    BY <1>1 DEF Range
  <2>2. \A i \in DOMAIN s : s[i] = s[k] => i = k
    BY <1>1
  <2> QED BY <1>1, <2>1, <2>2 DEF PosOf
<1>3. ASSUME NEW x \in Node, \A k \in 1 .. Len(s) : x # s[k] PROVE PosOf(s, x) = Lost
  <2>1. x # NULL /\ x \notin Range(s)
    BY <1>1, <1>3, Sizes DEF Range
  <2> QED BY <2>1 DEF PosOf
<1>4. \A k \in 0 .. Len(s) : k # Lost
  BY PlayListAssumption
<1> QED BY <1>2, <1>3, <1>4 DEF PosOf

\* Where the page stands: nowhere, on an entry, or on a node that was freed.
LEMMA PageCases ==
  ASSUME NEW s, Linked(s), TypeOK
  PROVE  \/ pagehead = NULL /\ Position = 0
         \/ \E k \in 1 .. Len(s) : pagehead = s[k] /\ Position = k /\ k # Lost /\ k # 0
         \/ pagehead \in Node \ live /\ Position = Lost /\ 0 # Lost
<1>1. /\ s \in Seq(Node) /\ Len(s) \in Nat /\ (\A i, j \in 1 .. Len(s) : s[i] = s[j] => i = j)
      /\ live = {s[i] : i \in 1 .. Len(s)}
  BY LinkedFacts
<1>2. Position = PosOf(s, pagehead) /\ 0 \in 0 .. Len(s)
  BY <1>1, Mapped
<1> QED BY <1>1, <1>2, PositionIs DEF TypeOK, Pointer

LEMMA RefinesInit == Init => Playlist!Init
<1> SUFFICES ASSUME Init PROVE Playlist!Init
  OBVIOUS
<1> DEFINE e == <<>>
<1>1. e \in Seq(Node) /\ Len(e) = 0 /\ DOMAIN e = {} /\ Range(e) = {} /\ e = <<>>
  BY DEF Range
<1>2. Linked(e)
  <2> HIDE DEF e
  <2> QED BY <1>1, Sizes DEF Linked, Init, IsInjective
<1>3. Entries = PathsOf(e, path) /\ Position = 0
  <2> HIDE DEF e
  <2> QED BY <1>2, Mapped DEF Init, PosOf
<1>4. PathsOf(e, path) = <<>>
  BY DEF PathsOf
<1> QED BY <1>3, <1>4 DEF Playlist!Init

LEMMA RefinesAddLast ==
  ASSUME NEW s, Linked(s), TypeOK, Forgotten, NEW p \in Path, AddplaylistLast(p), ~crashed'
  PROVE  Playlist!AddLast(p)
<1> DEFINE evict == Len(s) = MaxPlayListLen
           d     == IF evict THEN 1 ELSE 0
           m     == Len(s) - d
<1>1. PICK l \in Node :
        /\ Linked(AfterLast(s, l))' /\ TypeOK'
        /\ l \notin live \ (IF Len(s) = MaxPlayListLen THEN {s[1]} ELSE {})
        /\ live' = (live \ (IF Len(s) = MaxPlayListLen THEN {s[1]} ELSE {})) \cup {l}
        /\ \A n \in live' : path'[n] = IF n = l THEN p ELSE path[n]
        /\ pagehead' = pagehead
  BY AddLastEffect
<1>2. /\ s \in Seq(Node) /\ Len(s) \in Nat /\ Len(s) <= MaxPlayListLen
      /\ (\A i, j \in 1 .. Len(s) : s[i] = s[j] => i = j)
      /\ m \in Nat /\ Len(s) = m + d /\ d \in {0, 1} /\ (evict => 1 \in 1 .. Len(s))
      /\ live = {s[i] : i \in 1 .. Len(s)}
  BY LinkedFacts, Sizes
<1> DEFINE e == PathsOf(s, path)
           t == AfterLast(s, l)
<1>3. e \in Seq(Path) /\ Len(e) = Len(s) /\ \A i \in 1 .. Len(s) : e[i] = path[s[i]]
  BY <1>2, PathsAre DEF TypeOK
<1>4. t = [i \in 1 .. m + 1 |-> IF i <= m THEN s[i + d] ELSE l]
  BY <1>2, AfterLastIs
<1>5. AfterLast(e, p) = [i \in 1 .. m + 1 |-> IF i <= m THEN e[i + d] ELSE p]
  <2> HIDE DEF e
  <2>0. e \in Seq(Path) /\ Len(e) <= MaxPlayListLen /\ p \in Path
    BY <1>2, <1>3
  <2>1. LET d1 == IF Len(e) = MaxPlayListLen THEN 1 ELSE 0
            m1 == Len(e) - d1
        IN  AfterLast(e, p) = [i \in 1 .. m1 + 1 |-> IF i <= m1 THEN e[i + d1] ELSE p]
    BY <2>0, AfterLastIs
  <2> QED BY <1>3, <2>1
<1>6. t \in Seq(Node) /\ Len(t) = m + 1
  <2>1. \A i \in 1 .. m + 1 : i <= m => i + d \in 1 .. Len(s)
    BY <1>2
  <2>2. t \in [1 .. m + 1 -> Node]
    <3> HIDE DEF m, d, t
    <3> QED BY <1>2, <1>4, <2>1
  <2> HIDE DEF m, d, t
  <2> QED BY <1>2, <2>2, FunctionIsSeq
<1>7. /\ \A i \in 1 .. m : t[i] = s[i + d] /\ i + d \in 1 .. Len(s) /\ s[i + d] # l /\ s[i + d] \in live'
      /\ t[m + 1] = l /\ m + 1 \in 1 .. m + 1 /\ l \in live'
  <2>1. \A i \in 1 .. m : t[i] = s[i + d] /\ i + d \in 1 .. Len(s)
    <3> HIDE DEF m, d, t
    <3> QED BY <1>2, <1>4
  <2>2. t[m + 1] = l /\ m + 1 \in 1 .. m + 1
    <3> HIDE DEF m, d, t
    <3> QED BY <1>2, <1>4
  <2>3. \A i \in 1 .. m : evict => i + d # 1
    BY <1>2
  <2>4. \A i \in 1 .. m : s[i + d] \in live \ (IF Len(s) = MaxPlayListLen THEN {s[1]} ELSE {})
    <3> SUFFICES ASSUME NEW i \in 1 .. m
                 PROVE  s[i + d] \in live \ (IF Len(s) = MaxPlayListLen THEN {s[1]} ELSE {})
      OBVIOUS
    <3> HIDE DEF m, d, t
    <3> QED BY <1>2, <2>1, <2>3
  <2> HIDE DEF m, d, t
  <2> QED BY <1>1, <2>1, <2>2, <2>4
<1>8. Entries = e /\ Entries' = PathsOf(t, path') /\ Position' = PosOf(t, pagehead)
  BY <1>1, Mapped, MappedNext
<1>9. PathsOf(t, path') = AfterLast(e, p)
  <2>1. \A i \in 1 .. m + 1 : path'[t[i]] = IF i <= m THEN e[i + d] ELSE p
    <3> SUFFICES ASSUME NEW i \in 1 .. m + 1
                 PROVE  path'[t[i]] = IF i <= m THEN e[i + d] ELSE p
      OBVIOUS
    <3>1. i \in 1 .. m \/ (i = m + 1 /\ ~(i <= m))
      BY <1>2
    <3> HIDE DEF m, d, t, e
    <3>2. CASE i \in 1 .. m
      <4>1. t[i] = s[i + d] /\ i + d \in 1 .. Len(s) /\ t[i] # l /\ t[i] \in live' /\ i <= m
        BY <1>2, <1>7, <3>2
      <4>2. path'[t[i]] = path[s[i + d]]
        BY <1>1, <4>1
      <4> QED BY <1>3, <4>1, <4>2
    <3>3. CASE i = m + 1 /\ ~(i <= m)
      BY <1>1, <1>7, <3>3
    <3> QED BY <3>1, <3>2, <3>3
  <2> HIDE DEF m, d, t, e
  <2> QED BY <1>5, <1>6, <2>1 DEF PathsOf
<1>10. Entries' = Append(IF Len(Entries) = MaxPlayListLen THEN Tail(Entries) ELSE Entries, p)
       /\ Len(Entries) = Len(s) /\ Len(Entries') = m + 1
  <2>1. Entries' = AfterLast(Entries, p) /\ Len(Entries') = m + 1
    <3>1. Len(AfterLast(e, p)) = m + 1
      <4>1. path' \in [Node -> Path]
        BY <1>1 DEF TypeOK
      <4> HIDE DEF t, e, m, d
      <4> QED BY <1>6, <1>9, <4>1, PathsAre
    <3> HIDE DEF e, t
    <3> QED BY <1>8, <1>9, <3>1
  <2> HIDE DEF e
  <2> QED BY <1>3, <1>8, <2>1 DEF AfterLast
<1>11. \A i, j \in 1 .. m + 1 : t[i] = t[j] => i = j
  <2>1. IsInjective(t) /\ DOMAIN t = 1 .. m + 1
    BY <1>1, <1>6 DEF Linked
  <2> HIDE DEF t, m
  <2> QED BY <2>1 DEF IsInjective
<1>12. CASE Position \notin Nat \/ (evict /\ Position = 1)
  <2>1. Position # 0 /\ (Position = Lost \/ (evict /\ Position = 1))
    BY <1>2, <1>12, PageCases
  <2>2. Position' = Lost \/ Position' = m + 1
    <3>1. pagehead \in Node /\ (pagehead \in live => evict /\ pagehead = s[1])
      BY <1>2, <1>12, PageCases
    <3>2. CASE pagehead = l
      <4> HIDE DEF t, m
      <4> QED BY <1>6, <1>7, <1>8, <1>11, <3>2, PositionIs
    <3>3. CASE pagehead # l
      <4>1. pagehead \notin live'
        BY <1>1, <3>1, <3>3
      <4>2. \A k \in 1 .. m + 1 : pagehead # t[k]
        <5>1. \A k \in 1 .. m + 1 : k \in 1 .. m \/ k = m + 1
          BY <1>2
        <5> HIDE DEF t, m, d
        <5> QED BY <1>7, <4>1, <5>1
      <4> HIDE DEF t, m
      <4> QED BY <1>6, <1>8, <1>11, <3>1, <4>2, PositionIs
    <3> QED BY <3>2, <3>3
  <2> HIDE DEF m, e, t
  <2> QED BY <1>10, <2>1, <2>2 DEF Playlist!AddLast, Playlist!Full
<1>13. CASE Position \in Nat /\ ~(evict /\ Position = 1)
  <2>1. Position # Lost
    BY <1>13, PlayListAssumption
  <2>2. CASE Position = 0
    <3>1. pagehead = NULL
      BY <2>1, <2>2, PageCases
    <3>2. Position' = 0
      BY <1>8, <3>1 DEF PosOf
    <3> HIDE DEF m, e, t
    <3> QED BY <1>10, <2>1, <2>2, <3>2 DEF Playlist!AddLast, Playlist!Full
  <2>3. CASE Position # 0
    <3>1. PICK k \in 1 .. Len(s) : pagehead = s[k] /\ Position = k
      BY <2>1, <2>3, PageCases
    <3>2. k - d \in 1 .. m /\ k - d \in 1 .. m + 1 /\ (k - d) + d = k
      BY <1>2, <1>13, <3>1
    <3>3. pagehead = t[k - d]
      <4> HIDE DEF t, m, d
      <4> QED BY <1>7, <3>1, <3>2
    <3>4. Position' = k - d
      <4> HIDE DEF t, m, d
      <4> QED BY <1>6, <1>8, <1>11, <3>2, <3>3, PositionIs
    <3>5. Position' = IF evict THEN Position - 1 ELSE Position
      BY <3>1, <3>4
    <3> HIDE DEF m, d, e, t
    <3> QED BY <1>10, <1>13, <2>1, <2>3, <3>5 DEF Playlist!AddLast, Playlist!Full
  <2> QED BY <2>2, <2>3
<1> QED BY <1>12, <1>13
LEMMA RefinesAddFront ==
  ASSUME NEW s, Linked(s), TypeOK, Forgotten, NEW p \in Path, AddplaylistFront(p), ~crashed'
  PROVE  Playlist!AddFront(p)
<1> DEFINE evict == Len(s) = MaxPlayListLen
           d     == IF evict THEN 1 ELSE 0
           m     == Len(s) - d
<1>1. PICK l \in Node :
        /\ Linked(AfterFront(s, l))' /\ TypeOK'
        /\ l \notin live \ (IF Len(s) = MaxPlayListLen THEN {s[Len(s)]} ELSE {})
        /\ live' = (live \ (IF Len(s) = MaxPlayListLen THEN {s[Len(s)]} ELSE {})) \cup {l}
        /\ \A n \in live' : path'[n] = IF n = l THEN p ELSE path[n]
        /\ pagehead' = pagehead
        /\ Len(s) # 0
  BY AddFrontEffect
<1>2. /\ s \in Seq(Node) /\ Len(s) \in Nat /\ Len(s) <= MaxPlayListLen
      /\ (\A i, j \in 1 .. Len(s) : s[i] = s[j] => i = j)
      /\ m \in Nat /\ Len(s) = m + d /\ d \in {0, 1} /\ Len(s) \in 1 .. Len(s)
      /\ live = {s[i] : i \in 1 .. Len(s)}
      /\ (evict <=> d = 1)
  BY <1>1, LinkedFacts, Sizes
<1> DEFINE e == PathsOf(s, path)
           t == AfterFront(s, l)
<1>3. e \in Seq(Path) /\ Len(e) = Len(s) /\ \A i \in 1 .. Len(s) : e[i] = path[s[i]]
  BY <1>2, PathsAre DEF TypeOK
<1>4. t = [i \in 1 .. m + 1 |-> IF i = 1 THEN l ELSE s[i - 1]]
  BY <1>2, AfterFrontIs
<1>5. AfterFront(e, p) = [i \in 1 .. m + 1 |-> IF i = 1 THEN p ELSE e[i - 1]]
  <2> HIDE DEF e
  <2>0. e \in Seq(Path) /\ Len(e) <= MaxPlayListLen /\ p \in Path
    BY <1>2, <1>3
  <2>1. LET d1 == IF Len(e) = MaxPlayListLen THEN 1 ELSE 0
            m1 == Len(e) - d1
        IN  AfterFront(e, p) = [i \in 1 .. m1 + 1 |-> IF i = 1 THEN p ELSE e[i - 1]]
    BY <2>0, AfterFrontIs
  <2> QED BY <1>3, <2>1
<1>i. \A i \in 1 .. m + 1 : i = 1 \/ (i # 1 /\ i - 1 \in 1 .. m /\ (i - 1) + 1 = i)
  <2> HIDE DEF m, d
  <2> QED BY <1>2
<1>6. t \in Seq(Node) /\ Len(t) = m + 1
  <2>1. \A i \in 1 .. m : i \in 1 .. Len(s)
    BY <1>2
  <2>2. \A i \in 1 .. m + 1 : (IF i = 1 THEN l ELSE s[i - 1]) \in Node
    <3> HIDE DEF m, d, t
    <3> QED BY <1>2, <1>i, <2>1
  <2>3. t \in [1 .. m + 1 -> Node]
    <3> HIDE DEF m, d, t
    <3> QED BY <1>4, <2>2
  <2> HIDE DEF m, d, t
  <2> QED BY <1>2, <2>3, FunctionIsSeq
<1>7. /\ \A i \in 1 .. m : /\ i + 1 \in 1 .. m + 1 /\ t[i + 1] = s[i] /\ i \in 1 .. Len(s)
                           /\ s[i] # l /\ s[i] \in live'
      /\ t[1] = l /\ 1 \in 1 .. m + 1 /\ l \in live'
  <2>1. \A i \in 1 .. m : i + 1 \in 1 .. m + 1 /\ i + 1 # 1 /\ (i + 1) - 1 = i /\ i \in 1 .. Len(s)
    BY <1>2
  <2>2. t[1] = l /\ 1 \in 1 .. m + 1
    <3> HIDE DEF m, d, t
    <3> QED BY <1>2, <1>4
  <2>3. \A i \in 1 .. m : t[i + 1] = s[i]
    <3> SUFFICES ASSUME NEW i \in 1 .. m PROVE t[i + 1] = s[i]
      OBVIOUS
    <3> HIDE DEF m, d, t
    <3>1. t[i + 1] = s[(i + 1) - 1]
      BY <1>4, <2>1
    <3> QED BY <2>1, <3>1
  <2>4. \A i \in 1 .. m : evict => i # Len(s)
    BY <1>2
  <2>5. \A i \in 1 .. m : s[i] \in live \ (IF Len(s) = MaxPlayListLen THEN {s[Len(s)]} ELSE {})
    <3> SUFFICES ASSUME NEW i \in 1 .. m
                 PROVE  s[i] \in live \ (IF Len(s) = MaxPlayListLen THEN {s[Len(s)]} ELSE {})
      OBVIOUS
    <3> HIDE DEF m, d, t
    <3> QED BY <1>2, <2>1, <2>4
  <2> HIDE DEF m, d, t
  <2> QED BY <1>1, <2>1, <2>2, <2>3, <2>5
<1>8. Entries = e /\ Entries' = PathsOf(t, path') /\ Position' = PosOf(t, pagehead)
  BY <1>1, Mapped, MappedNext
<1>9. PathsOf(t, path') = AfterFront(e, p)
  <2>1. \A i \in 1 .. m + 1 : path'[t[i]] = IF i = 1 THEN p ELSE e[i - 1]
    <3> SUFFICES ASSUME NEW i \in 1 .. m + 1
                 PROVE  path'[t[i]] = IF i = 1 THEN p ELSE e[i - 1]
      OBVIOUS
    <3> HIDE DEF m, d, t, e
    <3>1. CASE i = 1
      BY <1>1, <1>7, <3>1
    <3>2. CASE i # 1
      <4>1. t[i] = s[i - 1] /\ i - 1 \in 1 .. Len(s) /\ t[i] # l /\ t[i] \in live'
        BY <1>7, <1>i, <3>2
      <4>2. path'[t[i]] = path[s[i - 1]]
        BY <1>1, <4>1
      <4> QED BY <1>3, <3>2, <4>1, <4>2
    <3> QED BY <3>1, <3>2
  <2> HIDE DEF m, d, t, e
  <2> QED BY <1>5, <1>6, <2>1 DEF PathsOf
<1>10. Entries' = <<p>> \o (IF Len(Entries) = MaxPlayListLen THEN Front(Entries) ELSE Entries)
       /\ Len(Entries) = Len(s)
  <2> HIDE DEF e
  <2> QED BY <1>3, <1>8, <1>9 DEF AfterFront
<1>f. /\ Entries' = <<p>> \o (IF Playlist!Full THEN Playlist!Front(Entries) ELSE Entries)
      /\ Playlist!Full <=> evict
  <2> HIDE DEF m, e, t
  <2> QED BY <1>10 DEF Playlist!Full, Playlist!Front, Front
<1>11. \A i, j \in 1 .. m + 1 : t[i] = t[j] => i = j
  <2>1. IsInjective(t) /\ DOMAIN t = 1 .. m + 1
    BY <1>1, <1>6 DEF Linked
  <2> HIDE DEF t, m
  <2> QED BY <2>1 DEF IsInjective
<1>12. CASE Position \notin Nat \/ (evict /\ Position = Len(s))
  <2>1. Position # 0 /\ (Position = Lost \/ (evict /\ Position = Len(s)))
    BY <1>1, <1>2, <1>12, PageCases
  <2>2. Position' = Lost \/ Position' = 1
    <3>1. pagehead \in Node /\ (pagehead \in live => evict /\ pagehead = s[Len(s)])
      BY <1>1, <1>2, <1>12, PageCases
    <3>2. CASE pagehead = l
      <4> HIDE DEF t, m
      <4> QED BY <1>6, <1>7, <1>8, <1>11, <3>2, PositionIs
    <3>3. CASE pagehead # l
      <4>1. pagehead \notin live'
        BY <1>1, <3>1, <3>3
      <4>2. \A k \in 1 .. m + 1 : pagehead # t[k]
        <5> HIDE DEF t, m, d
        <5> QED BY <1>7, <1>i, <4>1
      <4> HIDE DEF t, m
      <4> QED BY <1>6, <1>8, <1>11, <3>1, <4>2, PositionIs
    <3> QED BY <3>2, <3>3
  <2> HIDE DEF m, e, t
  <2> QED BY <1>10, <1>f, <2>1, <2>2 DEF Playlist!AddFront
<1>13. CASE Position \in Nat /\ ~(evict /\ Position = Len(s))
  <2>1. Position # Lost
    BY <1>13, PlayListAssumption
  <2>2. CASE Position = 0
    <3>1. pagehead = NULL
      BY <2>1, <2>2, PageCases
    <3>2. Position' = 0
      BY <1>8, <3>1 DEF PosOf
    <3>3. Len(s) # 0
      BY <1>1
    <3> HIDE DEF m, e, t
    <3> QED BY <1>10, <1>f, <2>1, <2>2, <3>2, <3>3 DEF Playlist!AddFront
  <2>3. CASE Position # 0
    <3>1. PICK k \in 1 .. Len(s) : pagehead = s[k] /\ Position = k
      BY <2>1, <2>3, PageCases
    <3>2. k \in 1 .. m
      <4>1. k <= Len(s) /\ (evict => k # Len(s))
        <5> HIDE DEF m, d, t, e, evict
        <5> QED BY <1>13, <3>1
      <4> HIDE DEF m, d, t, e, evict
      <4> QED BY <1>2, <4>1
    <3>3. pagehead = t[k + 1] /\ k + 1 \in 1 .. m + 1
      <4> HIDE DEF t, m, d
      <4> QED BY <1>7, <3>1, <3>2
    <3>4. Position' = Position + 1
      <4> HIDE DEF t, m, d
      <4> QED BY <1>6, <1>8, <1>11, <3>1, <3>3, PositionIs
    <3> HIDE DEF m, d, e, t
    <3> QED BY <1>10, <1>f, <1>13, <2>1, <2>3, <3>4 DEF Playlist!AddFront
  <2> QED BY <2>2, <2>3
<1> QED BY <1>12, <1>13

LEMMA ConcatIs ==
  ASSUME NEW S, NEW a \in Seq(S), NEW b \in Seq(S)
  PROVE  a \o b \in Seq(S) /\ Len(a \o b) = Len(a) + Len(b)
OBVIOUS

LEMMA RemoveAtIs ==
  ASSUME NEW S, NEW e \in Seq(S), NEW k \in 1 .. Len(e)
  PROVE  RemoveAt(e, k) = [i \in 1 .. Len(e) - 1 |-> IF i < k THEN e[i] ELSE e[i + 1]]
<1> DEFINE a == SubSeq(e, 1, k - 1)
           b == SubSeq(e, k + 1, Len(e))
<1>1. Len(e) \in Nat /\ k \in Nat /\ 1 <= k /\ k <= Len(e)
  OBVIOUS
<1>2. a \in Seq(S) /\ Len(a) = k - 1 /\ \A i \in 1 .. k - 1 : a[i] = e[i]
  BY <1>1
<1>3. b \in Seq(S) /\ Len(b) = Len(e) - k /\ \A i \in 1 .. Len(e) - k : b[i] = e[k + i]
  <2>1. \A i \in 1 .. Len(e) - k : (k + 1) + i - 1 = k + i
    BY <1>1
  <2>2. b \in Seq(S) /\ Len(b) = Len(e) - k
    BY <1>1
  <2>3. \A i \in 1 .. Len(e) - k : b[i] = e[(k + 1) + i - 1]
    BY <1>1
  <2> HIDE DEF b
  <2> QED BY <2>1, <2>2, <2>3
<1>4. RemoveAt(e, k) = a \o b
  BY DEF RemoveAt
<1> HIDE DEF a, b
<1>5. a \o b \in Seq(S) /\ Len(a \o b) = Len(e) - 1
  <2>1. a \o b \in Seq(S) /\ Len(a \o b) = Len(a) + Len(b)
    BY <1>2, <1>3, ConcatIs
  <2> QED BY <1>1, <1>2, <1>3, <2>1
<1>6. ASSUME NEW i \in 1 .. Len(e) - 1
      PROVE  (a \o b)[i] = IF i < k THEN e[i] ELSE e[i + 1]
  <2>1. CASE i < k
    <3>1. i \in 1 .. Len(a) /\ i \in 1 .. k - 1
      BY <1>1, <1>2, <2>1
    <3>2. (a \o b)[i] = a[i]
      BY <1>2, <1>3, <3>1
    <3> QED BY <1>2, <2>1, <3>1, <3>2
  <2>2. CASE ~(i < k)
    <3>1. i - (k - 1) \in 1 .. Len(e) - k /\ k + (i - (k - 1)) = i + 1 /\ i \in 1 .. Len(a) + Len(b)
          /\ ~(i <= Len(a))
      BY <1>1, <1>2, <1>3, <2>2
    <3>2. (a \o b)[i] = b[i - (k - 1)]
      BY <1>2, <1>3, <3>1
    <3> QED BY <1>3, <2>2, <3>1, <3>2
  <2> QED BY <2>1, <2>2
<1>7. a \o b = [i \in 1 .. Len(e) - 1 |-> (a \o b)[i]]
  BY <1>5, SeqIsFunction
<1> QED BY <1>4, <1>6, <1>7
LEMMA RefinesRemove ==
  ASSUME NEW s, Linked(s), TypeOK, Forgotten, NEW k \in 1 .. Len(s),
         RemoveplayNode(s[k]), ~crashed'
  PROVE  Playlist!RemoveEntry(k) /\ k \in DOMAIN Entries
<1> DEFINE n == Len(s)
           t == Without(s, k)
           e == PathsOf(s, path)
<1>1. /\ Linked(t)' /\ TypeOK' /\ n >= 2
      /\ live' = live \ {s[k]}
      /\ \A x \in live' : path'[x] = path[x]
      /\ pagehead' = PageAfterRemoval(s[k])
  BY RemoveEffect
<1>2. /\ s \in Seq(Node) /\ n \in Nat /\ k \in Nat /\ 1 <= k /\ k <= n
      /\ (\A i, j \in 1 .. n : s[i] = s[j] => i = j)
      /\ live = {s[i] : i \in 1 .. n}
      /\ next[s[k]] = IF k < n THEN s[k + 1] ELSE NULL
      /\ prv[s[k]] = IF k > 1 THEN s[k - 1] ELSE NULL
  BY LinkedFacts
<1>3. e \in Seq(Path) /\ Len(e) = n /\ DOMAIN e = 1 .. n /\ \A i \in 1 .. n : e[i] = path[s[i]]
  BY <1>2, PathsAre DEF TypeOK
<1>4. /\ \A i \in 1 .. n - 1 : t[i] = (IF i < k THEN s[i] ELSE s[i + 1]) /\ t[i] \in live'
      /\ t \in Seq(Node) /\ Len(t) = n - 1
  <2>1. \A i \in 1 .. n - 1 : t[i] = IF i < k THEN s[i] ELSE s[i + 1]
    BY DEF Without
  <2>2. t \in Seq(Node) /\ Range(t) = live'
    <3> HIDE DEF t
    <3> QED BY <1>1 DEF Linked
  <2>3. Len(t) = n - 1 /\ DOMAIN t = 1 .. n - 1
    <3>1. DOMAIN t = 1 .. n - 1 /\ n - 1 \in Nat
      BY <1>1, <1>2 DEF Without
    <3> HIDE DEF t, n
    <3>2. DOMAIN t = 1 .. Len(t) /\ Len(t) \in Nat
      BY <2>2
    <3> QED BY <3>1, <3>2
  <2>4. \A i \in 1 .. n - 1 : t[i] \in live'
    <3> HIDE DEF t, n
    <3> QED BY <2>2, <2>3 DEF Range
  <2> HIDE DEF t, n
  <2> QED BY <2>1, <2>2, <2>3, <2>4
<1>5. \A i, j \in 1 .. n - 1 : t[i] = t[j] => i = j
  <2>1. IsInjective(t) /\ DOMAIN t = 1 .. n - 1
    <3> HIDE DEF t, n
    <3> QED BY <1>1, <1>4 DEF Linked
  <2> HIDE DEF t, n
  <2> QED BY <2>1 DEF IsInjective
<1>6. Entries = e /\ Entries' = PathsOf(t, path') /\ Position' = PosOf(t, pagehead')
  <2> HIDE DEF t, e
  <2> QED BY <1>1, Mapped, MappedNext DEF e
<1>7. Entries' = RemoveAt(Entries, k)
  <2>1. RemoveAt(e, k) = [i \in 1 .. n - 1 |-> IF i < k THEN e[i] ELSE e[i + 1]]
    <3> HIDE DEF e
    <3>1. k \in 1 .. Len(e)
      BY <1>3
    <3>2. RemoveAt(e, k) = [i \in 1 .. Len(e) - 1 |-> IF i < k THEN e[i] ELSE e[i + 1]]
      BY <1>3, <3>1, RemoveAtIs
    <3> QED BY <1>3, <3>2
  <2>2. \A i \in 1 .. n - 1 : path'[t[i]] = IF i < k THEN e[i] ELSE e[i + 1]
    <3> SUFFICES ASSUME NEW i \in 1 .. n - 1 PROVE path'[t[i]] = IF i < k THEN e[i] ELSE e[i + 1]
      OBVIOUS
    <3>1. i \in 1 .. n /\ i + 1 \in 1 .. n
      BY <1>2
    <3> HIDE DEF t, e, n
    <3>2. path'[t[i]] = path[t[i]]
      BY <1>1, <1>4
    <3> QED BY <1>3, <1>4, <3>1, <3>2
  <2> HIDE DEF t, e, n
  <2>3. PathsOf(t, path') = [i \in 1 .. n - 1 |-> path'[t[i]]]
    BY <1>4 DEF PathsOf
  <2> QED BY <1>6, <2>1, <2>2, <2>3
<1>8. /\ \A i \in 1 .. n - 1 : PosOf(t, t[i]) = i
      /\ PosOf(t, NULL) = 0
      /\ \A x \in Node : x \notin live' => PosOf(t, x) = Lost
  <2> HIDE DEF t, n
  <2>1. \A x \in Node : x \notin live' => \A i \in 1 .. Len(t) : x # t[i]
    BY <1>4
  <2> QED BY <1>4, <1>5, <2>1, PositionIs
<1>9. Position' = IF Position # Lost /\ (Position > k \/ (Position = k /\ k = Len(Entries)))
                  THEN Position - 1 ELSE Position
  <2>0. Len(Entries) = n
    <3> HIDE DEF e, n
    <3> QED BY <1>3, <1>6
  <2>1. CASE pagehead = NULL
    <3>1. Position = 0 /\ pagehead' = NULL
      <4>1. pagehead # s[k]
        BY <2>1, LinkedFacts
      <4> QED BY <1>1, <2>1, <4>1 DEF PageAfterRemoval, Position
    <3>2. ~(Position > k) /\ Position # k
      BY <1>2, <3>1
    <3> HIDE DEF t, n
    <3> QED BY <1>6, <1>8, <3>1, <3>2
  <2>2. CASE pagehead \in Node \ live
    <3>1. Position = Lost
      BY <2>2, PageCases, LinkedFacts, Sizes
    <3>2. pagehead' = pagehead /\ pagehead \notin live'
      BY <1>1, <1>2, <2>2 DEF PageAfterRemoval
    <3> HIDE DEF t, n
    <3> QED BY <1>6, <1>8, <2>2, <3>1, <3>2
  <2>3. ASSUME NEW j \in 1 .. n, pagehead = s[j]
        PROVE  Position' = IF Position # Lost /\ (Position > k \/ (Position = k /\ k = n))
                           THEN Position - 1 ELSE Position
    <3>1. Position = j /\ j # Lost
      <4>1. Position = PosOf(s, pagehead) /\ j \in 0 .. n
        BY <1>2, Mapped
      <4> HIDE DEF n
      <4> QED BY <1>2, <2>3, <4>1, PositionIs DEF n
    <3>2. CASE j < k
      <4>1. pagehead' = s[j]
        BY <1>1, <1>2, <2>3, <3>2 DEF PageAfterRemoval
      <4>2. j \in 1 .. n - 1 /\ ~(j > k) /\ j # k
        BY <1>2, <3>2
      <4> HIDE DEF t, n
      <4> QED BY <1>4, <1>6, <1>8, <3>1, <3>2, <4>1, <4>2
    <3>3. CASE j > k
      <4>1. pagehead' = s[j]
        BY <1>1, <1>2, <2>3, <3>3 DEF PageAfterRemoval
      <4>2. j - 1 \in 1 .. n - 1 /\ ~(j - 1 < k) /\ (j - 1) + 1 = j
        BY <1>2, <3>3
      <4>3. t[j - 1] = s[j]
        <5> HIDE DEF t, n
        <5> QED BY <1>4, <4>2
      <4> HIDE DEF t, n
      <4> QED BY <1>6, <1>8, <3>1, <3>3, <4>1, <4>2, <4>3
    <3>4. CASE j = k /\ k < n
      <4>1. pagehead' = s[k + 1]
        <5>1. s[k + 1] # NULL
          BY <1>2, <3>4, LinkedFacts
        <5> HIDE DEF n
        <5> QED BY <1>1, <1>2, <2>3, <3>4, <5>1 DEF PageAfterRemoval
      <4>2. k \in 1 .. n - 1 /\ ~(k < k) /\ ~(j > k) /\ k # n
        BY <1>2, <3>4
      <4> HIDE DEF t, n
      <4> QED BY <1>4, <1>6, <1>8, <3>1, <3>4, <4>1, <4>2
    <3>5. CASE j = k /\ ~(k < n)
      <4>1. pagehead' = s[k - 1]
        <5>1. k > 1
          BY <1>1, <1>2, <3>5
        <5> HIDE DEF n
        <5> QED BY <1>1, <1>2, <2>3, <3>5, <5>1 DEF PageAfterRemoval
      <4>2. k - 1 \in 1 .. n - 1 /\ k - 1 < k /\ k = n
        BY <1>1, <1>2, <3>5
      <4> HIDE DEF t, n
      <4> QED BY <1>4, <1>6, <1>8, <3>1, <3>5, <4>1, <4>2
    <3> HIDE DEF t, n
    <3> QED BY <1>2, <3>2, <3>3, <3>4, <3>5
  <2> HIDE DEF t, n
  <2> QED BY <1>2, <2>0, <2>1, <2>2, <2>3 DEF TypeOK, Pointer
<1>10. k \in DOMAIN Entries
  <2> HIDE DEF e
  <2> QED BY <1>3, <1>6
<1> HIDE DEF t, e, n
<1> QED BY <1>7, <1>9, <1>10 DEF Playlist!RemoveEntry, Playlist!RemoveAt, RemoveAt

LEMMA RefinesSwap ==
  ASSUME NEW s, Linked(s), TypeOK, Forgotten, NEW k \in 1 .. Len(s), NEW forward \in BOOLEAN,
         SwapplayNode(s[k], forward), ~crashed'
  PROVE  LET i == IF forward THEN k ELSE k - 1
         IN  i \in DOMAIN Entries /\ Playlist!SwapEntry(i)
<1> DEFINE n == Len(s)
           e == PathsOf(s, path)
<1>1. PICK j \in 1 .. n :
        /\ j = IF forward THEN k + 1 ELSE k - 1
        /\ Linked(s)' /\ TypeOK'
        /\ path' = [path EXCEPT ![s[k]] = path[s[j]], ![s[j]] = path[s[k]]]
        /\ pagehead' = pagehead
  BY SwapEffect
<1>2. /\ s \in Seq(Node) /\ n \in Nat /\ (\A i \in 1 .. n : s[i] \in Node)
      /\ (\A x, y \in 1 .. n : s[x] = s[y] => x = y)
  BY LinkedFacts
<1>3. e \in Seq(Path) /\ Len(e) = n /\ DOMAIN e = 1 .. n /\ \A x \in 1 .. n : e[x] = path[s[x]]
  BY <1>2, PathsAre DEF TypeOK
<1> DEFINE i == IF forward THEN k ELSE k - 1
<1>4. /\ i \in 1 .. n /\ i + 1 \in 1 .. n /\ i < n
      /\ (k = i /\ j = i + 1) \/ (k = i + 1 /\ j = i)
  <2>1. CASE forward
    BY <1>1, <1>2, <2>1
  <2>2. CASE ~forward
    BY <1>1, <1>2, <2>2
  <2> QED BY <2>1, <2>2
<1> HIDE DEF i
<1>5. \A x \in 1 .. n : path'[s[x]] = IF x = i THEN e[i + 1] ELSE IF x = i + 1 THEN e[i] ELSE e[x]
  <2> SUFFICES ASSUME NEW x \in 1 .. n
               PROVE  path'[s[x]] = IF x = i THEN e[i + 1] ELSE IF x = i + 1 THEN e[i] ELSE e[x]
    OBVIOUS
  <2>1. path \in [Node -> Path] /\ s[x] \in Node /\ s[k] \in Node /\ s[j] \in Node
    BY <1>2 DEF TypeOK
  <2>2. path'[s[x]] = IF s[x] = s[j] THEN path[s[k]] ELSE IF s[x] = s[k] THEN path[s[j]] ELSE path[s[x]]
    BY <1>1, <2>1
  <2>3. (s[x] = s[j] <=> x = j) /\ (s[x] = s[k] <=> x = k)
    BY <1>2
  <2>4. i + 1 # i
    BY <1>4
  <2> HIDE DEF e, n
  <2> QED BY <1>3, <1>4, <2>2, <2>3, <2>4
<1>6. Entries = e /\ Entries' = PathsOf(s, path') /\ Position' = Position
  <2> HIDE DEF e
  <2> QED BY <1>1, Mapped, MappedNext DEF e
<1>7. Entries' = [[e EXCEPT ![i] = e[i + 1]] EXCEPT ![i + 1] = e[i]]
  <2>1. PathsOf(s, path') = [x \in 1 .. n |-> path'[s[x]]]
    BY DEF PathsOf
  <2>2. e = [x \in 1 .. n |-> e[x]]
    <3> HIDE DEF e, n
    <3> QED BY <1>2, <1>3, SeqIsFunction
  <2>3. i + 1 # i
    BY <1>4
  <2> HIDE DEF e, n
  <2>4. Entries' = [x \in 1 .. n |-> IF x = i THEN e[i + 1] ELSE IF x = i + 1 THEN e[i] ELSE e[x]]
    BY <1>5, <1>6, <2>1
  <2> QED BY <1>3, <1>4, <2>2, <2>3, <2>4
<1>8. Entries' = Playlist!ReplaceAt(Playlist!ReplaceAt(Entries, i, Entries[i + 1]), i + 1, Entries[i])
      /\ i < Len(Entries) /\ i \in DOMAIN Entries
  <2> HIDE DEF e, n
  <2> QED BY <1>3, <1>4, <1>6, <1>7 DEF Playlist!ReplaceAt
<1>9. Playlist!SwapEntry(i)
  BY <1>6, <1>8 DEF Playlist!SwapEntry
<1> QED BY <1>8, <1>9 DEF i

LEMMA RefinesGetPage ==
  ASSUME NEW s, Linked(s), TypeOK, Forgotten, NEW forward \in BOOLEAN, GetPage(forward), ~crashed'
  PROVE  IF forward THEN Playlist!NextPage ELSE Playlist!PreviousPage
<1> DEFINE n == Len(s)
<1>1. PICK k \in 0 .. n :
        /\ pagehead = IF k = 0 THEN NULL ELSE s[k]
        /\ pagehead' = IF n = 0 THEN NULL
                       ELSE s[IF forward THEN PageAhead(n, k) ELSE PageBefore(k)]
        /\ UNCHANGED <<live, next, prv, path, filelist, selnode>>
  BY GetPageEffect
<1>2. /\ s \in Seq(Node) /\ n \in Nat /\ (\A x, y \in 1 .. n : s[x] = s[y] => x = y)
      /\ (s = <<>> <=> n = 0)
  BY LinkedFacts
<1>3. Linked(s)'
  BY <1>1 DEF Linked
<1>4. /\ Entries = PathsOf(s, path) /\ Entries' = Entries
      /\ Position = PosOf(s, pagehead) /\ Position' = PosOf(s, pagehead')
  BY <1>1, <1>3, Mapped, MappedNext
<1>5. Len(Entries) = n /\ (Entries = <<>> <=> n = 0)
  <2>1. PathsOf(s, path) \in Seq(Path) /\ Len(PathsOf(s, path)) = n
    BY <1>2, PathsAre DEF TypeOK
  <2>2. Entries \in Seq(Path) /\ Len(Entries) = n
    BY <1>4, <2>1
  <2> QED BY <2>2
<1>6. Position = k /\ k # Lost
  <2> HIDE DEF n
  <2>1. k = 0 \/ k \in 1 .. n
    BY <1>2
  <2> QED BY <1>1, <1>2, <1>4, <2>1, PositionIs DEF n
<1>7. CASE n = 0
  <2>1. k = 0
    BY <1>7
  <2>2. Position' = 0
    BY <1>1, <1>4, <1>7 DEF PosOf
  <2>3. Playlist!LastPage = 0
    <3> HIDE DEF n
    <3> QED BY <1>2, <1>5, <1>7, Sizes DEF Playlist!LastPage
  <2> HIDE DEF n
  <2> QED BY <1>4, <1>5, <1>6, <1>7, <2>1, <2>2, <2>3 DEF Playlist!NextPage, Playlist!PreviousPage
<1>8. CASE n # 0
  <2>1. PageAhead(n, k) \in 1 .. n /\ PageBefore(k) \in 1 .. n
    <3>1. n \in Nat \ {0}
      BY <1>2, <1>8
    <3> HIDE DEF n
    <3> QED BY <3>1, PageBounds
  <2>2. \A i \in 1 .. n : PosOf(s, s[i]) = i
    BY <1>2, PositionIs
  <2>3. CASE forward
    <3>1. Position' = PageAhead(n, k)
      <4> HIDE DEF n
      <4> QED BY <1>1, <1>4, <1>8, <2>1, <2>2, <2>3
    <3>2. Playlist!LastPage = IF n > PageListLen THEN n - PageListLen + 1 ELSE 1
      <4> HIDE DEF n
      <4> QED BY <1>5, <1>8 DEF Playlist!LastPage
    <3> HIDE DEF n
    <3> QED BY <1>4, <1>5, <1>6, <2>3, <3>1, <3>2 DEF Playlist!NextPage, PageAhead
  <2>4. CASE ~forward
    <3>1. Position' = PageBefore(k)
      <4> HIDE DEF n
      <4> QED BY <1>1, <1>4, <1>8, <2>1, <2>2, <2>4
    <3> HIDE DEF n
    <3> QED BY <1>4, <1>5, <1>6, <1>8, <2>4, <3>1 DEF Playlist!PreviousPage, PageBefore
  <2> QED BY <2>3, <2>4
<1> QED BY <1>7, <1>8

LEMMA RefinesDelete ==
  ASSUME NEW s, Linked(s), TypeOK, Forgotten, Discard, ~crashed'
  PROVE  Playlist!Clear
<1> DEFINE e == <<>>
<1>1. Linked(e)' /\ pagehead' = NULL
  BY DeleteEffect
<1>2. Entries' = PathsOf(e, path') /\ Position' = PosOf(e, NULL)
  <2> HIDE DEF e
  <2> QED BY <1>1, MappedNext
<1>3. PathsOf(e, path') = <<>> /\ PosOf(e, NULL) = 0
  BY DEF PathsOf, PosOf
<1> QED BY <1>2, <1>3 DEF Playlist!Clear

\* Every step of the list is a step of the sequence, or none.
LEMMA RefinesNext == ListIInv /\ [Next]_vars => [Playlist!Next]_(Playlist!vars)
<1> SUFFICES ASSUME ListIInv, [Next]_vars PROVE [Playlist!Next]_(Playlist!vars)
  OBVIOUS
<1>1. PICK s : Linked(s) /\ TypeOK /\ Forgotten
  BY DEF ListIInv
<1>2. ASSUME UNCHANGED <<live, next, prv, path, filelist, pagehead>>
      PROVE  UNCHANGED Playlist!vars
  <2>1. Linked(s)'
    BY <1>1, <1>2 DEF Linked
  <2>2. Entries' = Entries /\ Position' = Position
    BY <1>1, <1>2, <2>1, Mapped, MappedNext
  <2> QED BY <2>2 DEF Playlist!vars
<1>3. CASE UNCHANGED vars
  BY <1>2, <1>3 DEF vars, heap
<1>4. CASE Next /\ crashed'
  BY <1>1, <1>2, <1>4, CrashKeeps
<1>5. CASE Next /\ ~crashed'
  <2>1. ASSUME NEW p \in Path, AddplaylistLast(p) PROVE Playlist!Next
    BY <1>1, <1>5, <2>1, RefinesAddLast DEF Playlist!Next
  <2>2. ASSUME NEW p \in Path, AddplaylistFront(p) PROVE Playlist!Next
    BY <1>1, <1>5, <2>2, RefinesAddFront DEF Playlist!Next
  <2>3. ASSUME NEW k \in 1 .. Len(s), RemoveplayNode(s[k]) PROVE Playlist!Next
    BY <1>1, <1>5, <2>3, RefinesRemove DEF Playlist!Next
  <2>4. ASSUME NEW k \in 1 .. Len(s), NEW forward \in BOOLEAN, SwapplayNode(s[k], forward)
        PROVE  Playlist!Next
    BY <1>1, <1>5, <2>4, RefinesSwap DEF Playlist!Next
  <2>5. ASSUME NEW forward \in BOOLEAN, GetPage(forward) PROVE Playlist!Next
    BY <1>1, <1>5, <2>5, RefinesGetPage DEF Playlist!Next
  <2>6. CASE Discard
    BY <1>1, <1>5, <2>6, RefinesDelete DEF Playlist!Next
  <2>7. CASE Displaylist \/ DisplayPage \/ Select \/ Crashed
    BY <1>1, <1>2, <2>7, Reading
  <2> QED BY <1>1, <1>5, <2>1, <2>2, <2>3, <2>4, <2>5, <2>6, <2>7, NextCases
<1> QED BY <1>3, <1>4, <1>5

\* playlinklist.c keeps a bounded sequence of paths and a page in it, whatever
\* its nodes and pointers go through on the way.
THEOREM ListIsSequence == Spec => ImplementsPlaySeq
BY ListInductive, RefinesInit, RefinesNext, PTL DEF Spec, ImplementsPlaySeq, Playlist!Spec
=============================================================================
