------------------------------- MODULE DemoProofs -------------------------------
(***************************************************************************)
(* Proofs about the playlist demonstration of main.c, for any file, any    *)
(* number of runs and any length of the list and of a page.                *)
(***************************************************************************)
EXTENDS Demo, PlayListProofs

--------------------------------------------------------------------------------
(* Sequences.                                                              *)

LEMMA LatestIs ==
  ASSUME NEW S, NEW r \in Seq(S), NEW m,
         m = IF Len(r) > MaxPlayListLen THEN MaxPlayListLen ELSE Len(r)
  PROVE  /\ Latest(r) \in Seq(S) /\ Len(Latest(r)) = m /\ m \in Nat /\ m <= MaxPlayListLen
         /\ Latest(r) = [i \in 1 .. m |-> r[i + (Len(r) - m)]]
         /\ \A i \in 1 .. m : Latest(r)[i] = r[i + (Len(r) - m)]
<1> DEFINE k == IF Len(r) > MaxPlayListLen THEN Len(r) - MaxPlayListLen + 1 ELSE 1
           t == SubSeq(r, k, Len(r))
<1>1. Len(r) \in Nat /\ m \in Nat /\ m <= MaxPlayListLen /\ k \in Nat /\ k >= 1 /\ m = Len(r) - k + 1
      /\ \A i \in 1 .. m : k + i - 1 = i + (Len(r) - m) /\ k + i - 1 \in 1 .. Len(r)
  BY Sizes
<1> HIDE DEF k
<1>2. t \in Seq(S) /\ Len(t) = m /\ \A i \in 1 .. m : t[i] = r[k + i - 1]
  BY <1>1
<1>3. t = [i \in 1 .. m |-> t[i]]
  <2> HIDE DEF t
  <2> QED BY <1>2, SeqIsFunction
<1>4. t = [i \in 1 .. m |-> r[i + (Len(r) - m)]]
  <2> HIDE DEF t
  <2> QED BY <1>1, <1>2, <1>3
<1>5. Latest(r) = t
  BY DEF Latest, k
<1>6. \A i \in 1 .. m : t[i] = r[i + (Len(r) - m)]
  <2> HIDE DEF t
  <2> QED BY <1>1, <1>2
<1> HIDE DEF t
<1> QED BY <1>1, <1>2, <1>4, <1>5, <1>6

\* Reading one more line is adding one more entry to a list that keeps the latest.
LEMMA LatestAppend ==
  ASSUME NEW S, NEW r \in Seq(S), NEW x \in S
  PROVE  Latest(Append(r, x)) = AfterLast(Latest(r), x)
<1> DEFINE a  == Append(r, x)
           e  == Latest(r)
           n  == Len(r)
           M  == MaxPlayListLen
<1>1. /\ n \in Nat /\ M \in Nat /\ M >= 2 /\ a \in Seq(S) /\ Len(a) = n + 1
      /\ \A i \in 1 .. n : a[i] = r[i]
      /\ a[n + 1] = x
  BY Sizes
<1>2. CASE n >= M
  <2>1. e \in Seq(S) /\ Len(e) = M /\ \A i \in 1 .. M : e[i] = r[i + (n - M)]
    <3>1. M = IF Len(r) > MaxPlayListLen THEN MaxPlayListLen ELSE Len(r)
      BY <1>1, <1>2
    <3> QED BY <3>1, LatestIs
  <2>2. Latest(a) = [i \in 1 .. M |-> a[i + (n + 1 - M)]]
    <3>1. M = IF Len(a) > MaxPlayListLen THEN MaxPlayListLen ELSE Len(a)
      BY <1>1, <1>2
    <3> HIDE DEF a
    <3>2. Latest(a) = [i \in 1 .. M |-> a[i + (Len(a) - M)]]
      BY <1>1, <3>1, LatestIs
    <3> QED BY <1>1, <3>2
  <2>3. AfterLast(e, x) = [i \in 1 .. (M - 1) + 1 |-> IF i <= M - 1 THEN e[i + 1] ELSE x]
    <3> HIDE DEF e
    <3>1. LET d1 == IF Len(e) = MaxPlayListLen THEN 1 ELSE 0
              m1 == Len(e) - d1
          IN  AfterLast(e, x) = [i \in 1 .. m1 + 1 |-> IF i <= m1 THEN e[i + d1] ELSE x]
      <4>1. Len(e) <= MaxPlayListLen /\ e \in Seq(S)
        BY <1>1, <2>1
      <4> HIDE DEF n, M
      <4> QED BY <4>1, AfterLastIs
    <3> QED BY <2>1, <3>1
  <2>4. ASSUME NEW i \in 1 .. M
        PROVE  a[i + (n + 1 - M)] = IF i <= M - 1 THEN e[i + 1] ELSE x
    <3> HIDE DEF a, e, n, M
    <3>1. CASE i <= M - 1
      <4>1. i + 1 \in 1 .. M /\ (i + 1) + (n - M) = i + (n + 1 - M) /\ i + (n + 1 - M) \in 1 .. n
        BY <1>1, <1>2, <3>1
      <4> QED BY <1>1, <2>1, <3>1, <4>1
    <3>2. CASE ~(i <= M - 1)
      <4>1. i + (n + 1 - M) = n + 1
        BY <1>1, <3>2
      <4> QED BY <1>1, <3>2, <4>1
    <3> QED BY <3>1, <3>2
  <2>5. (M - 1) + 1 = M
    BY <1>1
  <2> HIDE DEF a, e, n, M
  <2>6. Latest(a) = AfterLast(e, x)
    BY <2>2, <2>3, <2>4, <2>5
  <2> QED BY <2>6 DEF a, e
<1>3. CASE ~(n >= M)
  <2>1. e \in Seq(S) /\ Len(e) = n /\ \A i \in 1 .. n : e[i] = r[i + (n - n)]
    <3>1. n = IF Len(r) > MaxPlayListLen THEN MaxPlayListLen ELSE Len(r)
      BY <1>1, <1>3
    <3> QED BY <3>1, LatestIs
  <2>2. Latest(a) = [i \in 1 .. n + 1 |-> a[i + (n + 1 - (n + 1))]]
    <3>1. n + 1 = IF Len(a) > MaxPlayListLen THEN MaxPlayListLen ELSE Len(a)
      BY <1>1, <1>3
    <3> HIDE DEF a
    <3>2. Latest(a) = [i \in 1 .. n + 1 |-> a[i + (Len(a) - (n + 1))]]
      BY <1>1, <3>1, LatestIs
    <3> QED BY <1>1, <3>2
  <2>3. AfterLast(e, x) = [i \in 1 .. n + 1 |-> IF i <= n THEN e[i + 0] ELSE x]
    <3> HIDE DEF e
    <3>1. LET d1 == IF Len(e) = MaxPlayListLen THEN 1 ELSE 0
              m1 == Len(e) - d1
          IN  AfterLast(e, x) = [i \in 1 .. m1 + 1 |-> IF i <= m1 THEN e[i + d1] ELSE x]
      <4>1. Len(e) <= MaxPlayListLen
        BY <1>1, <1>3, <2>1
      <4>2. e \in Seq(S)
        BY <2>1
      <4> HIDE DEF n, M
      <4> QED BY <4>1, <4>2, AfterLastIs
    <3>2. Len(e) # MaxPlayListLen /\ n - 0 = n
      BY <1>1, <1>3, <2>1
    <3> HIDE DEF n
    <3> QED BY <2>1, <3>1, <3>2
  <2>4. ASSUME NEW i \in 1 .. n + 1
        PROVE  a[i + (n + 1 - (n + 1))] = IF i <= n THEN e[i + 0] ELSE x
    <3> HIDE DEF a, e, n, M
    <3>1. i + (n + 1 - (n + 1)) = i /\ i + 0 = i /\ i + (n - n) = i
      BY <1>1
    <3>2. CASE i <= n
      <4>1. i \in 1 .. n
        BY <1>1, <3>2
      <4> QED BY <1>1, <2>1, <3>1, <3>2, <4>1
    <3>3. CASE ~(i <= n)
      <4>1. i = n + 1
        BY <1>1, <3>3
      <4> QED BY <1>1, <3>1, <3>3, <4>1
    <3> QED BY <3>2, <3>3
  <2> HIDE DEF a, e, n, M
  <2>5. Latest(a) = AfterLast(e, x)
    BY <2>2, <2>3, <2>4
  <2> QED BY <2>5 DEF a, e
<1> QED BY <1>2, <1>3

\* f has been read up to its element n, and rest is what is left.
ReadTo(f, n, rest) ==
  /\ rest = <<>> => n = Len(f)
  /\ rest # <<>> => /\ n + 1 \in 1 .. Len(f) /\ Head(rest) = f[n + 1]
                    /\ Tail(rest) = SubSeq(f, (n + 1) + 1, Len(f))
                    /\ SubSeq(f, 1, n + 1) = Append(SubSeq(f, 1, n), Head(rest))
  /\ SubSeq(f, 1, Len(f)) = f

LEMMA Shorter ==
  ASSUME NEW S, NEW f \in Seq(S), NEW n \in 0 .. Len(f), NEW rest, rest = SubSeq(f, n + 1, Len(f))
  PROVE  ReadTo(f, n, rest) /\ SubSeq(f, 1, n) \in Seq(S)
<1>1. Len(f) \in Nat /\ n \in Nat /\ n <= Len(f)
  OBVIOUS
<1>2. rest \in Seq(S) /\ Len(rest) = Len(f) - n
      /\ \A i \in 1 .. Len(f) - n : rest[i] = f[n + 1 + i - 1]
  BY <1>1
<1>3. /\ SubSeq(f, 1, n) \in Seq(S) /\ Len(SubSeq(f, 1, n)) = n
      /\ \A i \in 1 .. n : SubSeq(f, 1, n)[i] = f[i]
  BY <1>1
<1>4. SubSeq(f, 1, Len(f)) = f
  BY <1>1
<1>5. rest = <<>> => n = Len(f)
  <2>1. Len(<<>>) = 0
    OBVIOUS
  <2>2. rest = <<>> => Len(f) - n = 0
    BY ONLY <1>2, <2>1
  <2> QED BY ONLY <1>1, <2>2
<1>6. ASSUME rest # <<>>
      PROVE  /\ n + 1 \in 1 .. Len(f) /\ Head(rest) = f[n + 1]
             /\ Tail(rest) = SubSeq(f, (n + 1) + 1, Len(f))
             /\ SubSeq(f, 1, n + 1) = Append(SubSeq(f, 1, n), Head(rest))
  <2>1. n + 1 \in 1 .. Len(f) /\ 1 \in 1 .. Len(f) - n /\ n + 1 + 1 - 1 = n + 1
    <3>1. Len(rest) # 0
      BY <1>2, <1>6
    <3> QED BY <1>1, <1>2, <3>1
  <2>2. Head(rest) = f[n + 1]
    BY <1>2, <1>6, <2>1
  <2>3. Tail(rest) = SubSeq(f, (n + 1) + 1, Len(f))
    <3> DEFINE u == Tail(rest)
               v == SubSeq(f, (n + 1) + 1, Len(f))
    <3>1. u \in Seq(S) /\ Len(u) = Len(f) - n - 1 /\ \A i \in 1 .. Len(f) - n - 1 : u[i] = rest[i + 1]
      BY <1>2, <1>6
    <3>2. v \in Seq(S) /\ Len(v) = Len(f) - n - 1
          /\ \A i \in 1 .. Len(f) - n - 1 : v[i] = f[(n + 1) + 1 + i - 1]
      BY <1>1, <2>1
    <3>3. \A i \in 1 .. Len(f) - n - 1 : i + 1 \in 1 .. Len(f) - n /\ n + 1 + (i + 1) - 1 = (n + 1) + 1 + i - 1
      BY <1>1
    <3> HIDE DEF u, v
    <3>4. u = [i \in 1 .. Len(f) - n - 1 |-> u[i]] /\ v = [i \in 1 .. Len(f) - n - 1 |-> v[i]]
      BY <3>1, <3>2, SeqIsFunction
    <3>5. \A i \in 1 .. Len(f) - n - 1 : u[i] = v[i]
      BY <1>2, <3>1, <3>2, <3>3
    <3>6. u = v
      BY <3>4, <3>5
    <3> QED BY <3>6 DEF u, v
  <2>4. SubSeq(f, 1, n + 1) = Append(SubSeq(f, 1, n), f[n + 1])
    <3> DEFINE p == SubSeq(f, 1, n)
               q == SubSeq(f, 1, n + 1)
    <3>1. q \in Seq(S) /\ Len(q) = n + 1 /\ \A i \in 1 .. n + 1 : q[i] = f[i]
      BY <1>1, <2>1
    <3>2. f[n + 1] \in S
      BY <2>1
    <3> HIDE DEF p, q
    <3>3. Append(p, f[n + 1]) = [i \in 1 .. n + 1 |-> IF i <= n THEN p[i] ELSE f[n + 1]]
      BY <1>3, <3>2, AppendIs DEF p
    <3>4. q = [i \in 1 .. n + 1 |-> q[i]]
      BY <3>1, SeqIsFunction
    <3>5. \A i \in 1 .. n + 1 : q[i] = IF i <= n THEN p[i] ELSE f[n + 1]
      BY <1>1, <1>3, <3>1 DEF p
    <3>6. q = Append(p, f[n + 1])
      BY <3>3, <3>4, <3>5
    <3> QED BY <3>6 DEF p, q
  <2> QED BY <2>1, <2>2, <2>3, <2>4
<1> QED BY <1>3, <1>4, <1>5, <1>6 DEF ReadTo

LEMMA SwapIs ==
  ASSUME NEW S, NEW f \in Seq(S), Len(f) >= 2
  PROVE  /\ ReplaceAt(ReplaceAt(f, 1, f[2]), 2, f[1]) \in Seq(S)
         /\ Len(ReplaceAt(ReplaceAt(f, 1, f[2]), 2, f[1])) = Len(f)
         /\ ReplaceAt(ReplaceAt(f, 1, f[2]), 2, f[1])
              = [i \in 1 .. Len(f) |-> IF i = 2 THEN f[1] ELSE IF i = 1 THEN f[2] ELSE f[i]]
<1> DEFINE n == Len(f)
           g == ReplaceAt(f, 1, f[2])
           h == ReplaceAt(g, 2, f[1])
<1>1. /\ n \in Nat /\ DOMAIN f = 1 .. n /\ 1 \in 1 .. n /\ 2 \in 1 .. n
      /\ \A i \in 1 .. n : f[i] \in S
      /\ f = [i \in 1 .. n |-> f[i]]
  BY SeqIsFunction
<1> HIDE DEF n
<1>2. g = [i \in 1 .. n |-> IF i = 1 THEN f[2] ELSE f[i]]
  BY <1>1 DEF ReplaceAt
<1> HIDE DEF g
<1>3. h = [i \in 1 .. n |-> IF i = 2 THEN f[1] ELSE IF i = 1 THEN f[2] ELSE f[i]]
  BY <1>1, <1>2 DEF ReplaceAt
<1>4. h \in [1 .. n -> S]
  <2> HIDE DEF h
  <2> QED BY <1>1, <1>3
<1> HIDE DEF h
<1>5. h \in Seq(S) /\ Len(h) = n
  BY <1>1, <1>4, FunctionIsSeq
<1> QED BY <1>3, <1>5 DEF g, h, n

\* Exchanging the first two entries twice changes nothing.
LEMMA SwapTwice ==
  ASSUME NEW S, NEW f \in Seq(S), Len(f) >= 2,
         NEW e, e = ReplaceAt(ReplaceAt(f, 1, f[2]), 2, f[1])
  PROVE  ReplaceAt(ReplaceAt(e, 1, e[2]), 2, e[1]) = f
<1>1. /\ Len(f) \in Nat /\ 1 \in 1 .. Len(f) /\ 2 \in 1 .. Len(f)
      /\ f = [i \in 1 .. Len(f) |-> f[i]]
  BY SeqIsFunction
<1>2. /\ e \in Seq(S) /\ Len(e) = Len(f)
      /\ e = [i \in 1 .. Len(f) |-> IF i = 2 THEN f[1] ELSE IF i = 1 THEN f[2] ELSE f[i]]
  BY SwapIs
<1>3. e[1] = f[2] /\ e[2] = f[1] /\ \A i \in 1 .. Len(f) : i # 1 /\ i # 2 => e[i] = f[i]
  BY <1>1, <1>2
<1>4. ReplaceAt(ReplaceAt(e, 1, e[2]), 2, e[1])
        = [i \in 1 .. Len(f) |-> IF i = 2 THEN e[1] ELSE IF i = 1 THEN e[2] ELSE e[i]]
  <2>1. Len(e) >= 2
    BY <1>2
  <2>2. ReplaceAt(ReplaceAt(e, 1, e[2]), 2, e[1])
        = [i \in 1 .. Len(e) |-> IF i = 2 THEN e[1] ELSE IF i = 1 THEN e[2] ELSE e[i]]
    BY <1>2, <2>1, SwapIs
  <2> QED BY <1>2, <2>2
<1>5. \A i \in 1 .. Len(f) : (IF i = 2 THEN e[1] ELSE IF i = 1 THEN e[2] ELSE e[i]) = f[i]
  BY <1>3
<1> QED BY <1>1, <1>4, <1>5

LEMMA RemovedOnce ==
  ASSUME NEW S, NEW f \in Seq(S), NEW k \in 1 .. Len(f)
  PROVE  /\ RemoveAt(f, k) \in Seq(S) /\ Len(RemoveAt(f, k)) = Len(f) - 1
         /\ \A i \in 1 .. Len(f) - 1 : RemoveAt(f, k)[i] = IF i < k THEN f[i] ELSE f[i + 1]
<1>1. RemoveAt(f, k) = [i \in 1 .. Len(f) - 1 |-> IF i < k THEN f[i] ELSE f[i + 1]]
  BY RemoveAtIs
<1>2. Len(f) - 1 \in Nat /\ \A i \in 1 .. Len(f) - 1 : (IF i < k THEN f[i] ELSE f[i + 1]) \in S
  OBVIOUS
<1>3. RemoveAt(f, k) \in [1 .. Len(f) - 1 -> S]
  BY <1>1, <1>2
<1>4. RemoveAt(f, k) \in Seq(S) /\ Len(RemoveAt(f, k)) = Len(f) - 1
  <2> DEFINE g == RemoveAt(f, k)
  <2>1. g \in [1 .. Len(f) - 1 -> S]
    BY <1>3
  <2> HIDE DEF g
  <2>2. g \in Seq(S) /\ Len(g) = Len(f) - 1
    BY <1>2, <2>1, FunctionIsSeq
  <2> QED BY <2>2 DEF g
<1> QED BY <1>1, <1>4

\* Removing the first entry and then what has become the second is removing the
\* third and the first.
LEMMA RemovedTwo ==
  ASSUME NEW S, NEW f \in Seq(S), Len(f) >= 2
  PROVE  /\ WithoutTwo(f) = IF Len(f) = 2 THEN RemoveAt(f, 1) ELSE RemoveAt(RemoveAt(f, 1), 2)
         /\ Len(WithoutTwo(f)) = IF Len(f) = 2 THEN 1 ELSE Len(f) - 2
<1>1. CASE Len(f) = 2
  <2>1. RemoveAt(f, 3) = f
    <3>1. SubSeq(f, 1, 2) = f /\ SubSeq(f, 4, 2) = <<>> /\ f \o <<>> = f
      BY <1>1
    <3>2. RemoveAt(f, 3) = SubSeq(f, 1, 2) \o SubSeq(f, 4, 2)
      BY <1>1 DEF RemoveAt
    <3> QED BY <3>1, <3>2
  <2>2. 1 \in 1 .. Len(f)
    BY <1>1
  <2>3. Len(RemoveAt(f, 1)) = 1
    <3>1. Len(RemoveAt(f, 1)) = Len(f) - 1
      BY <2>2, RemovedOnce
    <3> QED BY <1>1, <3>1
  <2> QED BY <1>1, <2>1, <2>3 DEF WithoutTwo
<1>2. CASE Len(f) # 2
  <2> DEFINE g == RemoveAt(f, 3)
             h == RemoveAt(f, 1)
             n == Len(f)
  <2>1. n \in Nat /\ 3 \in 1 .. n /\ 1 \in 1 .. n /\ 1 \in 1 .. n - 1 /\ 2 \in 1 .. n - 1
        /\ (n - 1) - 1 = n - 2 /\ n - 2 \in Nat
    <3>1. n \in Nat /\ n >= 2 /\ n # 2
      BY <1>2
    <3> HIDE DEF n
    <3> QED BY <3>1
  <2>2. g \in Seq(S) /\ Len(g) = n - 1 /\ \A i \in 1 .. n - 1 : g[i] = IF i < 3 THEN f[i] ELSE f[i + 1]
    <3> HIDE DEF n
    <3> QED BY <2>1, RemovedOnce DEF n
  <2>3. h \in Seq(S) /\ Len(h) = n - 1 /\ \A i \in 1 .. n - 1 : h[i] = f[i + 1]
    <3>1. \A i \in 1 .. n - 1 : ~(i < 1)
      BY <2>1
    <3> HIDE DEF n
    <3> QED BY <2>1, <3>1, RemovedOnce DEF n
  <2> HIDE DEF g, h, n
  <2>4. RemoveAt(g, 1) = [i \in 1 .. n - 2 |-> IF i < 1 THEN g[i] ELSE g[i + 1]]
    BY <2>1, <2>2, RemoveAtIs
  <2>5. RemoveAt(h, 2) = [i \in 1 .. n - 2 |-> IF i < 2 THEN h[i] ELSE h[i + 1]]
    BY <2>1, <2>3, RemoveAtIs
  <2>6. ASSUME NEW i \in 1 .. n - 2
        PROVE  (IF i < 1 THEN g[i] ELSE g[i + 1]) = (IF i < 2 THEN h[i] ELSE h[i + 1])
    <3>1. ~(i < 1) /\ i \in 1 .. n - 1 /\ i + 1 \in 1 .. n - 1 /\ (i < 2 <=> i + 1 < 3)
      BY <2>1
    <3> QED BY <2>2, <2>3, <3>1
  <2>7. RemoveAt(g, 1) = RemoveAt(h, 2)
    BY <2>4, <2>5, <2>6
  <2>8. Len(RemoveAt(g, 1)) = n - 2
    BY <2>1, <2>2, RemovedOnce
  <2> QED BY <1>2, <2>7, <2>8 DEF WithoutTwo, g, h, n
<1> QED BY <1>1, <1>2

--------------------------------------------------------------------------------
(* What the calls do to the list, seen as the sequence of its paths.       *)

LEMMA ListAgain ==
  ASSUME NEW t, Linked(t)', TypeOK', Forgotten'
  PROVE  ListIInv' /\ Order' = t
<1>1. Order' = t
  BY OrderNext
<1> QED BY <1>1 DEF ListIInv

\* The list has as many entries as nodes.
LEMMA EntriesAre ==
  ASSUME NEW s, Linked(s), TypeOK
  PROVE  /\ Order = s /\ Entries \in Seq(Path) /\ Len(Entries) = Len(s)
         /\ \A i \in 1 .. Len(s) : Entries[i] = path[s[i]]
         /\ DOMAIN Entries = 1 .. Len(s)
         /\ Len(s) \in Nat /\ Len(s) <= MaxPlayListLen
<1>1. Entries = PathsOf(s, path) /\ s \in Seq(Node) /\ path \in [Node -> Path]
  BY Mapped, LinkedFacts DEF TypeOK
<1>2. /\ PathsOf(s, path) \in Seq(Path) /\ Len(PathsOf(s, path)) = Len(s)
      /\ DOMAIN PathsOf(s, path) = 1 .. Len(s)
      /\ \A i \in 1 .. Len(s) : PathsOf(s, path)[i] = path[s[i]]
  BY <1>1, PathsAre
<1> QED BY <1>1, <1>2, Walks, LinkedFacts

\* The page is where its position says.
LEMMA PageAt ==
  ASSUME NEW s, Linked(s), TypeOK
  PROVE  /\ \A k \in 1 .. Len(s) : Position = k <=> pagehead = s[k]
         /\ pagehead = NULL => Position = 0
         /\ Position \in 1 .. Len(s) => PageInPlace
         /\ pagehead = NULL => PageInPlace
<1>1. \A i \in 1 .. Len(s) : s[i] # NULL /\ s[i] \in live
  BY LinkedFacts
<1>2. \A i, j \in 1 .. Len(s) : s[i] = s[j] => i = j
  BY LinkedFacts
<1>3. ASSUME NEW k \in 1 .. Len(s) PROVE k # 0 /\ k # Lost
  BY PlayListAssumption, LinkedFacts
<1>4. /\ s \in Seq(Node)
      /\ Position = PosOf(s, pagehead)
  BY Mapped, LinkedFacts
<1>5. \A k \in 1 .. Len(s) : PosOf(s, s[k]) = k
  BY <1>2, <1>4, PositionIs
<1>6. ASSUME NEW k \in 1 .. Len(s) PROVE Position = k <=> pagehead = s[k]
  <2>1. pagehead = s[k] => Position = k
    BY <1>4, <1>5
  <2>2. ASSUME Position = k PROVE pagehead = s[k]
    <3>1. CASE pagehead = NULL /\ Position = 0
      BY <1>3, <2>2, <3>1
    <3>2. CASE pagehead \in Node \ live /\ Position = Lost
      BY <1>3, <2>2, <3>2
    <3>3. CASE \E j \in 1 .. Len(s) : pagehead = s[j] /\ Position = j
      BY <2>2, <3>3
    <3> QED BY <3>1, <3>2, <3>3, PageCases
  <2> QED BY <2>1, <2>2
<1>7. pagehead = NULL => Position = 0
  BY <1>4 DEF PosOf
<1>8. Position \in 1 .. Len(s) => PageInPlace
  BY <1>1, <1>6 DEF PageInPlace
<1> QED BY <1>6, <1>7, <1>8 DEF PageInPlace

LEMMA Kept ==
  ASSUME NEW s, Linked(s), TypeOK, Forgotten,
         UNCHANGED <<live, next, prv, path, filelist, pagehead>>,
         selnode' \in Pointer, crashed' \in BOOLEAN
  PROVE  /\ ListIInv' /\ Linked(s)' /\ Order = s /\ Order' = s
         /\ Entries' = Entries /\ Position' = Position
<1>1. path' \in [Node -> Path] /\ pagehead' \in Pointer
  BY DEF TypeOK
<1>2. Linked(s)' /\ TypeOK' /\ Forgotten'
  BY <1>1, HeapKept
<1>3. Entries' = Entries /\ Position' = Position
  BY <1>2, Mapped, MappedNext
<1> QED BY <1>2, <1>3, ListAgain, Walks

\* readplaylist's addplaylist_last never goes through NULL: the list it evicts
\* from has a second entry.
LEMMA AddOne ==
  ASSUME NEW s, Linked(s), TypeOK, Forgotten, ~crashed, NEW p \in Path, AddplaylistLast(p)
  PROVE  /\ ~crashed' /\ ListIInv' /\ Entries' = AfterLast(Entries, p)
         /\ pagehead' = pagehead
<1>1. ~crashed'
  <2>1. /\ Len(s) \in Nat /\ Range(s) = live /\ Order = s
        /\ Len(s) # 0 => filelist = s[1]
        /\ \A i \in 1 .. Len(s) : s[i] \in live
        /\ \A i \in 1 .. Len(s) : next[s[i]] = IF i < Len(s) THEN s[i + 1] ELSE NULL
    BY LinkedFacts, Walks DEF Linked
  <2>2. Len(s) = MaxPlayListLen
          => 1 \in 1 .. Len(s) /\ 2 \in 1 .. Len(s) /\ 1 < Len(s) /\ 1 + 1 = 2 /\ Len(s) # 0
    BY <2>1, Sizes
  <2>3. Len(s) = MaxPlayListLen => filelist \in live /\ next[filelist] \in live
    BY <2>1, <2>2
  <2>4. crashed' = ~((Range(Order) \cup (IF Len(Order) = MaxPlayListLen
                                         THEN {filelist, next[filelist]} ELSE {})) \subseteq live)
    BY DEF AddplaylistLast, Dereferencing
  <2> QED BY <2>1, <2>3, <2>4
<1>2. PICK l \in Node : /\ Linked(AfterLast(s, l))' /\ TypeOK' /\ Forgotten'
                        /\ pagehead' = pagehead
  BY <1>1, AddLastEffect
<1>3. ListIInv'
  <2> DEFINE t == AfterLast(s, l)
  <2>1. Linked(t)'
    BY <1>2
  <2> HIDE DEF t
  <2> QED BY <1>2, <2>1, ListAgain
<1>4. Entries' = Append(IF Len(Entries) = MaxPlayListLen THEN Tail(Entries) ELSE Entries, p)
  <2>1. Playlist!AddLast(p)
    BY <1>1, RefinesAddLast
  <2> QED BY <2>1 DEF Playlist!AddLast, Playlist!Full
<1> QED BY <1>1, <1>2, <1>3, <1>4 DEF AfterLast

\* swapplayNode on the first node forward, or on the second one back.
LEMMA SwapPair ==
  ASSUME NEW s, Linked(s), TypeOK, Forgotten, ~crashed, Len(s) >= 2, NEW forward \in BOOLEAN,
         SwapplayNode(s[IF forward THEN 1 ELSE 2], forward)
  PROVE  /\ ~crashed' /\ ListIInv' /\ Order' = s /\ pagehead' = pagehead
         /\ Entries' = ReplaceAt(ReplaceAt(Entries, 1, Entries[2]), 2, Entries[1])
         /\ selnode = s[IF forward THEN 1 ELSE 2] => selnode' = s[IF forward THEN 2 ELSE 1]
<1> DEFINE k == IF forward THEN 1 ELSE 2
           j == IF forward THEN 2 ELSE 1
<1>1. /\ Len(s) \in Nat /\ k \in 1 .. Len(s) /\ j \in 1 .. Len(s) /\ 1 + 1 = 2 /\ 2 - 1 = 1
      /\ (forward => k < Len(s) /\ k + 1 = j) /\ (~forward => k > 1 /\ k - 1 = j)
  BY LinkedFacts
<1> HIDE DEF k, j
<1>2. SwapplayNode(s[k], forward)
  BY DEF k
<1>3. /\ s[k] \in live /\ s[j] \in live /\ s[j] # NULL
      /\ (IF forward THEN next[s[k]] ELSE prv[s[k]]) = s[j]
  BY <1>1, LinkedFacts
<1>4. ~crashed' /\ selnode' = SelectionAfterSwap(s[k], s[j], IF forward THEN prv[s[k]] ELSE next[s[k]])
  BY <1>2, <1>3 DEF SwapplayNode, Dereferencing, NonNull
<1>5. Linked(s)' /\ TypeOK' /\ Forgotten' /\ pagehead' = pagehead
  BY <1>1, <1>2, <1>4, SwapEffect
<1>6. Playlist!SwapEntry(1)
  <2>1. LET i == IF forward THEN k ELSE k - 1 IN i \in DOMAIN Entries /\ Playlist!SwapEntry(i)
    BY <1>1, <1>2, <1>4, RefinesSwap
  <2>2. (IF forward THEN k ELSE k - 1) = 1
    BY DEF k
  <2> QED BY <2>1, <2>2
<1>7. Entries' = ReplaceAt(ReplaceAt(Entries, 1, Entries[2]), 2, Entries[1])
  BY <1>1, <1>6 DEF Playlist!SwapEntry, Playlist!ReplaceAt, ReplaceAt
<1>8. selnode = s[k] => selnode' = s[j]
  <2>1. s[k] # s[j]
    <3>1. k # j
      BY <1>1
    <3> QED BY <1>1, <3>1, LinkedFacts
  <2> QED BY <1>4, <2>1 DEF SelectionAfterSwap
<1> QED BY <1>4, <1>5, <1>7, <1>8, ListAgain DEF k, j

\* removeplayNode on a node of a list that has another.
LEMMA RemoveOne ==
  ASSUME NEW s, Linked(s), TypeOK, Forgotten, ~crashed, Len(s) >= 2, PageInPlace,
         NEW k \in 1 .. Len(s), RemoveplayNode(s[k])
  PROVE  /\ ~crashed' /\ ListIInv' /\ Entries' = RemoveAt(Entries, k)
         /\ Len(Order') = Len(s) - 1
         /\ pagehead = NULL => pagehead' = NULL
         /\ Position \in 1 .. k - 1 => Position' = Position
<1>1. /\ Len(s) \in Nat /\ Range(Order) = live /\ Order = s
      /\ s[k] \in live /\ s[k] # NULL
  BY LinkedFacts, Walks DEF Linked
<1>2. ~crashed'
  <2>1. Next
    BY <1>1 DEF Next
  <2> QED BY <2>1, NoCrash
<1>3. Linked(Without(s, k))' /\ TypeOK' /\ Forgotten' /\ pagehead' = PageAfterRemoval(s[k])
  BY <1>2, RemoveEffect
<1>4. ListIInv' /\ Order' = Without(s, k)
  <2> DEFINE t == Without(s, k)
  <2>1. Linked(t)'
    BY <1>3
  <2> HIDE DEF t
  <2>2. ListIInv' /\ Order' = t
    BY <1>3, <2>1, ListAgain
  <2> QED BY <2>2 DEF t
<1>5. Len(Without(s, k)) = Len(s) - 1
  <2>1. \A i \in 1 .. Len(s) - 1 : (IF i < k THEN s[i] ELSE s[i + 1]) \in Node
    BY <1>1, LinkedFacts
  <2>2. Len(s) - 1 \in Nat
    BY <1>1
  <2> DEFINE t == Without(s, k)
  <2>3. t \in [1 .. Len(s) - 1 -> Node]
    BY <2>1 DEF Without
  <2> HIDE DEF t
  <2>4. Len(t) = Len(s) - 1
    BY <2>2, <2>3, FunctionIsSeq
  <2> QED BY <2>4 DEF t
<1>6. Playlist!RemoveEntry(k)
  BY <1>2, RefinesRemove
<1>7. Entries' = RemoveAt(Entries, k)
  BY <1>6 DEF Playlist!RemoveEntry, Playlist!RemoveAt, RemoveAt
<1>8. pagehead = NULL => pagehead' = NULL
  BY <1>1, <1>3 DEF PageAfterRemoval
<1>9. Position \in 1 .. k - 1 => Position' = Position
  <2>1. Position \in 1 .. k - 1 => ~(Position > k) /\ Position # k
    OBVIOUS
  <2> QED BY <1>6, <2>1 DEF Playlist!RemoveEntry
<1> QED BY <1>2, <1>4, <1>5, <1>7, <1>8, <1>9

\* getPage on a list that is not empty.
LEMMA TurnPage ==
  ASSUME NEW s, Linked(s), TypeOK, Forgotten, ~crashed, Len(s) # 0, PageInPlace,
         NEW forward \in BOOLEAN, GetPage(forward)
  PROVE  /\ ~crashed' /\ ListIInv' /\ Order' = s /\ Entries' = Entries
         /\ live' = live /\ filelist' = filelist
         /\ \E k \in 0 .. Len(s) :
              /\ pagehead = IF k = 0 THEN NULL ELSE s[k]
              /\ Position' = IF forward THEN PageAhead(Len(s), k) ELSE PageBefore(k)
              /\ Position' \in 1 .. Len(s)
<1>1. ~crashed'
  BY GetPageSafe
<1>2. PICK k \in 0 .. Len(s) :
         /\ pagehead = IF k = 0 THEN NULL ELSE s[k]
         /\ pagehead' = s[IF forward THEN PageAhead(Len(s), k) ELSE PageBefore(k)]
         /\ UNCHANGED <<live, next, prv, path, filelist, selnode>> /\ crashed' = FALSE
  BY <1>1, GetPageEffect
<1> DEFINE j == IF forward THEN PageAhead(Len(s), k) ELSE PageBefore(k)
<1>3. /\ Len(s) \in Nat \ {0} /\ s \in Seq(Node) /\ j \in 1 .. Len(s) /\ s[j] \in Node
      /\ \A x, y \in 1 .. Len(s) : s[x] = s[y] => x = y
  <2>1. Len(s) \in Nat \ {0} /\ \A i \in 1 .. Len(s) : s[i] \in Node
    BY LinkedFacts
  <2>2. PageAhead(Len(s), k) \in 1 .. Len(s) /\ PageBefore(k) \in 1 .. Len(s)
    BY <2>1, PageBounds
  <2>3. j \in 1 .. Len(s)
    BY <2>2
  <2> HIDE DEF j
  <2> QED BY <2>1, <2>3, LinkedFacts
<1>4. pagehead' = s[j]
  BY <1>2
<1> HIDE DEF j
<1>5. Linked(s)' /\ TypeOK' /\ Forgotten'
  <2>1. path' \in [Node -> Path] /\ pagehead' \in Pointer /\ selnode' \in Pointer /\ crashed' \in BOOLEAN
    BY <1>2, <1>3, <1>4 DEF TypeOK, Pointer
  <2> QED BY <1>2, <2>1, HeapKept
<1>6. Entries' = Entries /\ Position' = PosOf(s, pagehead')
  BY <1>2, <1>5, Mapped, MappedNext
<1>7. Position' = j
  BY <1>3, <1>4, <1>6, PositionIs
<1> QED BY <1>1, <1>2, <1>3, <1>5, <1>6, <1>7, ListAgain DEF j

--------------------------------------------------------------------------------
(* The calls of main, one after the other.                                 *)

LEMMA ScriptIs ==
  /\ Len(Script) = 28 /\ DOMAIN Script = 1 .. 28
  /\ Script[1] = "readplaylist" /\ Script[2] = "select" /\ Script[3] = "swap"
  /\ Script[4] = "print" /\ Script[5] = "displaylist" /\ Script[6] = "swapback"
  /\ Script[7] = "print" /\ Script[8] = "displaylist" /\ Script[9] = "removefirst"
  /\ Script[10] = "displaylist" /\ Script[11] = "getPage" /\ Script[12] = "removesecond"
  /\ \A i \in {14, 16, 18} : Script[i] = "getPage"
  /\ \A i \in {20, 22, 24, 26} : Script[i] = "getPageback"
  /\ \A i \in {13, 15, 17, 19, 21, 23, 25, 27} : Script[i] = "displayPage"
  /\ Script[28] = "saveplaylist"
BY DEF Script

LEMMA WhichCall ==
  /\ Calls("readplaylist") => at = 1
  /\ Calls("select") => at = 2
  /\ Calls("swap") => at = 3
  /\ Calls("print") => at \in {4, 7}
  /\ Calls("displaylist") => at \in {5, 8, 10}
  /\ Calls("swapback") => at = 6
  /\ Calls("removefirst") => at = 9
  /\ Calls("removesecond") => at = 12
  /\ Calls("getPage") => at \in {11, 14, 16, 18}
  /\ Calls("getPageback") => at \in {20, 22, 24, 26}
  /\ Calls("displayPage") => at \in {13, 15, 17, 19, 21, 23, 25, 27}
  /\ Calls("saveplaylist") => at = 28
  /\ \A name : Calls(name) => ~crashed
<1>1. 1 .. 28 = {1, 2, 3, 4, 5, 6, 7, 8, 9, 10, 11, 12, 13, 14, 15, 16, 17, 18, 19, 20,
                 21, 22, 23, 24, 25, 26, 27, 28}
  OBVIOUS
<1>2. ASSUME NEW i \in 1 .. 28
      PROVE  \/ i = 1 /\ Script[i] = "readplaylist"
             \/ i = 2 /\ Script[i] = "select"
             \/ i = 3 /\ Script[i] = "swap"
             \/ i \in {4, 7} /\ Script[i] = "print"
             \/ i \in {5, 8, 10} /\ Script[i] = "displaylist"
             \/ i = 6 /\ Script[i] = "swapback"
             \/ i = 9 /\ Script[i] = "removefirst"
             \/ i = 12 /\ Script[i] = "removesecond"
             \/ i \in {11, 14, 16, 18} /\ Script[i] = "getPage"
             \/ i \in {20, 22, 24, 26} /\ Script[i] = "getPageback"
             \/ i \in {13, 15, 17, 19, 21, 23, 25, 27} /\ Script[i] = "displayPage"
             \/ i = 28 /\ Script[i] = "saveplaylist"
  <2>1. CASE i \in {1, 2, 3, 6, 9, 12, 28}
    BY <2>1, ScriptIs
  <2>2. CASE i \in {4, 7}
    BY <2>2, ScriptIs
  <2>3. CASE i \in {5, 8, 10}
    BY <2>3, ScriptIs
  <2>4. CASE i \in {11, 14, 16, 18}
    BY <2>4, ScriptIs
  <2>5. CASE i \in {20, 22, 24, 26}
    BY <2>5, ScriptIs
  <2>6. CASE i \in {13, 15, 17, 19, 21, 23, 25, 27}
    BY <2>6, ScriptIs
  <2> QED BY ONLY <1>1, <2>1, <2>2, <2>3, <2>4, <2>5, <2>6, i \in 1 .. 28
<1>3. \A name : Calls(name) => ~crashed
  BY DEF Calls
<1>4. /\ Calls("readplaylist") => at = 1
      /\ Calls("select") => at = 2
      /\ Calls("swap") => at = 3
      /\ Calls("print") => at \in {4, 7}
      /\ Calls("displaylist") => at \in {5, 8, 10}
      /\ Calls("swapback") => at = 6
  BY <1>2, ScriptIs DEF Calls
<1>5. /\ Calls("removefirst") => at = 9
      /\ Calls("removesecond") => at = 12
      /\ Calls("getPage") => at \in {11, 14, 16, 18}
      /\ Calls("getPageback") => at \in {20, 22, 24, 26}
      /\ Calls("displayPage") => at \in {13, 15, 17, 19, 21, 23, 25, 27}
      /\ Calls("saveplaylist") => at = 28
  BY <1>2, ScriptIs DEF Calls
<1> QED BY <1>3, <1>4, <1>5

LEMMA FoundIs ==
  ASSUME file \in Seq(Path)
  PROVE  /\ Found \in Seq(Path) /\ Len(Found) \in Nat /\ Len(file) \in Nat
         /\ Len(Found) <= MaxPlayListLen
         /\ Len(Found) < 2 => Len(file) < 2
<1> DEFINE m == IF Len(file) > MaxPlayListLen THEN MaxPlayListLen ELSE Len(file)
<1>1. Found \in Seq(Path) /\ Len(Found) = m
  BY LatestIs DEF Found
<1>2. Len(file) \in Nat /\ m \in Nat /\ m <= MaxPlayListLen /\ (m < 2 => Len(file) < 2)
  BY Sizes
<1> QED BY <1>1, <1>2

\* What DemoIInv says of the list.
LEMMA Holds ==
  ASSUME DemoIInv
  PROVE  \E s : /\ s = Order /\ Linked(s) /\ TypeOK /\ Forgotten
                /\ Len(s) = Len(Entries) /\ Len(s) \in Nat /\ Entries \in Seq(Path)
                /\ filelist = IF Len(s) = 0 THEN NULL ELSE s[1]
                /\ Len(s) # 0 => s[1] \in live
                /\ next \in [Node -> live \cup {NULL}]
                /\ next[s[1]] = IF Len(s) >= 2 THEN s[2] ELSE IF Len(s) = 1 THEN NULL ELSE next[s[1]]
                /\ Len(s) >= 2 => s[2] \in live /\ prv[s[2]] = s[1]
<1>1. PICK s : s = Order /\ Linked(s) /\ TypeOK /\ Forgotten
  BY DEF DemoIInv, ListIInv
<1>2. Len(s) \in Nat /\ filelist = IF Len(s) = 0 THEN NULL ELSE s[1]
  BY <1>1, LinkedFacts
<1>3. Len(s) # 0 => 1 \in 1 .. Len(s) /\ (1 < Len(s) <=> Len(s) >= 2) /\ 1 + 1 = 2
  BY <1>2
<1>4. Len(s) >= 2 => 2 \in 1 .. Len(s) /\ 2 > 1 /\ 2 - 1 = 1
  BY <1>2
<1>5. Len(s) # 0 => s[1] \in live
  BY <1>1, <1>3, LinkedFacts
<1>6. Len(s) # 0 => next[s[1]] = IF Len(s) >= 2 THEN s[2] ELSE NULL
  BY <1>1, <1>3, LinkedFacts
<1>7. Len(s) >= 2 => s[2] \in live /\ prv[s[2]] = s[1]
  BY <1>1, <1>4, LinkedFacts
<1>8. Len(s) = Len(Entries) /\ Entries \in Seq(Path)
  BY <1>1, EntriesAre
<1>9. next[s[1]] = IF Len(s) >= 2 THEN s[2] ELSE IF Len(s) = 1 THEN NULL ELSE next[s[1]]
  BY <1>2, <1>6
<1> QED BY <1>1, <1>2, <1>5, <1>7, <1>8, <1>9 DEF TypeOK

LEMMA Moved ==
  ASSUME DemoIInv, ListIInv', file' = file, unread' = unread, at' \in 2 .. 29, ~crashed',
         ContentsInv', PointerInv', ShownInv'
  PROVE  DemoIInv'
BY DEF DemoIInv, CrashInv, ReadInv

LEMMA CrashedHere ==
  ASSUME DemoIInv, ListIInv', file' = file, unread' = unread, at' \in {4, 7}, crashed', Len(file) < 2
  PROVE  DemoIInv'
BY DEF DemoIInv, CrashInv, ReadInv, ContentsInv, PointerInv, ShownInv

\* readplaylist adds the lines of the file one after the other.
LEMMA ReadStep ==
  ASSUME DemoIInv, Readplaylist
  PROVE  DemoIInv'
<1>1. at = 1 /\ ~crashed /\ file' = file /\ shown' = shown
  BY WhichCall DEF Readplaylist
<1>2. file \in Seq(Path) /\ unread \in Seq(Path) /\ pagehead = NULL /\ shown = {} /\ TypeOK
  BY <1>1 DEF DemoIInv, PointerInv, ShownInv, ListIInv
<1>3. PICK n \in 0 .. Len(file) : /\ unread = SubSeq(file, n + 1, Len(file))
                                  /\ Entries = Latest(SubSeq(file, 1, n))
  BY <1>1 DEF DemoIInv, ReadInv
<1>4. PICK s : s = Order /\ Linked(s) /\ TypeOK /\ Forgotten
  BY Holds
<1>5. /\ unread = <<>> => n = Len(file)
      /\ unread # <<>> => /\ n + 1 \in 1 .. Len(file)
                          /\ Tail(unread) = SubSeq(file, (n + 1) + 1, Len(file))
                          /\ SubSeq(file, 1, n + 1) = Append(SubSeq(file, 1, n), Head(unread))
      /\ SubSeq(file, 1, n) \in Seq(Path) /\ SubSeq(file, 1, Len(file)) = file
  <2>1. ReadTo(file, n, unread) /\ SubSeq(file, 1, n) \in Seq(Path)
    BY <1>2, <1>3, Shorter
  <2> QED BY <2>1 DEF ReadTo
<1>6. CASE unread = <<>>
  <2>1. at' = 2 /\ UNCHANGED <<vars, unread>>
    BY <1>1, <1>6 DEF Readplaylist, Returns
  <2>2. ~crashed' /\ pagehead' = pagehead /\ selnode' \in Pointer /\ crashed' \in BOOLEAN
    BY <1>1, <1>2, <2>1 DEF vars, TypeOK
  <2>3. ListIInv' /\ Entries' = Entries
    BY <1>1, <1>4, <2>1, <2>2, Kept DEF vars, heap
  <2>4. Entries = Found
    BY <1>3, <1>5, <1>6 DEF Found
  <2>5. Entries' = Found'
    BY <1>1, <2>3, <2>4 DEF Found
  <2>6. ContentsInv' /\ PointerInv' /\ ShownInv'
    BY <1>1, <1>2, <2>1, <2>2, <2>5 DEF ContentsInv, PointerInv, ShownInv
  <2> QED BY <1>1, <2>1, <2>2, <2>3, <2>6, Moved
<1>7. CASE unread # <<>>
  <2> DEFINE p == Head(unread)
             r == SubSeq(file, 1, n)
  <2>1. p \in Path /\ Tail(unread) \in Seq(Path)
    BY <1>2, <1>7
  <2>2. AddplaylistLast(p) /\ unread' = Tail(unread) /\ at' = 1
    BY <1>1, <1>7 DEF Readplaylist
  <2> HIDE DEF p, r
  <2>3. ~crashed' /\ ListIInv' /\ Entries' = AfterLast(Entries, p) /\ pagehead' = pagehead
    BY <1>1, <1>4, <2>1, <2>2, AddOne
  <2>4. Entries' = Latest(SubSeq(file, 1, n + 1))
    <3>1. r \in Seq(Path) /\ SubSeq(file, 1, n + 1) = Append(r, p) /\ Entries = Latest(r)
      BY <1>3, <1>5, <1>7 DEF p, r
    <3>2. Latest(Append(r, p)) = AfterLast(Latest(r), p)
      BY <2>1, <3>1, LatestAppend
    <3> QED BY <2>3, <3>1, <3>2
  <2>5. ReadInv'
    <3>1. n + 1 \in 0 .. Len(file)
      <4>1. n \in Nat /\ Len(file) \in Nat
        BY <1>2, <1>3
      <4>2. n + 1 \in 1 .. Len(file)
        BY <1>5, <1>7
      <4> QED BY ONLY <4>1, <4>2
    <3>2. unread' = SubSeq(file', (n + 1) + 1, Len(file')) /\ Entries' = Latest(SubSeq(file', 1, n + 1))
      BY <1>1, <1>5, <1>7, <2>2, <2>4
    <3>3. \E j \in 0 .. Len(file') : /\ unread' = SubSeq(file', j + 1, Len(file'))
                                     /\ Entries' = Latest(SubSeq(file', 1, j))
      BY <1>1, <3>1, <3>2
    <3> QED BY <3>3 DEF ReadInv
  <2>6. CrashInv' /\ ContentsInv' /\ PointerInv' /\ ShownInv'
    BY <1>1, <1>2, <2>2, <2>3 DEF CrashInv, ContentsInv, PointerInv, ShownInv
  <2> QED BY <1>1, <1>2, <2>1, <2>2, <2>3, <2>5, <2>6 DEF DemoIInv
<1> QED BY <1>6, <1>7

\* selectedlist is set to the first node.
LEMMA SelectStep ==
  ASSUME DemoIInv, Calls("select"), Select, Returns, UNCHANGED <<file, unread, shown>>
  PROVE  DemoIInv'
<1>1. at = 2 /\ at' = 3 /\ ~crashed /\ file \in Seq(Path)
  <2>1. at = 2 /\ ~crashed
    BY WhichCall
  <2> QED BY <2>1 DEF Returns, DemoIInv
<1>2. PICK s : s = Order /\ Linked(s) /\ TypeOK /\ Forgotten
  BY Holds
<1>3. /\ UNCHANGED <<live, next, prv, path, filelist, pagehead>> /\ ~crashed' /\ crashed' \in BOOLEAN
      /\ selnode' = filelist /\ selnode' \in Pointer
  BY <1>1, <1>2 DEF Select, heap, TypeOK
<1>4. ListIInv' /\ Entries' = Entries /\ Order' = Order /\ Position' = Position
  BY <1>2, <1>3, Kept
<1>5. Found' = Found
  BY DEF Found
<1>6. ContentsInv' /\ PointerInv' /\ ShownInv'
  BY <1>1, <1>3, <1>4, <1>5 DEF DemoIInv, ContentsInv, PointerInv, ShownInv
<1> QED BY <1>1, <1>3, <1>4, <1>6, Moved

\* A call that changes nothing and is not the last of its kind.
LEMMA Unchanged ==
  ASSUME DemoIInv, ~crashed, at \in {4, 5, 7, 8, 10}, at' = at + 1,
         UNCHANGED <<heap, pagehead, selnode, crashed, file, unread, shown>>
  PROVE  DemoIInv'
<1>1. PICK s : s = Order /\ Linked(s) /\ TypeOK /\ Forgotten
  BY Holds
<1>2. /\ ListIInv' /\ Entries' = Entries /\ Order' = Order /\ Position' = Position
      /\ Found' = Found /\ ~crashed'
  <2>1. selnode' \in Pointer /\ crashed' \in BOOLEAN
    BY <1>1 DEF TypeOK
  <2>2. Found' = Found
    BY DEF Found
  <2> QED BY <1>1, <2>1, <2>2, Kept DEF heap
<1>3. at' \in 2 .. 29
  OBVIOUS
<1>4. ContentsInv' /\ PointerInv' /\ ShownInv'
  <2>1. ContentsInv /\ PointerInv /\ ShownInv
    BY DEF DemoIInv
  <2>2. ContentsInv'
    BY <1>2, <2>1 DEF ContentsInv
  <2>3. PointerInv'
    BY <1>2, <2>1 DEF PointerInv
  <2>4. ShownInv'
    BY <1>2, <2>1 DEF ShownInv
  <2> QED BY <2>2, <2>3, <2>4
<1> QED BY <1>2, <1>3, <1>4, Moved

LEMMA Through ==
  ASSUME DemoIInv, ~crashed, ThroughNull, UNCHANGED <<file, unread, shown>>, at' \in {4, 7},
         Len(Found) < 2
  PROVE  DemoIInv'
<1>1. PICK s : s = Order /\ Linked(s) /\ TypeOK /\ Forgotten
  BY Holds
<1>2. crashed' = TRUE /\ UNCHANGED <<heap, pagehead, selnode>>
  <2>1. NULL \notin live
    BY <1>1, Sizes DEF TypeOK
  <2> QED BY <2>1 DEF ThroughNull, Dereferencing
<1>3. ListIInv'
  <2>1. selnode' \in Pointer
    BY <1>1, <1>2 DEF TypeOK
  <2> QED BY <1>1, <1>2, <2>1, Kept DEF heap
<1>4. Len(file) < 2
  BY FoundIs DEF DemoIInv
<1> QED BY <1>2, <1>3, <1>4, CrashedHere

\* The first two entries change places.  With a single entry nothing happens;
\* with none the call goes through NULL.
LEMMA SwapStep ==
  ASSUME DemoIInv, Calls("swap"), Swap(filelist, TRUE), Returns, UNCHANGED <<file, unread, shown>>
  PROVE  DemoIInv'
<1>1. at = 3 /\ at' = 4 /\ ~crashed
  <2>1. at = 3 /\ ~crashed
    BY WhichCall
  <2> QED BY <2>1 DEF Returns
<1>2. Entries = Found /\ selnode = filelist /\ pagehead = NULL /\ shown = {} /\ file \in Seq(Path)
  BY <1>1 DEF DemoIInv, ContentsInv, PointerInv, ShownInv
<1>3. PICK s : /\ s = Order /\ Linked(s) /\ TypeOK /\ Forgotten
               /\ Len(s) = Len(Entries) /\ Len(s) \in Nat
               /\ filelist = IF Len(s) = 0 THEN NULL ELSE s[1]
               /\ Len(s) # 0 => s[1] \in live
               /\ next[s[1]] = IF Len(s) >= 2 THEN s[2] ELSE IF Len(s) = 1 THEN NULL ELSE next[s[1]]
               /\ Len(s) >= 2 => s[2] \in live
  BY Holds
<1>4. NULL \notin live /\ Found' = Found
  BY <1>3, Sizes DEF TypeOK, Found
<1>5. CASE ThroughNull /\ filelist = NULL
  <2>1. Len(Found) < 2
    BY <1>2, <1>3, <1>4, <1>5
  <2> QED BY <1>1, <1>5, <2>1, Through
<1>6. CASE filelist # NULL /\ SwapplayNode(filelist, TRUE)
  <2>1. Len(s) # 0 /\ filelist = s[1]
    BY <1>3, <1>6
  <2>2. next[filelist] # NULL
    <3>1. next[filelist] \in live \cup {NULL}
      BY <1>3, <2>1 DEF TypeOK
    <3> QED BY <1>3, <1>6, <2>1, <3>1 DEF SwapplayNode, Dereferencing, NonNull
  <2>3. Len(s) >= 2
    BY <1>3, <2>1, <2>2
  <2>4. /\ ~crashed' /\ ListIInv' /\ Order' = s /\ pagehead' = pagehead
        /\ Entries' = ReplaceAt(ReplaceAt(Entries, 1, Entries[2]), 2, Entries[1])
        /\ selnode' = s[2]
    <3>1. SwapplayNode(s[IF TRUE THEN 1 ELSE 2], TRUE)
      BY <1>6, <2>1
    <3> QED BY <1>1, <1>2, <1>3, <2>1, <2>3, <3>1, SwapPair
  <2>5. ContentsInv'
    <3>1. Len(Found) # 0 /\ Len(Found) # 1
      BY <1>2, <1>3, <2>3
    <3>2. Entries' = ReplaceAt(ReplaceAt(Found, 1, Found[2]), 2, Found[1])
      BY <1>2, <2>4
    <3> QED BY <1>1, <1>4, <3>1, <3>2 DEF ContentsInv
  <2>6. PointerInv'
    <3>1. Len(s) # 1
      BY <2>3
    <3> QED BY <1>1, <1>2, <2>4, <3>1 DEF PointerInv
  <2>7. ShownInv'
    BY <1>1, <1>2 DEF ShownInv
  <2> QED BY <1>1, <2>4, <2>5, <2>6, <2>7, Moved
<1>7. CASE filelist # NULL /\ next[filelist] = NULL /\ UNCHANGED vars
  <2>1. Len(s) = 1 /\ filelist = s[1]
    BY <1>3, <1>4, <1>7
  <2>2. /\ ~crashed' /\ selnode' \in Pointer /\ crashed' \in BOOLEAN
        /\ selnode' = selnode /\ pagehead' = pagehead
    BY <1>1, <1>3, <1>7 DEF vars, TypeOK
  <2>3. ListIInv' /\ Entries' = Entries /\ Order' = s
    BY <1>3, <1>7, <2>2, Kept DEF vars, heap
  <2>4. ContentsInv'
    <3>1. Len(Found) = 1
      BY <1>2, <1>3, <2>1
    <3> QED BY <1>1, <1>2, <1>4, <2>3, <3>1 DEF ContentsInv
  <2>5. PointerInv' /\ ShownInv'
    BY <1>1, <1>2, <2>1, <2>2, <2>3 DEF PointerInv, ShownInv
  <2> QED BY <1>1, <2>2, <2>3, <2>4, <2>5, Moved
<1> QED BY <1>5, <1>6, <1>7 DEF Swap

\* Before it is printed, the selection is a node of the list.
LEMMA PrintStep ==
  ASSUME DemoIInv, PrintSelected, Returns, UNCHANGED <<file, unread, shown>>
  PROVE  DemoIInv'
<1>1. at \in {4, 7} /\ ~crashed
  BY WhichCall DEF PrintSelected
<1>2. PICK s : /\ s = Order /\ Linked(s) /\ TypeOK /\ Forgotten
               /\ Len(s) = Len(Entries) /\ Len(s) \in Nat
               /\ Len(s) # 0 => s[1] \in live
               /\ Len(s) >= 2 => s[2] \in live
  BY Holds
<1>3. Found \in Seq(Path) /\ Len(Found) \in Nat
  BY FoundIs DEF DemoIInv
<1>4. Len(Found) # 0 /\ Len(s) = Len(Found)
  <2>1. CASE at = 7
    <3>1. Len(Found) >= 2 /\ Entries = Found
      BY <1>1, <2>1 DEF DemoIInv, ContentsInv
    <3> QED BY <1>2, <1>3, <3>1
  <2>2. CASE at = 4
    <3>1. /\ Len(Found) # 0
          /\ Entries = IF Len(Found) = 1 THEN Found
                       ELSE ReplaceAt(ReplaceAt(Found, 1, Found[2]), 2, Found[1])
      BY <1>1, <2>2 DEF DemoIInv, ContentsInv
    <3>2. Len(Found) # 1
            => Len(ReplaceAt(ReplaceAt(Found, 1, Found[2]), 2, Found[1])) = Len(Found)
      <4>1. Len(Found) # 1 => Len(Found) >= 2
        <5>1. Len(Found) # 0
          BY <3>1
        <5>2. \A m \in Nat : m # 0 /\ m # 1 => m >= 2
          OBVIOUS
        <5> QED BY <1>3, <5>1, <5>2
      <4> QED BY <1>3, <4>1, SwapIs
    <3> QED BY <1>2, <3>1, <3>2
  <2> QED BY <1>1, <2>1, <2>2
<1>5. selnode \in live
  <2>1. at = 4 => selnode = IF Len(s) = 1 THEN s[1] ELSE s[2]
    BY <1>1, <1>2 DEF DemoIInv, PointerInv
  <2>2. at = 7 => selnode = s[1]
    BY <1>1, <1>2 DEF DemoIInv, PointerInv
  <2>3. Len(s) # 1 => Len(s) >= 2
    BY <1>2, <1>4
  <2> QED BY <1>1, <1>2, <1>4, <2>1, <2>2, <2>3
<1>6. UNCHANGED <<heap, pagehead, selnode, crashed>>
  <2>1. crashed' = FALSE /\ UNCHANGED <<heap, pagehead, selnode>>
    BY <1>5 DEF PrintSelected, Dereferencing
  <2>2. crashed = FALSE
    BY <1>1, <1>2 DEF TypeOK
  <2> QED BY <2>1, <2>2
<1>7. at' = at + 1
  BY DEF Returns
<1> QED BY <1>1, <1>6, <1>7, Unchanged

LEMMA DisplaylistStep ==
  ASSUME DemoIInv, Calls("displaylist"), Displaylist, Returns, UNCHANGED <<file, unread, shown>>
  PROVE  DemoIInv'
<1>1. at \in {5, 8, 10} /\ ~crashed
  BY WhichCall
<1>2. PICK s : s = Order /\ Linked(s) /\ TypeOK /\ Forgotten
  BY Holds
<1>3. Order = s /\ Range(s) = live
  BY <1>2, Walks DEF Linked
<1>4. UNCHANGED <<heap, pagehead, selnode, crashed>>
  <2>1. crashed' = FALSE /\ UNCHANGED <<heap, pagehead, selnode>>
    BY <1>3 DEF Displaylist, Dereferencing
  <2>2. crashed = FALSE
    BY <1>1, <1>2 DEF TypeOK
  <2> QED BY <2>1, <2>2
<1>5. at' = at + 1
  BY DEF Returns
<1> QED BY <1>1, <1>4, <1>5, Unchanged

\* The second entry goes back to where it was, and the selection with it.  A list
\* of one entry has no second node.
LEMMA SwapBackStep ==
  ASSUME DemoIInv, Calls("swapback"), SwapBack, Returns, UNCHANGED <<file, unread, shown>>
  PROVE  DemoIInv'
<1>1. at = 6 /\ at' = 7 /\ ~crashed
  <2>1. at = 6 /\ ~crashed
    BY WhichCall
  <2> QED BY <2>1 DEF Returns
<1>2. /\ Len(Found) # 0 /\ pagehead = NULL /\ shown = {} /\ file \in Seq(Path)
      /\ Entries = IF Len(Found) = 1 THEN Found
                   ELSE ReplaceAt(ReplaceAt(Found, 1, Found[2]), 2, Found[1])
  BY <1>1 DEF DemoIInv, ContentsInv, PointerInv, ShownInv
<1>3. PICK s : /\ s = Order /\ Linked(s) /\ TypeOK /\ Forgotten
               /\ Len(s) = Len(Entries) /\ Len(s) \in Nat
               /\ filelist = IF Len(s) = 0 THEN NULL ELSE s[1]
               /\ Len(s) # 0 => s[1] \in live
               /\ next[s[1]] = IF Len(s) >= 2 THEN s[2] ELSE IF Len(s) = 1 THEN NULL ELSE next[s[1]]
               /\ Len(s) >= 2 => s[2] \in live /\ prv[s[2]] = s[1]
  BY Holds
<1>4. NULL \notin live /\ Found' = Found /\ Found \in Seq(Path) /\ Len(Found) \in Nat
  BY <1>2, <1>3, FoundIs, Sizes DEF TypeOK, Found
<1>5. CASE Len(Found) = 1
  <2>1. next[filelist] = NULL
    <3>1. Len(s) = 1
      BY <1>2, <1>3, <1>5
    <3> QED BY <1>3, <3>1
  <2>2. ThroughNull
    BY <2>1 DEF SwapBack, Swap
  <2>3. Len(Found) < 2
    BY <1>5
  <2> QED BY <1>1, <2>2, <2>3, Through
<1>6. CASE Len(Found) # 1
  <2>1. Len(Found) >= 2
    <3>1. \A m \in Nat : m # 0 /\ m # 1 => m >= 2
      OBVIOUS
    <3> QED BY <1>2, <1>4, <1>6, <3>1
  <2>2. /\ Entries = ReplaceAt(ReplaceAt(Found, 1, Found[2]), 2, Found[1])
        /\ Len(Entries) = Len(Found)
    BY <1>2, <1>4, <1>6, <2>1, SwapIs
  <2>3. Len(s) >= 2 /\ Len(s) # 0 /\ Len(s) # 1
    BY <1>3, <2>1, <2>2
  <2>4. next[filelist] = s[2] /\ s[2] # NULL /\ prv[s[2]] # NULL
    BY <1>3, <1>4, <2>3
  <2>5. SwapplayNode(s[2], FALSE)
    BY <2>4 DEF SwapBack, Swap
  <2>6. selnode = s[2]
    BY <1>1, <1>3, <2>3 DEF DemoIInv, PointerInv
  <2>7. /\ ~crashed' /\ ListIInv' /\ Order' = s /\ pagehead' = pagehead
        /\ Entries' = ReplaceAt(ReplaceAt(Entries, 1, Entries[2]), 2, Entries[1])
        /\ selnode' = s[1]
    <3>1. SwapplayNode(s[IF FALSE THEN 1 ELSE 2], FALSE)
      BY <2>5
    <3> QED BY <1>1, <1>3, <2>3, <2>6, <3>1, SwapPair
  <2>8. Entries' = Found
    BY <1>4, <2>1, <2>2, <2>7, SwapTwice
  <2>9. ContentsInv' /\ PointerInv' /\ ShownInv'
    BY <1>1, <1>2, <1>4, <2>1, <2>7, <2>8 DEF ContentsInv, PointerInv, ShownInv
  <2> QED BY <1>1, <2>7, <2>9, Moved
<1> QED BY <1>5, <1>6

LEMMA RemoveFirstStep ==
  ASSUME DemoIInv, Calls("removefirst"), RemoveplayNode(filelist), Returns,
         UNCHANGED <<file, unread, shown>>
  PROVE  DemoIInv'
<1>1. at = 9 /\ at' = 10 /\ ~crashed
  <2>1. at = 9 /\ ~crashed
    BY WhichCall
  <2> QED BY <2>1 DEF Returns
<1>2. Len(Found) >= 2 /\ Entries = Found /\ pagehead = NULL /\ shown = {} /\ file \in Seq(Path)
  BY <1>1 DEF DemoIInv, ContentsInv, PointerInv, ShownInv
<1>3. PICK s : /\ s = Order /\ Linked(s) /\ TypeOK /\ Forgotten
               /\ Len(s) = Len(Entries) /\ Len(s) \in Nat
               /\ filelist = IF Len(s) = 0 THEN NULL ELSE s[1]
  BY Holds
<1>4. Len(s) >= 2 /\ 1 \in 1 .. Len(s) /\ filelist = s[1]
  BY <1>2, <1>3
<1>5. PageInPlace
  BY <1>2 DEF PageInPlace
<1>6. /\ ~crashed' /\ ListIInv' /\ Entries' = RemoveAt(Entries, 1) /\ pagehead' = NULL
  BY <1>1, <1>2, <1>3, <1>4, <1>5, RemoveOne
<1>7. Found' = Found
  BY DEF Found
<1>8. ContentsInv' /\ PointerInv' /\ ShownInv'
  BY <1>1, <1>2, <1>6, <1>7 DEF ContentsInv, PointerInv, ShownInv
<1> QED BY <1>1, <1>6, <1>8, Moved

\* How many entries there are when the paging begins and when it goes on.
LEMMA LeftOver ==
  ASSUME DemoIInv, ~crashed
  PROVE  /\ Len(Order) \in Nat
         /\ at \in 10 .. 28 => Len(Order) # 0
         /\ at \in 13 .. 28 /\ MaxPlayListLen <= 4 * PageListLen + 2 => Len(Order) <= 4 * PageListLen
<1>1. Found \in Seq(Path) /\ Len(Found) \in Nat /\ Len(Found) <= MaxPlayListLen
  BY FoundIs DEF DemoIInv
<1>2. PICK n : n = Len(Found)
  OBVIOUS
<1>3. n \in Nat /\ n <= MaxPlayListLen
  BY <1>1, <1>2
<1>4. Len(Order) \in Nat /\ Len(Order) = Len(Entries)
  BY Holds
<1>5. at \in 10 .. 12 => Len(Order) = n - 1 /\ n >= 2
  <2>1. ASSUME at \in 10 .. 12 PROVE Len(Order) = n - 1 /\ n >= 2
    <3>1. at \in 7 .. 28
      BY <2>1
    <3>2. n >= 2 /\ Entries = RemoveAt(Found, 1)
      BY <1>2, <2>1, <3>1 DEF DemoIInv, ContentsInv
    <3>3. 1 \in 1 .. Len(Found)
      BY <1>2, <1>3, <3>2
    <3>4. Len(RemoveAt(Found, 1)) = Len(Found) - 1
      BY <1>1, <3>3, RemovedOnce
    <3> QED BY <1>2, <1>4, <3>2, <3>4
  <2> QED BY <2>1
<1>6. at \in 13 .. 28 => Len(Order) = (IF n = 2 THEN 1 ELSE n - 2) /\ n >= 2
  <2>1. ASSUME at \in 13 .. 28 PROVE Len(Order) = (IF n = 2 THEN 1 ELSE n - 2) /\ n >= 2
    <3>1. at \in 7 .. 28
      BY <2>1
    <3>2. n >= 2 /\ Entries = WithoutTwo(Found)
      BY <1>2, <2>1, <3>1 DEF DemoIInv, ContentsInv
    <3>3. Len(WithoutTwo(Found)) = IF Len(Found) = 2 THEN 1 ELSE Len(Found) - 2
      BY <1>1, <1>2, <3>2, RemovedTwo
    <3> QED BY <1>2, <1>4, <3>2, <3>3
  <2> QED BY <2>1
<1>7. at \in 10 .. 28 => at \in 10 .. 12 \/ at \in 13 .. 28
  BY DEF DemoIInv
<1>8. at \in 10 .. 28 => Len(Order) # 0
  BY <1>3, <1>5, <1>6, <1>7
<1>9. at \in 13 .. 28 /\ MaxPlayListLen <= 4 * PageListLen + 2 => Len(Order) <= 4 * PageListLen
  <2>1. PICK p : p = 4 * PageListLen
    OBVIOUS
  <2>2. p \in Nat /\ p >= 4
    BY ONLY <2>1, Sizes
  <2>3. PICK l : l = Len(Order)
    OBVIOUS
  <2>4. at \in 13 .. 28 => l = (IF n = 2 THEN 1 ELSE n - 2)
    BY ONLY <1>6, <2>3
  <2>5. at \in 13 .. 28 /\ MaxPlayListLen <= p + 2 => l <= p
    BY ONLY <1>3, <2>2, <2>4, Sizes
  <2> QED BY ONLY <2>1, <2>3, <2>5
<1> QED BY <1>4, <1>8, <1>9

\* The first page begins with the first entry.
LEMMA FirstPageStep ==
  ASSUME DemoIInv, at = 11, ~crashed, GetPage(TRUE), Returns, UNCHANGED <<file, unread, shown>>
  PROVE  DemoIInv'
<1>1. at' = 12
  BY DEF Returns
<1>2. /\ Len(Found) >= 2 /\ Entries = RemoveAt(Found, 1) /\ pagehead = NULL /\ shown = {}
  BY DEF DemoIInv, ContentsInv, PointerInv, ShownInv
<1>3. PICK s : s = Order /\ Linked(s) /\ TypeOK /\ Forgotten
  BY Holds
<1>4. Len(s) \in Nat /\ Len(s) # 0
  BY <1>3, LeftOver
<1>5. PageInPlace
  BY <1>2 DEF PageInPlace
<1>6. /\ ~crashed' /\ ListIInv' /\ Order' = s /\ Entries' = Entries
      /\ \E k \in 0 .. Len(s) :
           /\ pagehead = IF k = 0 THEN NULL ELSE s[k]
           /\ Position' = PageAhead(Len(s), k)
  BY <1>3, <1>4, <1>5, TurnPage
<1>7. Position' = 1
  <2>1. \A k \in 1 .. Len(s) : s[k] # NULL
    BY <1>3, LinkedFacts
  <2>2. Position' = PageAhead(Len(s), 0)
    BY <1>2, <1>4, <1>6, <2>1
  <2>3. PageAhead(Len(s), 0) = 1
    BY <1>4, Sizes DEF PageAhead
  <2> QED BY <2>2, <2>3
<1>8. Found' = Found
  BY DEF Found
<1>9. ContentsInv' /\ PointerInv' /\ ShownInv'
  BY <1>1, <1>2, <1>6, <1>7, <1>8 DEF ContentsInv, PointerInv, ShownInv
<1> QED BY <1>1, <1>6, <1>9, Moved

\* The second of what is left is removed, if there is one, and the page stays.
LEMMA RemoveSecondStep ==
  ASSUME DemoIInv, Calls("removesecond"), Returns, UNCHANGED <<file, unread, shown>>,
         IF next[filelist] = NULL THEN UNCHANGED vars ELSE RemoveplayNode(next[filelist])
  PROVE  DemoIInv'
<1>1. at = 12 /\ at' = 13 /\ ~crashed
  <2>1. at = 12 /\ ~crashed
    BY WhichCall
  <2> QED BY <2>1 DEF Returns
<1>2. /\ Len(Found) >= 2 /\ Entries = RemoveAt(Found, 1) /\ Position = 1 /\ shown = {}
      /\ file \in Seq(Path)
  BY <1>1 DEF DemoIInv, ContentsInv, PointerInv, ShownInv
<1>3. PICK s : /\ s = Order /\ Linked(s) /\ TypeOK /\ Forgotten
               /\ Len(s) = Len(Entries) /\ Len(s) \in Nat
               /\ filelist = IF Len(s) = 0 THEN NULL ELSE s[1]
               /\ next[s[1]] = IF Len(s) >= 2 THEN s[2] ELSE IF Len(s) = 1 THEN NULL ELSE next[s[1]]
               /\ Len(s) >= 2 => s[2] \in live
  BY Holds
<1>4. /\ Found' = Found /\ Found \in Seq(Path) /\ Len(Found) \in Nat /\ NULL \notin live
      /\ Len(s) = Len(Found) - 1 /\ Len(s) # 0
  <2>1. Found' = Found /\ Found \in Seq(Path) /\ Len(Found) \in Nat
    BY <1>2, FoundIs DEF Found
  <2>2. 1 \in 1 .. Len(Found)
    BY <1>2, <2>1
  <2>3. Len(s) = Len(Found) - 1
    BY <1>2, <1>3, <2>1, <2>2, RemovedOnce
  <2> QED BY <1>1, <1>3, <2>1, <2>3, LeftOver, Sizes DEF TypeOK
<1>5. PICK n : n = Len(Found) /\ n \in Nat /\ n >= 2 /\ Len(s) = n - 1
  BY <1>2, <1>4
<1>6. 1 \in 1 .. Len(s)
  BY <1>5
<1>7. PageInPlace /\ pagehead = s[1]
  BY <1>2, <1>3, <1>6, PageAt
<1>8. CASE n = 2
  <2>1. UNCHANGED vars
    <3>1. Len(s) = 1
      BY <1>5, <1>8
    <3>2. next[filelist] = NULL
      BY <1>3, <3>1
    <3> QED BY <3>2
  <2>2. ~crashed' /\ selnode' \in Pointer /\ crashed' \in BOOLEAN
    BY <1>1, <1>3, <2>1 DEF vars, TypeOK
  <2>3. ListIInv' /\ Entries' = Entries /\ Position' = Position
    BY <1>3, <2>1, <2>2, Kept DEF vars, heap
  <2>4. Entries' = WithoutTwo(Found)
    BY <1>2, <1>4, <1>5, <1>8, <2>3, RemovedTwo
  <2>5. ContentsInv' /\ PointerInv' /\ ShownInv'
    <3>1. shown' = {Order'[i] : i \in 1 .. 0} /\ 0 \in 0 .. Len(Order') /\ Position' <= 0 + 1
      <4>1. Order' = s
        BY <1>3, <2>1, <2>2, Kept DEF vars, heap
      <4>2. shown' = {}
        BY <1>2
      <4>3. {Order'[i] : i \in 1 .. 0} = {}
        OBVIOUS
      <4> QED BY <1>2, <1>3, <2>3, <4>1, <4>2, <4>3
    <3>2. \E c \in 0 .. Len(Order') : shown' = {Order'[i] : i \in 1 .. c} /\ Position' <= c + 1
      BY <3>1
    <3> QED BY <1>1, <1>2, <1>4, <2>3, <2>4, <3>2 DEF ContentsInv, PointerInv, ShownInv
  <2> QED BY <1>1, <2>2, <2>3, <2>5, Moved
<1>9. CASE n # 2
  <2>1. Len(s) >= 2 /\ Len(s) # 0 /\ 2 \in 1 .. Len(s) /\ 1 \in 1 .. 2 - 1
    BY <1>5, <1>9
  <2>2. next[filelist] = s[2] /\ s[2] # NULL
    BY <1>3, <1>4, <2>1
  <2>3. RemoveplayNode(s[2])
    BY <2>2
  <2>4. /\ ~crashed' /\ ListIInv' /\ Entries' = RemoveAt(Entries, 2)
        /\ Len(Order') = Len(s) - 1
        /\ Position \in 1 .. 2 - 1 => Position' = Position
    BY <1>1, <1>3, <1>7, <2>1, <2>3, RemoveOne
  <2>5. Position' = 1
    BY <1>2, <2>1, <2>4
  <2>6. Entries' = WithoutTwo(Found)
    BY <1>2, <1>4, <1>5, <1>9, <2>4, RemovedTwo
  <2>7. ContentsInv' /\ PointerInv' /\ ShownInv'
    <3>1. shown' = {Order'[i] : i \in 1 .. 0} /\ 0 \in 0 .. Len(Order') /\ Position' <= 0 + 1
      <4>1. Len(Order') \in Nat
        BY <1>5, <2>1, <2>4
      <4>2. shown' = {}
        BY <1>2
      <4>3. {Order'[i] : i \in 1 .. 0} = {}
        OBVIOUS
      <4> QED BY <2>5, <4>1, <4>2, <4>3
    <3>2. \E c \in 0 .. Len(Order') : shown' = {Order'[i] : i \in 1 .. c} /\ Position' <= c + 1
      BY <3>1
    <3> QED BY <1>1, <1>2, <1>4, <2>5, <2>6, <3>2 DEF ContentsInv, PointerInv, ShownInv
  <2> QED BY <1>1, <2>4, <2>7, Moved
<1> QED BY <1>8, <1>9

\* What displayPage shows: the entries of the page.
LEMMA PageShows ==
  ASSUME NEW s, Linked(s), NEW k \in 1 .. Len(s), pagehead = s[k]
  PROVE  \E e \in k .. Len(s) :
           /\ e = Len(s) \/ e = k + PageListLen - 1
           /\ Range(Ahead(pagehead, PageListLen)) = {s[i] : i \in k .. e}
<1> DEFINE w == Walk(next, pagehead)
           m == Min({PageListLen, Len(w)})
           e == k + m - 1
<1>1. s \in Seq(Node) /\ Len(s) \in Nat /\ DOMAIN s = 1 .. Len(s)
  BY LinkedFacts
<1>2. w = From(s, k)
  BY <1>1, Walks
<1>3. w \in Seq(Node) /\ Len(w) = Len(s) - k + 1 /\ \A i \in 1 .. Len(s) - k + 1 : w[i] = s[k + i - 1]
  <2>1. /\ Len(From(s, k)) = Len(s) - k + 1
        /\ \A i \in 1 .. Len(s) - k + 1 : From(s, k)[i] = s[k + i - 1]
    BY <1>1, LastOfFrom
  <2>2. From(s, k) \in Seq(Node)
    <3>1. \A i \in 1 .. Len(s) - k + 1 : k + i - 1 \in 1 .. Len(s)
      BY <1>1
    <3>2. \A i \in 1 .. Len(s) - k + 1 : s[k + i - 1] \in Node
      BY <1>1, <3>1
    <3>3. Len(s) - k + 1 \in Nat
      BY <1>1
    <3> DEFINE f == From(s, k)
    <3>4. f \in [1 .. Len(s) - k + 1 -> Node]
      BY <3>2 DEF From
    <3> HIDE DEF f
    <3>5. f \in Seq(Node)
      BY <3>3, <3>4, FunctionIsSeq
    <3> QED BY <3>5 DEF f
  <2> HIDE DEF w
  <2> QED BY <1>2, <2>1, <2>2
<1> HIDE DEF w
<1>4. m \in {PageListLen, Len(s) - k + 1} /\ m <= PageListLen /\ m <= Len(s) - k + 1
  <2>1. Len(w) \in Nat /\ PageListLen \in Nat /\ Len(w) = Len(s) - k + 1
    BY <1>1, <1>3, Sizes
  <2>2. {PageListLen, Len(w)} \in SUBSET Nat /\ {PageListLen, Len(w)} # {}
    BY <2>1
  <2>3. m \in {PageListLen, Len(w)} /\ m <= PageListLen /\ m <= Len(w)
    BY <2>2, MinExists
  <2> HIDE DEF m
  <2> QED BY <2>1, <2>3
<1> HIDE DEF m
<1>5. /\ e \in k .. Len(s) /\ (e = Len(s) \/ e = k + PageListLen - 1)
      /\ m \in 1 .. Len(w)
      /\ \A j \in 1 .. m : k + j - 1 \in k .. e /\ j \in 1 .. Len(s) - k + 1
      /\ \A i \in k .. e : i - k + 1 \in 1 .. m /\ k + (i - k + 1) - 1 = i
  BY <1>1, <1>3, <1>4, Sizes
<1>6. Range(SubSeq(w, 1, m)) = {s[i] : i \in k .. e}
  <2> DEFINE u == SubSeq(w, 1, m)
  <2>1. u \in Seq(Node) /\ DOMAIN u = 1 .. m /\ \A j \in 1 .. m : u[j] = w[j]
    BY <1>3, <1>5
  <2> HIDE DEF u, e
  <2>2. Range(u) = {u[j] : j \in 1 .. m}
    BY <2>1 DEF Range
  <2>3. \A j \in 1 .. m : u[j] = s[k + j - 1]
    BY <1>3, <1>5, <2>1
  <2>4. \A j \in 1 .. m : u[j] \in {s[i] : i \in k .. e}
    BY <1>5, <2>3
  <2>5. \A i \in k .. e : s[i] \in {u[j] : j \in 1 .. m}
    <3> SUFFICES ASSUME NEW i \in k .. e PROVE s[i] \in {u[j] : j \in 1 .. m}
      OBVIOUS
    <3>1. PICK j \in 1 .. m : k + j - 1 = i
      BY <1>5
    <3>2. u[j] = s[i]
      BY <2>3, <3>1
    <3> QED BY <3>2
  <2>6. Range(u) = {s[i] : i \in k .. e}
    BY <2>2, <2>4, <2>5
  <2> QED BY <2>6 DEF u
<1>7. Ahead(pagehead, PageListLen) = SubSeq(w, 1, m)
  BY DEF Ahead, w, m
<1> QED BY <1>5, <1>6, <1>7

\* Turning to the next page skips nothing, and comes a page closer to the end.
LEMMA NoSkip ==
  ASSUME NEW n \in Nat \ {0}, NEW k \in 1 .. n, NEW c \in 0 .. n, c = n \/ k + PageListLen <= c + 1, k <= n
  PROVE  PageAhead(n, k) <= c + 1
<1>1. c = n => PageAhead(n, k) <= c + 1
  BY Sizes DEF PageAhead
<1>2. k + PageListLen <= c + 1 => PageAhead(n, k) <= c + 1
  BY Sizes DEF PageAhead
<1> QED BY <1>1, <1>2

LEMMA Further ==
  ASSUME NEW n \in Nat \ {0}, NEW k \in 1 .. n, NEW m \in Nat, k + PageListLen > n \/ k > m
  PROVE  PageAhead(n, k) + PageListLen > n \/ PageAhead(n, k) > m + PageListLen
BY Sizes DEF PageAhead

\* Turning the page, forward or back, in the list that main pages through.
LEMMA TurnStep ==
  ASSUME DemoIInv, ~crashed, at \in {14, 16, 18, 20, 22, 24, 26}, NEW forward \in BOOLEAN,
         at \in {14, 16, 18} => forward = TRUE, GetPage(forward), Returns, UNCHANGED <<file, unread, shown>>
  PROVE  DemoIInv'
<1>1. at' = at + 1 /\ at \in 14 .. 28 /\ at' \in 2 .. 29 /\ at \in 10 .. 28
  BY DEF Returns
<1>2. /\ Len(Found) >= 2 /\ Entries = WithoutTwo(Found) /\ Position \in 1 .. Len(Order)
  <2>1. at \in 7 .. 28 /\ at \in 13 .. 28
    BY <1>1
  <2> QED BY <1>1, <2>1 DEF DemoIInv, ContentsInv, PointerInv
<1>3. PICK s : s = Order /\ Linked(s) /\ TypeOK /\ Forgotten
  BY Holds
<1>4. Len(s) \in Nat /\ Len(s) # 0
  BY <1>1, <1>3, LeftOver
<1>5. PageInPlace /\ \A k \in 1 .. Len(s) : Position = k <=> pagehead = s[k]
  BY <1>2, <1>3, PageAt
<1>6. /\ ~crashed' /\ ListIInv' /\ Order' = s /\ Entries' = Entries /\ live' = live
      /\ \E k \in 0 .. Len(s) :
           /\ pagehead = IF k = 0 THEN NULL ELSE s[k]
           /\ Position' = IF forward THEN PageAhead(Len(s), k) ELSE PageBefore(k)
           /\ Position' \in 1 .. Len(s)
  BY <1>3, <1>4, <1>5, TurnPage
<1>7. PICK k \in 1 .. Len(s) : /\ Position = k
                               /\ Position' = IF forward THEN PageAhead(Len(s), k) ELSE PageBefore(k)
                               /\ Position' \in 1 .. Len(s)
  <2>1. PICK k \in 0 .. Len(s) :
           /\ pagehead = IF k = 0 THEN NULL ELSE s[k]
           /\ Position' = IF forward THEN PageAhead(Len(s), k) ELSE PageBefore(k)
           /\ Position' \in 1 .. Len(s)
    BY <1>6
  <2>2. pagehead # NULL
    <3>1. \A i \in 1 .. Len(s) : s[i] # NULL
      BY <1>3, LinkedFacts
    <3> QED BY <1>2, <1>3, <1>5, <3>1
  <2>3. k \in 1 .. Len(s)
    BY <1>4, <2>1, <2>2
  <2> QED BY <1>5, <2>1, <2>3
<1>8. Found' = Found
  BY DEF Found
<1>9. ContentsInv' /\ PointerInv'
  <2>1. at' \in 14 .. 28
    BY <1>1
  <2> QED BY <1>2, <1>6, <1>7, <1>8, <2>1 DEF ContentsInv, PointerInv
<1>10. CASE at \in {14, 16, 18}
  <2>1. PICK c \in 0 .. Len(s) : /\ shown = {s[i] : i \in 1 .. c}
                                 /\ c = Len(s) \/ k + PageListLen <= c + 1
    <3>1. at \in 13 .. 19
      BY <1>10
    <3> QED BY <1>3, <1>7, <1>10, <3>1 DEF DemoIInv, ShownInv
  <2>2. Position' = PageAhead(Len(s), k)
    BY <1>7, <1>10
  <2>3. Position' <= c + 1
    BY <1>4, <2>1, <2>2, NoSkip
  <2>4. at = 14 => Past(PageListLen)'
    <3>1. k + PageListLen > Len(s) \/ k > 0
      BY <1>4
    <3>2. Position' + PageListLen > Len(s) \/ Position' > 0 + PageListLen
      BY <1>4, <2>2, <3>1, Further
    <3>3. 0 + PageListLen = PageListLen
      BY Sizes
    <3> QED BY <1>6, <3>2, <3>3 DEF Past
  <2>5. at = 16 => Past(2 * PageListLen)'
    <3> SUFFICES ASSUME at = 16 PROVE Past(2 * PageListLen)'
      OBVIOUS
    <3>1. k + PageListLen > Len(s) \/ k > PageListLen
      <4>1. Past(PageListLen)
        <5>1. at \in 15 .. 16
          OBVIOUS
        <5> QED BY <5>1 DEF DemoIInv, ShownInv
      <4> QED BY <1>3, <1>7, <4>1 DEF Past
    <3>2. Position' + PageListLen > Len(s) \/ Position' > PageListLen + PageListLen
      BY <1>4, <2>2, <3>1, Sizes, Further
    <3>3. PageListLen + PageListLen = 2 * PageListLen
      BY Sizes
    <3> QED BY <1>6, <3>2, <3>3 DEF Past
  <2>6. at = 18 => Past(3 * PageListLen)'
    <3> SUFFICES ASSUME at = 18 PROVE Past(3 * PageListLen)'
      OBVIOUS
    <3>1. k + PageListLen > Len(s) \/ k > 2 * PageListLen
      <4>1. Past(2 * PageListLen)
        <5>1. at \in 17 .. 18
          OBVIOUS
        <5> QED BY <5>1 DEF DemoIInv, ShownInv
      <4> QED BY <1>3, <1>7, <4>1 DEF Past
    <3>2. 2 * PageListLen \in Nat /\ 2 * PageListLen + PageListLen = 3 * PageListLen
      BY Sizes
    <3>3. Position' + PageListLen > Len(s) \/ Position' > 2 * PageListLen + PageListLen
      BY <1>4, <2>2, <3>1, <3>2, Further
    <3> QED BY <1>6, <3>2, <3>3 DEF Past
  <2>7. \E d \in 0 .. Len(Order') : shown' = {Order'[i] : i \in 1 .. d} /\ Position' <= d + 1
    BY <1>6, <2>1, <2>3
  <2>8. ShownInv'
    BY <1>1, <1>10, <2>4, <2>5, <2>6, <2>7 DEF ShownInv
  <2> QED BY <1>1, <1>6, <1>9, <2>8, Moved
<1>11. CASE at \in {20, 22, 24, 26}
  <2>1. MaxPlayListLen <= 4 * PageListLen + 2 => shown = live
    <3>1. at \in 20 .. 28
      BY <1>11
    <3> QED BY <3>1 DEF DemoIInv, ShownInv
  <2>2. ShownInv'
    BY <1>1, <1>6, <1>11, <2>1 DEF ShownInv
  <2> QED BY <1>1, <1>6, <1>9, <2>2, Moved
<1> QED BY <1>10, <1>11

\* Showing the page: what has been shown still is a beginning of the list, and
\* reaches at least to the end of the page.
LEMMA ShowStep ==
  ASSUME DemoIInv, Show
  PROVE  DemoIInv'
<1>1. /\ at \in {13, 15, 17, 19, 21, 23, 25, 27} /\ ~crashed /\ at' = at + 1
      /\ shown' = shown \cup Range(Ahead(pagehead, PageListLen))
      /\ file' = file /\ unread' = unread /\ DisplayPage
  BY WhichCall DEF Show, Returns
<1>2. at \in 13 .. 28 /\ at \in 10 .. 28 /\ at \in 7 .. 28 /\ at' \in 14 .. 28 /\ at' \in 2 .. 29
  BY <1>1
<1>3. PICK s : s = Order /\ Linked(s) /\ TypeOK /\ Forgotten
  BY Holds
<1>4. Len(s) \in Nat /\ Len(s) # 0 /\ live = {s[i] : i \in 1 .. Len(s)}
  BY <1>1, <1>2, <1>3, LeftOver, LinkedFacts
<1>5. Len(Found) >= 2 /\ Entries = WithoutTwo(Found) /\ Position \in 1 .. Len(s)
  <2>1. Len(Found) >= 2 /\ Entries = WithoutTwo(Found)
    BY <1>1, <1>2 DEF DemoIInv, ContentsInv
  <2>2. at \in 12 .. 13 => Position = 1
    BY <1>1 DEF DemoIInv, PointerInv
  <2>3. at \in 14 .. 28 => Position \in 1 .. Len(s)
    BY <1>1, <1>3 DEF DemoIInv, PointerInv
  <2>4. at \in 12 .. 13 \/ at \in 14 .. 28
    BY <1>1
  <2>5. 1 \in 1 .. Len(s)
    BY <1>4
  <2> QED BY <2>1, <2>2, <2>3, <2>4, <2>5
<1>6. PICK k \in 1 .. Len(s) : Position = k /\ pagehead = s[k] /\ PageInPlace
  BY <1>3, <1>5, PageAt
<1>7. PICK e \in k .. Len(s) : /\ e = Len(s) \/ e = k + PageListLen - 1
                               /\ Range(Ahead(pagehead, PageListLen)) = {s[i] : i \in k .. e}
  BY <1>3, <1>6, PageShows
<1>8. ~crashed'
  BY <1>1, <1>3, <1>6, DisplaySafe
<1>9. UNCHANGED <<live, next, prv, path, filelist, pagehead, selnode>> /\ crashed' \in BOOLEAN
  BY <1>1, <1>8 DEF DisplayPage, Dereferencing, heap
<1>10. ListIInv' /\ Entries' = Entries /\ Order' = s /\ Position' = Position /\ live' = live
  <2>1. selnode' \in Pointer
    BY <1>3, <1>9 DEF TypeOK
  <2> QED BY <1>3, <1>9, <2>1, Kept
<1>11. Found' = Found
  BY <1>1 DEF Found
<1>12. ContentsInv' /\ PointerInv'
  BY <1>2, <1>5, <1>10, <1>11 DEF ContentsInv, PointerInv
<1>13. CASE at \in {13, 15, 17, 19}
  <2>1. PICK c \in 0 .. Len(s) : shown = {s[i] : i \in 1 .. c} /\ k <= c + 1
    <3>1. at \in 13 .. 19
      BY <1>13
    <3> QED BY <1>1, <1>3, <1>6, <1>13, <3>1 DEF DemoIInv, ShownInv
  <2> DEFINE d == IF e > c THEN e ELSE c
  <2>2. /\ d \in 0 .. Len(s)
        /\ \A i \in 1 .. d : i \in 1 .. c \/ i \in k .. e
        /\ \A i \in 1 .. c : i \in 1 .. d
        /\ \A i \in k .. e : i \in 1 .. d
        /\ d = Len(s) \/ k + PageListLen <= d + 1
        /\ d = IF e > c THEN e ELSE c
    BY <1>4, <1>7, <2>1, Sizes
  <2> HIDE DEF d
  <2>3. shown' = {s[i] : i \in 1 .. d}
    <3>1. shown' = {s[i] : i \in 1 .. c} \cup {s[i] : i \in k .. e}
      BY <1>1, <1>7, <2>1
    <3> QED BY <2>2, <3>1
  <2>4. CASE at \in {13, 15, 17}
    <3>1. \E x \in 0 .. Len(Order') :
            /\ shown' = {Order'[i] : i \in 1 .. x}
            /\ x = Len(Order') \/ Position' + PageListLen <= x + 1
      BY <1>6, <1>10, <2>2, <2>3
    <3>2. at = 15 => Past(PageListLen)'
      <4> SUFFICES ASSUME at = 15 PROVE Past(PageListLen)'
        OBVIOUS
      <4>1. at \in 15 .. 16
        OBVIOUS
      <4>2. Past(PageListLen)
        BY <1>1, <4>1 DEF DemoIInv, ShownInv
      <4> QED BY <1>3, <1>10, <4>2 DEF Past
    <3>3. at = 17 => Past(2 * PageListLen)'
      <4> SUFFICES ASSUME at = 17 PROVE Past(2 * PageListLen)'
        OBVIOUS
      <4>1. at \in 17 .. 18
        OBVIOUS
      <4>2. Past(2 * PageListLen)
        BY <1>1, <4>1 DEF DemoIInv, ShownInv
      <4> QED BY <1>3, <1>10, <4>2 DEF Past
    <3>4. ShownInv'
      BY <1>1, <2>4, <3>1, <3>2, <3>3 DEF ShownInv
    <3> QED BY <1>1, <1>2, <1>8, <1>10, <1>12, <3>4, Moved
  <2>5. CASE at = 19
    <3>1. MaxPlayListLen <= 4 * PageListLen + 2 => d = Len(s)
      <4> SUFFICES ASSUME MaxPlayListLen <= 4 * PageListLen + 2 PROVE d = Len(s)
        OBVIOUS
      <4>1. Past(3 * PageListLen)
        BY <1>1, <2>5 DEF DemoIInv, ShownInv
      <4>2. k + PageListLen > Len(s) \/ k > 3 * PageListLen
        BY <1>3, <1>6, <4>1 DEF Past
      <4>3. Len(s) <= 4 * PageListLen
        BY <1>1, <1>2, <1>3, LeftOver
      <4> QED BY <1>4, <2>2, <4>2, <4>3, Sizes
    <3>2. MaxPlayListLen <= 4 * PageListLen + 2 => shown' = live'
      BY <1>4, <1>10, <2>3, <3>1
    <3>3. ShownInv'
      BY <1>1, <2>5, <3>2 DEF ShownInv
    <3> QED BY <1>1, <1>2, <1>8, <1>10, <1>12, <3>3, Moved
  <2> QED BY <1>13, <2>4, <2>5
<1>14. CASE at \in {21, 23, 25, 27}
  <2>1. MaxPlayListLen <= 4 * PageListLen + 2 => shown = live
    <3>1. at \in 20 .. 28
      BY <1>14
    <3> QED BY <1>1, <3>1 DEF DemoIInv, ShownInv
  <2>2. {s[i] : i \in k .. e} \subseteq live
    <3>1. \A i \in k .. e : i \in 1 .. Len(s)
      BY <1>4
    <3> QED BY <1>4, <3>1
  <2>3. MaxPlayListLen <= 4 * PageListLen + 2 => shown' = live'
    BY <1>1, <1>7, <1>10, <2>1, <2>2
  <2>4. ShownInv'
    BY <1>1, <1>14, <2>3 DEF ShownInv
  <2> QED BY <1>1, <1>2, <1>8, <1>10, <1>12, <2>4, Moved
<1> QED BY <1>1, <1>13, <1>14

\* What is saved.
LEMMA SaveIs ==
  ASSUME DemoIInv, Saveplaylist
  PROVE  /\ at = 28 /\ at' = 29 /\ ~crashed
         /\ Len(Found) >= 2 /\ file' = WithoutTwo(Found) /\ file' \in Seq(Path)
<1>1. at = 28 /\ at' = 29 /\ ~crashed
  <2>1. at = 28 /\ ~crashed
    BY WhichCall DEF Saveplaylist
  <2> QED BY <2>1 DEF Saveplaylist, Returns
<1>2. Len(Found) >= 2 /\ Entries = WithoutTwo(Found)
  BY <1>1 DEF DemoIInv, ContentsInv
<1>3. file' = Entries
  BY DEF Saveplaylist, Entries
<1>4. Entries \in Seq(Path)
  BY Holds
<1> QED BY <1>1, <1>2, <1>3, <1>4

LEMMA SaveStep ==
  ASSUME DemoIInv, Saveplaylist
  PROVE  DemoIInv'
<1>1. at' = 29 /\ ~crashed /\ file' \in Seq(Path) /\ UNCHANGED <<vars, unread, shown>>
  BY SaveIs DEF Saveplaylist
<1>2. PICK s : s = Order /\ Linked(s) /\ TypeOK /\ Forgotten
  BY Holds
<1>3. ~crashed' /\ selnode' \in Pointer /\ crashed' \in BOOLEAN
  BY <1>1, <1>2 DEF vars, TypeOK
<1>4. ListIInv'
  BY <1>1, <1>2, <1>3, Kept DEF vars, heap
<1>5. CrashInv' /\ ReadInv' /\ ContentsInv' /\ PointerInv' /\ ShownInv'
  BY <1>1, <1>3 DEF CrashInv, ReadInv, ContentsInv, PointerInv, ShownInv
<1>6. unread' \in Seq(Path) /\ at' \in 1 .. 29
  BY <1>1 DEF DemoIInv
<1> QED BY <1>1, <1>4, <1>5, <1>6 DEF DemoIInv

\* Before a line is read the list is empty, and so are the latest of no lines.
LEMMA NothingRead ==
  ASSUME NEW f \in Seq(Path)
  PROVE  /\ f = SubSeq(f, 0 + 1, Len(f)) /\ 0 \in 0 .. Len(f)
         /\ Latest(SubSeq(f, 1, 0)) = <<>>
<1>1. 0 \in 0 .. Len(f) /\ SubSeq(f, 1, 0) = <<>> /\ f = SubSeq(f, 0 + 1, Len(f))
  OBVIOUS
<1>2. Latest(<<>>) = <<>>
  <2> DEFINE r == <<>>
  <2>1. r \in Seq(Path) /\ Len(r) = 0 /\ 0 = IF Len(r) > MaxPlayListLen THEN MaxPlayListLen ELSE Len(r)
    BY Sizes
  <2> HIDE DEF r
  <2>2. Latest(r) \in Seq(Path) /\ Len(Latest(r)) = 0
    BY <2>1, LatestIs
  <2>3. Latest(r) = <<>>
    BY <2>2
  <2> QED BY <2>3 DEF r
<1> QED BY <1>1, <1>2

LEMMA NoEntries ==
  ASSUME NEW s, Linked(s), TypeOK, Len(s) = 0
  PROVE  Entries = <<>>
BY EntriesAre

LEMMA DemoStarts == DemoInit => DemoIInv
<1> SUFFICES ASSUME DemoInit PROVE DemoIInv
  OBVIOUS
<1>1. /\ ListIInv /\ crashed = FALSE /\ pagehead = NULL /\ live = {}
      /\ file \in Seq(Path) /\ unread = file /\ at = 1 /\ shown = {}
  BY ListInit, FilesAssumption DEF DemoInit, Init
<1>2. Entries = <<>>
  <2>1. PICK s : Linked(s) /\ TypeOK
    BY <1>1 DEF ListIInv
  <2>2. Len(s) = 0
    <3>1. Len(s) # 0 => 1 \in 1 .. Len(s)
      BY <2>1, LinkedFacts
    <3> QED BY <1>1, <2>1, <3>1, LinkedFacts
  <2> QED BY <2>1, <2>2, NoEntries
<1>3. ReadInv
  <2>1. \E n \in 0 .. Len(file) : /\ unread = SubSeq(file, n + 1, Len(file))
                                  /\ Entries = Latest(SubSeq(file, 1, n))
    BY <1>1, <1>2, NothingRead
  <2> QED BY <2>1 DEF ReadInv
<1>4. CrashInv /\ ContentsInv /\ PointerInv /\ ShownInv
  BY <1>1 DEF CrashInv, ContentsInv, PointerInv, ShownInv
<1> QED BY <1>1, <1>3, <1>4 DEF DemoIInv

\* Another run begins with an empty heap and with what the file holds.
LEMMA RunAgainStep ==
  ASSUME DemoIInv, RunAgain
  PROVE  DemoIInv'
<1>1. /\ live' = {} /\ Store(next, prv, path) /\ filelist' = NULL /\ pagehead' = NULL
      /\ selnode' = NULL /\ crashed' = FALSE /\ unread' = file /\ at' = 1 /\ shown' = {}
      /\ file' = file /\ file \in Seq(Path)
  BY DEF RunAgain, DemoIInv
<1> DEFINE e == <<>>
<1>2. e \in Seq(Node) /\ Len(e) = 0 /\ DOMAIN e = {} /\ Range(e) = {} /\ e = <<>>
  BY DEF Range
<1>3. Linked(e)'
  <2> HIDE DEF e
  <2>1. /\ e \in Seq(Node) /\ IsInjective(e) /\ Range(e) = live' /\ Len(e) <= MaxPlayListLen
        /\ filelist' = (IF e = <<>> THEN NULL ELSE e[1])
        /\ \A i \in DOMAIN e : /\ next'[e[i]] = (IF i < Len(e) THEN e[i + 1] ELSE NULL)
                               /\ prv'[e[i]] = (IF i > 1 THEN e[i - 1] ELSE NULL)
    BY <1>1, <1>2, Sizes DEF IsInjective
  <2> QED BY <2>1 DEF Linked
<1>4. TypeOK' /\ Forgotten'
  <2> HIDE DEF e
  <2>1. pagehead' \in Pointer /\ selnode' \in Pointer /\ \A n \in live' : path[n] \in Path
    BY <1>1 DEF Pointer
  <2> QED BY <1>1, <1>3, <2>1, LinkTypes
<1>5. ListIInv'
  <2> HIDE DEF e
  <2> QED BY <1>3, <1>4, ListAgain
<1>6. Entries' = <<>>
  <2>1. PathsOf(e, path') = <<>>
    BY DEF PathsOf
  <2> HIDE DEF e
  <2>2. Entries' = PathsOf(e, path')
    BY <1>3, MappedNext
  <2> QED BY <2>1, <2>2
<1>7. ReadInv'
  <2>1. \E n \in 0 .. Len(file') : /\ unread' = SubSeq(file', n + 1, Len(file'))
                                   /\ Entries' = Latest(SubSeq(file', 1, n))
    BY <1>1, <1>6, NothingRead
  <2> QED BY <2>1 DEF ReadInv
<1>8. CrashInv' /\ ContentsInv' /\ PointerInv' /\ ShownInv'
  BY <1>1 DEF CrashInv, ContentsInv, PointerInv, ShownInv
<1> QED BY <1>1, <1>5, <1>7, <1>8 DEF DemoIInv

LEMMA DemoStutters ==
  ASSUME DemoIInv, UNCHANGED demoVars
  PROVE  DemoIInv'
<1>1. UNCHANGED <<live, next, prv, path, filelist, pagehead, selnode, crashed, file, unread, at, shown>>
  BY DEF demoVars, vars, heap
<1>2. PICK s : s = Order /\ Linked(s) /\ TypeOK /\ Forgotten
  BY Holds
<1>3. ListIInv' /\ Entries' = Entries /\ Order' = Order /\ Position' = Position /\ Found' = Found
  <2>1. selnode' \in Pointer /\ crashed' \in BOOLEAN
    BY <1>1, <1>2 DEF TypeOK
  <2>2. Found' = Found
    BY <1>1 DEF Found
  <2> QED BY <1>1, <1>2, <2>1, <2>2, Kept
<1>4. CrashInv' /\ ReadInv'
  BY <1>1, <1>3 DEF DemoIInv, CrashInv, ReadInv
<1>5. ContentsInv'
  BY <1>1, <1>3 DEF DemoIInv, ContentsInv
<1>6. PointerInv'
  BY <1>1, <1>3 DEF DemoIInv, PointerInv
<1>7. ShownInv'
  BY <1>1, <1>3 DEF DemoIInv, ShownInv, Past
<1> QED BY <1>1, <1>3, <1>4, <1>5, <1>6, <1>7 DEF DemoIInv

\* Each call leads from what is said of the state before it to what is said of
\* the state before the next one.
LEMMA DemoStep == DemoIInv /\ [DemoNext]_demoVars => DemoIInv'
<1> SUFFICES ASSUME DemoIInv, [DemoNext]_demoVars PROVE DemoIInv'
  OBVIOUS
<1>1. CASE Readplaylist
  BY <1>1, ReadStep
<1>2. CASE Call
  <2>1. Returns /\ UNCHANGED <<file, unread, shown>>
    BY <1>2 DEF Call
  <2>2. CASE Calls("select") /\ Select
    BY <2>1, <2>2, SelectStep
  <2>3. CASE SwapFirst
    BY <2>1, <2>3, SwapStep, SwapBackStep DEF SwapFirst
  <2>4. CASE PrintSelected
    BY <2>1, <2>4, PrintStep
  <2>5. CASE RemoveTwo
    BY <2>1, <2>5, RemoveFirstStep, RemoveSecondStep DEF RemoveTwo
  <2>6. CASE Calls("displaylist") /\ Displaylist
    BY <2>1, <2>6, DisplaylistStep
  <2>7. CASE Calls("getPage") /\ GetPage(TRUE)
    <3>1. at \in {11, 14, 16, 18} /\ ~crashed
      BY <2>7, WhichCall
    <3>2. CASE at = 11
      BY <2>1, <2>7, <3>1, <3>2, FirstPageStep
    <3>3. CASE at \in {14, 16, 18}
      <4>1. at \in {14, 16, 18, 20, 22, 24, 26}
        BY <3>3
      <4> QED BY <2>1, <2>7, <3>1, <4>1, TurnStep
    <3> QED BY <3>1, <3>2, <3>3
  <2>8. CASE Calls("getPageback") /\ GetPage(FALSE)
    <3>1. at \in {20, 22, 24, 26} /\ ~crashed
      BY <2>8, WhichCall
    <3>2. at \in {14, 16, 18, 20, 22, 24, 26} /\ at \notin {14, 16, 18}
      BY <3>1
    <3> QED BY <2>1, <2>8, <3>1, <3>2, TurnStep
  <2> QED BY <1>2, <2>2, <2>3, <2>4, <2>5, <2>6, <2>7, <2>8 DEF Call
<1>3. CASE Show
  BY <1>3, ShowStep
<1>4. CASE Saveplaylist
  BY <1>4, SaveStep
<1>5. CASE RunAgain
  BY <1>5, RunAgainStep
<1>6. CASE UNCHANGED demoVars
  BY <1>6, DemoStutters
<1> QED BY <1>1, <1>2, <1>3, <1>4, <1>5, <1>6 DEF DemoNext

--------------------------------------------------------------------------------
(* The theorems.                                                           *)

\* At every call of main the list, its page and the selection are what the calls
\* before it have made of the file, in every run and for every file.
THEOREM DemoInductive == DemoSpec => []DemoIInv
BY DemoStarts, DemoStep, PTL DEF DemoSpec

\* main dereferences NULL only when its file has fewer than two lines.
THEOREM CrashesOnShortFiles == DemoSpec => []CrashesOnlyWhenShort
<1>1. DemoIInv => CrashesOnlyWhenShort
  BY DEF DemoIInv, CrashInv, CrashesOnlyWhenShort
<1> QED BY DemoInductive, <1>1, PTL

\* What main saves is what it found, without the first and the third entry.
THEOREM SavedWithoutTwo == DemoSpec => SavesWithoutTwo
<1>1. DemoIInv /\ [DemoNext]_demoVars
        => [at = Len(Script) /\ at' # at =>
              Len(Found) >= 2 /\ file' = RemoveAt(RemoveAt(Found, 3), 1)]_demoVars
  <2> SUFFICES ASSUME DemoIInv, DemoNext, at = 28, at' # at
               PROVE  Len(Found) >= 2 /\ file' = RemoveAt(RemoveAt(Found, 3), 1)
    BY ScriptIs
  <2>1. ~Readplaylist /\ ~Show
    BY WhichCall DEF Readplaylist, Show
  <2>2. ~Call
    <3>1. /\ ~Calls("select") /\ ~Calls("swap") /\ ~Calls("swapback") /\ ~Calls("print")
          /\ ~Calls("displaylist") /\ ~Calls("removefirst") /\ ~Calls("removesecond")
          /\ ~Calls("getPage") /\ ~Calls("getPageback")
      BY WhichCall
    <3> QED BY <3>1 DEF Call, SwapFirst, PrintSelected, RemoveTwo
  <2>3. ~RunAgain
    BY ScriptIs DEF RunAgain, DemoIInv, CrashInv
  <2>4. Saveplaylist
    BY <2>1, <2>2, <2>3 DEF DemoNext
  <2> QED BY <2>4, SaveIs DEF WithoutTwo
<1> QED BY DemoInductive, <1>1, PTL DEF DemoSpec, SavesWithoutTwo

\* Four pages forward show all that is left of the list, as long as four pages
\* hold it: in the code the list takes 16 entries and a page 5.
THEOREM PagesShowAll ==
  ASSUME MaxPlayListLen <= 4 * PageListLen + 2
  PROVE  DemoSpec => []EverythingShown
<1>1. DemoIInv => EverythingShown
  <2> SUFFICES ASSUME DemoIInv, Calls("saveplaylist") PROVE shown = live
    BY DEF EverythingShown
  <2>1. at \in 20 .. 28 /\ ~crashed
    BY WhichCall
  <2> QED BY <2>1 DEF DemoIInv, ShownInv
<1> QED BY DemoInductive, <1>1, PTL
=============================================================================
