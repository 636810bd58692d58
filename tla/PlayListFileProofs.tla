--------------------------- MODULE PlayListFileProofs ---------------------------
(***************************************************************************)
(* Proofs about PlayListFile for any paths, any buffer, any length of the  *)
(* list, and any number of runs and changes.                               *)
(***************************************************************************)
EXTENDS PlayListFile, SequenceTheorems, WellFoundedInduction, TLAPS

--------------------------------------------------------------------------------
(* Naturals.                                                               *)

\* A set of naturals has a least element.
LEMMA MinExists ==
  ASSUME NEW S \in SUBSET Nat, S # {}
  PROVE  \E x \in S : \A y \in S : x <= y
<1> DEFINE R == OpToRel(<, Nat)
<1>1. PICK x \in S : \A y \in S : ~(<<y, x>> \in R)
  <2>1. IsWellFoundedOn(R, Nat)
    BY NatLessThanWellFounded
  <2> HIDE DEF R
  <2> QED BY <2>1, WFMin
<1>2. \A y \in S : y < x => <<y, x>> \in R
  BY DEF OpToRel
<1> HIDE DEF R
<1>3. ASSUME NEW y \in S PROVE x <= y
  <2>1. ~(y < x) /\ x \in Nat /\ y \in Nat
    BY <1>1, <1>2
  <2> QED BY <2>1
<1> QED BY <1>3

\* A set that has 0 and the successor of each of its members has every natural.
LEMMA Induction ==
  ASSUME NEW S, 0 \in S, \A n \in Nat : n \in S => n + 1 \in S
  PROVE  \A n \in Nat : n \in S
<1> SUFFICES ASSUME NEW n \in Nat, n \notin S PROVE FALSE
  OBVIOUS
<1> DEFINE Missing == {m \in Nat : m \notin S}
<1>1. PICK m \in Missing : \A k \in Missing : m <= k
  <2>1. Missing \in SUBSET Nat /\ Missing # {}
    OBVIOUS
  <2> HIDE DEF Missing
  <2> QED BY <2>1, MinExists
<1>2. m \in Nat /\ m \notin S /\ m # 0
  BY <1>1
<1>3. m - 1 \in Nat /\ ~(m <= m - 1) /\ (m - 1) + 1 = m
  BY <1>2
<1>4. m - 1 \in S
  BY <1>1, <1>3
<1> QED BY <1>2, <1>3, <1>4

LEMMA LeastIs ==
  ASSUME NEW S \in SUBSET Nat, NEW m \in S, \A x \in S : m <= x
  PROVE  Min(S) = m
<1>1. Min(S) \in S /\ \A y \in S : Min(S) <= y
  BY DEF Min
<1>2. \A x, y \in Nat : x <= y /\ y <= x => x = y
  OBVIOUS
<1> HIDE DEF Min
<1> QED BY <1>1, <1>2

--------------------------------------------------------------------------------
(* FlattenSeq.                                                             *)

\* The text of the first n of the sequences in s.
Joined(s, g, n) ==
  \A i \in 1 .. n : g[i] = IF i = 1 THEN s[i] ELSE g[i - 1] \o s[i]

LEMMA FunctionIsSeq ==
  ASSUME NEW S, NEW m \in Nat, NEW f \in [1 .. m -> S]
  PROVE  f \in Seq(S) /\ Len(f) = m /\ DOMAIN f = 1 .. m
OBVIOUS

LEMMA JoinedExists ==
  ASSUME NEW S, NEW s \in Seq(Seq(S))
  PROVE  \A n \in Nat : n <= Len(s) => \E g \in [1 .. n -> Seq(S)] : Joined(s, g, n)
<1> DEFINE P == {n \in Nat : n <= Len(s) => \E g \in [1 .. n -> Seq(S)] : Joined(s, g, n)}
<1>0. Len(s) \in Nat /\ \A i \in 1 .. Len(s) : s[i] \in Seq(S)
  OBVIOUS
<1>1. 0 \in P
  <2> DEFINE g == [i \in 1 .. 0 |-> <<>>]
  <2>1. g \in [1 .. 0 -> Seq(S)] /\ Joined(s, g, 0)
    BY DEF Joined
  <2> QED BY <2>1
<1>2. ASSUME NEW n \in Nat, n \in P PROVE n + 1 \in P
  <2> SUFFICES ASSUME n + 1 <= Len(s)
               PROVE  \E g \in [1 .. n + 1 -> Seq(S)] : Joined(s, g, n + 1)
    OBVIOUS
  <2>1. n <= Len(s) /\ n + 1 \in 1 .. Len(s) /\ s[n + 1] \in Seq(S)
    BY <1>0
  <2>2. PICK g \in [1 .. n -> Seq(S)] : Joined(s, g, n)
    BY <1>2, <2>1
  <2> DEFINE h == [i \in 1 .. n + 1 |->
                     IF i <= n THEN g[i] ELSE IF n = 0 THEN s[n + 1] ELSE g[n] \o s[n + 1]]
  <2>3. n # 0 => g[n] \o s[n + 1] \in Seq(S)
    <3>1. n # 0 => g[n] \in Seq(S)
      OBVIOUS
    <3> QED BY <2>1, <3>1, ConcatProperties
  <2>4. h \in [1 .. n + 1 -> Seq(S)]
    BY <2>1, <2>3
  <2>5. Joined(s, h, n + 1)
    <3> SUFFICES ASSUME NEW i \in 1 .. n + 1
                 PROVE  h[i] = IF i = 1 THEN s[i] ELSE h[i - 1] \o s[i]
      BY DEF Joined
    <3>1. CASE i <= n
      <4>1. g[i] = IF i = 1 THEN s[i] ELSE g[i - 1] \o s[i]
        <5>1. i \in 1 .. n
          BY <3>1
        <5> QED BY <2>2, <5>1 DEF Joined
      <4>2. h[i] = g[i] /\ (i # 1 => h[i - 1] = g[i - 1])
        BY <3>1
      <4> QED BY <4>1, <4>2
    <3>2. CASE ~(i <= n)
      <4>1. i = n + 1 /\ i - 1 = n /\ (n # 0 <=> i # 1)
        BY <3>2
      <4>2. h[n + 1] = (IF n = 0 THEN s[n + 1] ELSE g[n] \o s[n + 1]) /\ (n # 0 => h[n] = g[n])
        OBVIOUS
      <4> HIDE DEF h
      <4>3. h[i] = h[n + 1] /\ s[i] = s[n + 1] /\ h[i - 1] = h[n]
        BY <4>1
      <4>4. CASE n = 0
        <5>1. i = 1 /\ h[n + 1] = s[n + 1]
          BY <4>1, <4>2, <4>4
        <5>2. h[i] = s[i]
          BY <4>3, <5>1
        <5> QED BY <5>1, <5>2
      <4>5. CASE n # 0
        <5>1. i # 1 /\ h[n + 1] = g[n] \o s[n + 1] /\ h[n] = g[n]
          BY <4>1, <4>2, <4>5
        <5>2. h[i] = h[i - 1] \o s[i]
          BY <4>3, <5>1, Zenon
        <5> QED BY <5>1, <5>2
      <4> QED BY <4>4, <4>5
    <3> QED BY <3>1, <3>2
  <2> QED BY <2>4, <2>5
<1>3. \A n \in Nat : n \in P
  <2> HIDE DEF P
  <2> QED BY <1>1, <1>2, Induction
<1> QED BY <1>3

\* FlattenSeq is the last of the texts that grow by one sequence at a time.
LEMMA FlattenIs ==
  ASSUME NEW S, NEW s \in Seq(Seq(S)), s # <<>>,
         NEW g \in [1 .. Len(s) -> Seq(S)], Joined(s, g, Len(s))
  PROVE  FlattenSeq(s) = g[Len(s)]
<1> DEFINE flatten[i \in 1 .. Len(s)] == IF i = 1 THEN s[i] ELSE flatten[i - 1] \o s[i]
<1>1. Len(s) \in Nat /\ Len(s) # 0
  OBVIOUS
<1>2. g = [i \in 1 .. Len(s) |-> IF i = 1 THEN s[i] ELSE g[i - 1] \o s[i]]
  BY DEF Joined
<1>3. flatten = [i \in 1 .. Len(s) |-> IF i = 1 THEN s[i] ELSE flatten[i - 1] \o s[i]]
  BY <1>2
<1>4. FlattenSeq(s) = flatten[Len(s)]
  BY <1>1 DEF FlattenSeq
<1> HIDE DEF flatten
<1>5. \A n \in Nat : n \in {m \in Nat : m \in 1 .. Len(s) => flatten[m] = g[m]}
  <2> DEFINE P == {m \in Nat : m \in 1 .. Len(s) => flatten[m] = g[m]}
  <2>1. 0 \in P
    OBVIOUS
  <2>2. ASSUME NEW n \in Nat, n \in P PROVE n + 1 \in P
    <3> SUFFICES ASSUME n + 1 \in 1 .. Len(s) PROVE flatten[n + 1] = g[n + 1]
      OBVIOUS
    <3>1. n # 0 => flatten[n] = g[n]
      BY <1>1, <2>2
    <3>2. (n + 1) - 1 = n /\ (n + 1 = 1 <=> n = 0)
      OBVIOUS
    <3>3. g[n + 1] = IF n + 1 = 1 THEN s[n + 1] ELSE g[(n + 1) - 1] \o s[n + 1]
      BY <1>2
    <3>4. flatten[n + 1] = IF n + 1 = 1 THEN s[n + 1] ELSE flatten[(n + 1) - 1] \o s[n + 1]
      BY <1>3
    <3>5. CASE n = 0
      <4>1. n + 1 = 1
        BY <3>5
      <4> QED BY <3>3, <3>4, <4>1
    <3>6. CASE n # 0
      <4>1. n + 1 # 1
        BY <3>6
      <4> QED BY <3>1, <3>2, <3>3, <3>4, <3>6, <4>1
    <3> QED BY <3>5, <3>6
  <2> HIDE DEF P
  <2>3. \A n \in Nat : n \in P
    BY <2>1, <2>2, Induction
  <2> QED BY <2>3 DEF P
<1>6. Len(s) \in {m \in Nat : m \in 1 .. Len(s) => flatten[m] = g[m]}
  BY <1>1, <1>5
<1>7. Len(s) \in 1 .. Len(s)
  BY <1>1
<1>8. flatten[Len(s)] = g[Len(s)]
  BY <1>6, <1>7
<1> QED BY <1>4, <1>8

LEMMA FlattenEmpty == FlattenSeq(<<>>) = <<>>
BY DEF FlattenSeq

\* One sequence more is as much more text.
LEMMA FlattenAppend ==
  ASSUME NEW S, NEW s \in Seq(Seq(S)), NEW x \in Seq(S)
  PROVE  /\ FlattenSeq(s) \in Seq(S)
         /\ FlattenSeq(Append(s, x)) = FlattenSeq(s) \o x
         /\ FlattenSeq(Append(s, x)) \in Seq(S)
<1> DEFINE a == Append(s, x)
           n == Len(s)
<1>1. /\ n \in Nat /\ a \in Seq(Seq(S)) /\ a # <<>> /\ Len(a) = n + 1
      /\ \A i \in 1 .. n : a[i] = s[i] /\ s[i] \in Seq(S)
      /\ a[n + 1] = x
  <2>1. n \in Nat /\ \A i \in 1 .. n : s[i] \in Seq(S)
    OBVIOUS
  <2> QED BY <2>1, AppendProperties
<1> HIDE DEF a, n
<1>2. PICK g \in [1 .. n + 1 -> Seq(S)] : Joined(a, g, n + 1)
  <2>1. n + 1 \in Nat /\ n + 1 <= Len(a)
    BY <1>1
  <2> QED BY <1>1, <2>1, JoinedExists
<1>3. FlattenSeq(a) = g[n + 1] /\ g[n + 1] \in Seq(S)
  <2>1. n + 1 \in 1 .. n + 1
    BY <1>1
  <2>2. FlattenSeq(a) = g[n + 1]
    BY <1>1, <1>2, FlattenIs
  <2> QED BY <2>1, <2>2
<1>4. CASE n = 0
  <2>1. s = <<>>
    BY <1>1, <1>4 DEF n
  <2>2. g[n + 1] = x
    BY <1>1, <1>2, <1>4 DEF Joined
  <2>3. FlattenSeq(s) = <<>> /\ <<>> \o x = x /\ <<>> \in Seq(S)
    BY <2>1, FlattenEmpty, ConcatEmptySeq
  <2>4. FlattenSeq(a) = FlattenSeq(s) \o x
    BY <1>3, <2>2, <2>3
  <2> QED BY <1>3, <2>3, <2>4 DEF a
<1>5. CASE n # 0
  <2> DEFINE h == [i \in 1 .. n |-> g[i]]
  <2>1. h \in [1 .. n -> Seq(S)] /\ s # <<>>
    BY <1>1, <1>5 DEF n
  <2>2. Joined(s, h, n)
    <3> SUFFICES ASSUME NEW i \in 1 .. n
                 PROVE  h[i] = IF i = 1 THEN s[i] ELSE h[i - 1] \o s[i]
      BY DEF Joined
    <3>1. i \in 1 .. n + 1 /\ a[i] = s[i] /\ h[i] = g[i] /\ (i # 1 => h[i - 1] = g[i - 1])
      BY <1>1
    <3>2. g[i] = IF i = 1 THEN a[i] ELSE g[i - 1] \o a[i]
      BY <1>2, <3>1 DEF Joined
    <3> QED BY <3>1, <3>2
  <2>3. FlattenSeq(s) = h[n]
    <3> HIDE DEF h
    <3> QED BY <2>1, <2>2, FlattenIs DEF n
  <2>4. h[n] = g[n] /\ g[n] \in Seq(S)
    BY <1>1, <1>5
  <2>5. g[n + 1] = g[n] \o x
    <3>1. g[n + 1] = IF n + 1 = 1 THEN a[n + 1] ELSE g[(n + 1) - 1] \o a[n + 1]
      <4>1. n + 1 \in 1 .. n + 1
        BY <1>1
      <4> QED BY <1>2, <4>1 DEF Joined
    <3>2. n + 1 # 1 /\ (n + 1) - 1 = n
      BY <1>1, <1>5
    <3> QED BY <1>1, <3>1, <3>2
  <2> HIDE DEF h
  <2> QED BY <1>3, <2>3, <2>4, <2>5 DEF a
<1> QED BY <1>4, <1>5

LEMMA FlattenType ==
  ASSUME NEW S, NEW s \in Seq(Seq(S))
  PROVE  FlattenSeq(s) \in Seq(S)
<1>1. <<>> \in Seq(S)
  OBVIOUS
<1> QED BY <1>1, FlattenAppend

LEMMA PrefixAppend ==
  ASSUME NEW S, NEW s \in Seq(S), NEW n \in Nat, n + 1 <= Len(s)
  PROVE  /\ SubSeq(s, 1, n) \in Seq(S) /\ Len(SubSeq(s, 1, n)) = n
         /\ s[n + 1] \in S
         /\ SubSeq(s, 1, n + 1) = Append(SubSeq(s, 1, n), s[n + 1])
<1>1. Len(s) \in Nat /\ n + 1 \in 1 .. Len(s) /\ \A i \in 1 .. n + 1 : i \in 1 .. Len(s)
  OBVIOUS
<1>2. SubSeq(s, 1, n) \in Seq(S) /\ Len(SubSeq(s, 1, n)) = n /\ \A i \in 1 .. n : SubSeq(s, 1, n)[i] = s[i]
  BY <1>1
<1>3. SubSeq(s, 1, n + 1) \in Seq(S) /\ Len(SubSeq(s, 1, n + 1)) = n + 1
      /\ \A i \in 1 .. n + 1 : SubSeq(s, 1, n + 1)[i] = s[i]
  BY <1>1
<1>4. s[n + 1] \in S
  BY <1>1
<1> DEFINE p == SubSeq(s, 1, n)
           q == SubSeq(s, 1, n + 1)
           a == Append(p, s[n + 1])
<1>5. a \in Seq(S) /\ Len(a) = n + 1 /\ a[n + 1] = s[n + 1] /\ \A i \in 1 .. n : a[i] = s[i]
  <2> HIDE DEF p
  <2> QED BY <1>2, <1>4, AppendProperties DEF p
<1>6. q = a
  <2>1. \A i \in 1 .. Len(q) : q[i] = a[i]
    <3> HIDE DEF q, a
    <3> QED BY <1>3, <1>5 DEF q
  <2> HIDE DEF q, a
  <2> QED BY <1>3, <1>5, <2>1, SeqEqual DEF q
<1> QED BY <1>2, <1>4, <1>6

LEMMA ConcatOneMore ==
  ASSUME NEW S, NEW s \in Seq(Seq(S)), NEW q \in Seq(Seq(S)), NEW x \in Seq(S),
         FlattenSeq(s \o q) = FlattenSeq(s) \o FlattenSeq(q)
  PROVE  FlattenSeq(s \o Append(q, x)) = FlattenSeq(s) \o FlattenSeq(Append(q, x))
<1>1. s \o q \in Seq(Seq(S)) /\ s \o Append(q, x) = Append(s \o q, x)
  <2>1. Append(q, x) = q \o <<x>>
    BY AppendIsConcat
  <2>2. s \o q \in Seq(Seq(S))
    BY ConcatProperties
  <2>3. Append(s \o q, x) = (s \o q) \o <<x>>
    BY <2>2, AppendIsConcat
  <2>4. <<x>> \in Seq(Seq(S))
    OBVIOUS
  <2>5. (s \o q) \o <<x>> = s \o (q \o <<x>>)
    BY <2>4, ConcatAssociative, SMTT(30)
  <2> QED BY <2>1, <2>2, <2>3, <2>5
<1>2. FlattenSeq(Append(q, x)) = FlattenSeq(q) \o x
  BY FlattenAppend
<1>3. FlattenSeq(Append(s \o q, x)) = FlattenSeq(s \o q) \o x
  BY <1>1, FlattenAppend
<1>4. PICK f \in Seq(S), e \in Seq(S) : f = FlattenSeq(s) /\ e = FlattenSeq(q)
  BY FlattenType
<1>5. (f \o e) \o x = f \o (e \o x)
  BY ConcatAssociative, SMTT(30)
<1> QED BY <1>1, <1>2, <1>3, <1>4, <1>5

\* The text of two lists is that of one after the other.
LEMMA FlattenConcat ==
  ASSUME NEW S, NEW s \in Seq(Seq(S)), NEW t \in Seq(Seq(S))
  PROVE  FlattenSeq(s \o t) = FlattenSeq(s) \o FlattenSeq(t)
<1> DEFINE p(n) == SubSeq(t, 1, n)
           P == {n \in Nat : n <= Len(t) => FlattenSeq(s \o p(n)) = FlattenSeq(s) \o FlattenSeq(p(n))}
<1>0. Len(t) \in Nat /\ FlattenSeq(s) \in Seq(S) /\ FlattenSeq(t) \in Seq(S)
  BY FlattenType
<1>1. 0 \in P
  <2>1. p(0) = <<>> /\ FlattenSeq(<<>>) = <<>>
    BY FlattenEmpty, SubSeqEmpty
  <2>2. s \o <<>> = s /\ FlattenSeq(s) \o <<>> = FlattenSeq(s)
    BY <1>0, ConcatEmptySeq
  <2> QED BY <2>1, <2>2
<1>2. ASSUME NEW n \in Nat, n \in P PROVE n + 1 \in P
  <2> SUFFICES ASSUME n + 1 <= Len(t)
               PROVE  FlattenSeq(s \o p(n + 1)) = FlattenSeq(s) \o FlattenSeq(p(n + 1))
    OBVIOUS
  <2>1. n <= Len(t)
    BY <1>0
  <2>2. p(n) \in Seq(Seq(S)) /\ t[n + 1] \in Seq(S) /\ p(n + 1) = Append(p(n), t[n + 1])
    BY PrefixAppend
  <2>3. FlattenSeq(s \o p(n)) = FlattenSeq(s) \o FlattenSeq(p(n))
    BY <1>2, <2>1
  <2> HIDE DEF P, p
  <2>4. PICK q \in Seq(Seq(S)), x \in Seq(S) :
          q = p(n) /\ p(n + 1) = Append(q, x) /\ FlattenSeq(s \o q) = FlattenSeq(s) \o FlattenSeq(q)
    BY <2>2, <2>3
  <2>5. FlattenSeq(s \o Append(q, x)) = FlattenSeq(s) \o FlattenSeq(Append(q, x))
    BY <2>4, ConcatOneMore
  <2> QED BY <2>4, <2>5
<1>3. \A n \in Nat : n \in P
  <2> HIDE DEF P
  <2> QED BY <1>1, <1>2, Induction
<1>4. p(Len(t)) = t
  BY SubSeqFull
<1>5. FlattenSeq(s \o p(Len(t))) = FlattenSeq(s) \o FlattenSeq(p(Len(t)))
  BY <1>0, <1>3
<1> QED BY <1>4, <1>5

--------------------------------------------------------------------------------
(* A function of each element of a sequence.                               *)

Mapped(f, s) == [i \in DOMAIN s |-> f[s[i]]]

Maps(f, S, T) == f \in [S -> T]

LEMMA MapIs ==
  ASSUME NEW S, NEW T, NEW f, Maps(f, S, T), NEW s \in Seq(S)
  PROVE  /\ Mapped(f, s) \in Seq(T) /\ Len(Mapped(f, s)) = Len(s) /\ Len(s) \in Nat
         /\ \A i \in 1 .. Len(s) : s[i] \in S /\ Mapped(f, s)[i] = f[s[i]]
<1>1. Len(s) \in Nat /\ DOMAIN s = 1 .. Len(s) /\ \A i \in 1 .. Len(s) : s[i] \in S
  OBVIOUS
<1>2. Mapped(f, s) = [i \in 1 .. Len(s) |-> f[s[i]]]
  BY <1>1 DEF Mapped
<1>3. [i \in 1 .. Len(s) |-> f[s[i]]] \in [1 .. Len(s) -> T]
  BY <1>1 DEF Maps
<1>4. Mapped(f, s) \in [1 .. Len(s) -> T] /\ \A i \in 1 .. Len(s) : Mapped(f, s)[i] = f[s[i]]
  BY <1>2, <1>3
<1>5. Mapped(f, s) \in Seq(T) /\ Len(Mapped(f, s)) = Len(s)
  BY <1>1, <1>4, FunctionIsSeq
<1> QED BY <1>1, <1>4, <1>5

LEMMA MapValue == ASSUME NEW S, NEW T, NEW f, Maps(f, S, T), NEW x \in S PROVE f[x] \in T
BY DEF Maps

LEMMA MapEmpty == ASSUME NEW f PROVE Mapped(f, <<>>) = <<>>
BY DEF Mapped

LEMMA MapConcat ==
  ASSUME NEW S, NEW T, NEW f, Maps(f, S, T), NEW s \in Seq(S), NEW t \in Seq(S)
  PROVE  Mapped(f, s \o t) = Mapped(f, s) \o Mapped(f, t)
<1> DEFINE c == s \o t
           l == Mapped(f, c)
           r == Mapped(f, s) \o Mapped(f, t)
<1>1. /\ c \in Seq(S) /\ Len(c) = Len(s) + Len(t)
      /\ \A i \in 1 .. Len(s) + Len(t) : c[i] = IF i <= Len(s) THEN s[i] ELSE t[i - Len(s)]
  BY ConcatProperties
<1>2. /\ Mapped(f, s) \in Seq(T) /\ Len(Mapped(f, s)) = Len(s) /\ Len(s) \in Nat
      /\ \A i \in 1 .. Len(s) : Mapped(f, s)[i] = f[s[i]]
  BY MapIs
<1>3. /\ Mapped(f, t) \in Seq(T) /\ Len(Mapped(f, t)) = Len(t) /\ Len(t) \in Nat
      /\ \A i \in 1 .. Len(t) : Mapped(f, t)[i] = f[t[i]]
  BY MapIs
<1> HIDE DEF c
<1>4. l \in Seq(T) /\ Len(l) = Len(s) + Len(t) /\ \A i \in 1 .. Len(s) + Len(t) : l[i] = f[c[i]]
  <2>1. l \in Seq(T) /\ Len(l) = Len(c) /\ \A i \in 1 .. Len(c) : l[i] = f[c[i]]
    <3>1. c \in Seq(S)
      BY <1>1
    <3>2. /\ Mapped(f, c) \in Seq(T) /\ Len(Mapped(f, c)) = Len(c)
          /\ \A i \in 1 .. Len(c) : Mapped(f, c)[i] = f[c[i]]
      BY <3>1, MapIs
    <3> QED BY <3>2
  <2> QED BY <1>1, <2>1
<1>5. /\ r \in Seq(T) /\ Len(r) = Len(s) + Len(t)
      /\ \A i \in 1 .. Len(s) + Len(t) :
           r[i] = IF i <= Len(s) THEN Mapped(f, s)[i] ELSE Mapped(f, t)[i - Len(s)]
  <2>1. PICK a \in Seq(T), b \in Seq(T) : a = Mapped(f, s) /\ b = Mapped(f, t)
    BY <1>2, <1>3
  <2>2. /\ a \o b \in Seq(T) /\ Len(a \o b) = Len(a) + Len(b)
        /\ \A i \in 1 .. Len(a) + Len(b) : (a \o b)[i] = IF i <= Len(a) THEN a[i] ELSE b[i - Len(a)]
    BY ConcatProperties
  <2> QED BY <1>2, <1>3, <2>1, <2>2
<1>6. ASSUME NEW i \in 1 .. Len(s) + Len(t) PROVE l[i] = r[i]
  <2> HIDE DEF l, r
  <2>1. CASE i <= Len(s)
    <3>1. i \in 1 .. Len(s)
      BY <1>2, <1>3, <2>1
    <3>2. c[i] = s[i] /\ Mapped(f, s)[i] = f[s[i]] /\ r[i] = Mapped(f, s)[i] /\ l[i] = f[c[i]]
      BY <1>1, <1>2, <1>4, <1>5, <2>1, <3>1
    <3> QED BY <3>2
  <2>2. CASE ~(i <= Len(s))
    <3>1. i - Len(s) \in 1 .. Len(t)
      BY <1>2, <1>3, <2>2
    <3> QED BY <1>1, <1>3, <1>4, <1>5, <2>2, <3>1
  <2> QED BY <2>1, <2>2
<1>7. l = r
  <2> HIDE DEF l, r
  <2> QED BY <1>4, <1>5, <1>6, SeqEqual
<1> QED BY <1>7 DEF c

LEMMA MapAppend ==
  ASSUME NEW S, NEW T, NEW f, Maps(f, S, T), NEW s \in Seq(S), NEW x \in S
  PROVE  Mapped(f, Append(s, x)) = Append(Mapped(f, s), f[x])
<1>1. <<x>> \in Seq(S) /\ Append(s, x) = s \o <<x>>
  BY AppendIsConcat
<1>2. Mapped(f, <<x>>) = <<f[x]>>
  BY DEF Mapped
<1>3. Mapped(f, s \o <<x>>) = Mapped(f, s) \o <<f[x]>>
  <2>1. \A t \in Seq(S) : Mapped(f, s \o t) = Mapped(f, s) \o Mapped(f, t)
    BY MapConcat
  <2> QED BY <1>1, <1>2, <2>1
<1>4. Mapped(f, s) \in Seq(T) /\ f[x] \in T
  BY MapIs, MapValue
<1>5. Append(Mapped(f, s), f[x]) = Mapped(f, s) \o <<f[x]>>
  BY <1>4, AppendIsConcat
<1> QED BY <1>1, <1>3, <1>5

\* The same if the function makes a sequence of each element.
LEMMA FlatMapAppend ==
  ASSUME NEW S, NEW T, NEW f, Maps(f, S, Seq(T)), NEW s \in Seq(S), NEW x \in S
  PROVE  /\ FlattenSeq(Mapped(f, s)) \in Seq(T)
         /\ FlattenSeq(Mapped(f, Append(s, x))) = FlattenSeq(Mapped(f, s)) \o f[x]
<1>1. PICK m \in Seq(Seq(T)), y \in Seq(T) : m = Mapped(f, s) /\ y = f[x]
  BY MapIs, MapValue
<1>2. FlattenSeq(m) \in Seq(T) /\ FlattenSeq(Append(m, y)) = FlattenSeq(m) \o y
  BY FlattenAppend
<1>3. Mapped(f, Append(s, x)) = Append(m, y)
  BY <1>1, MapAppend
<1> QED BY <1>1, <1>2, <1>3

LEMMA FlatMapEmpty == ASSUME NEW f PROVE FlattenSeq(Mapped(f, <<>>)) = <<>>
BY MapEmpty, FlattenEmpty

--------------------------------------------------------------------------------
(* The lines of a path.                                                    *)

LEMMA Sizes ==
  /\ LineMax \in Nat /\ LineMax >= 1
  /\ MaxPlayListLen \in Nat /\ MaxPlayListLen >= 1
  /\ Newline \notin Character /\ Newline \in Symbol /\ \A c \in Character : c \in Symbol
  /\ Path \subseteq Seq(Character) /\ Previous \subseteq Seq(Seq(Character))
BY FileAssumption DEF Symbol

\* What fgets takes in one call: it ends with a newline or fills the buffer.
IsLine(line) ==
  /\ line \in Seq(Symbol)
  /\ Len(line) \in 1 .. LineMax
  /\ \A j \in 1 .. Len(line) - 1 : line[j] \in Character
  /\ line[Len(line)] = Newline \/ (Len(line) = LineMax /\ line[Len(line)] \in Character)

LEMMA Symbols == ASSUME NEW s \in Seq(Character) PROVE s \in Seq(Symbol)
BY Sizes, SeqMonotonic DEF Symbol

\* The multiples of the length of the buffer up to the length of a path.
LEMMA Multiples ==
  ASSUME NEW n \in Nat, NEW k \in Nat, k >= 1, k <= 1 + n \div LineMax,
         NEW q, q = (k - 1) * LineMax
  PROVE  /\ q \in Nat /\ q <= n /\ k * LineMax = q + LineMax
         /\ k < 1 + n \div LineMax => q + LineMax <= n
         /\ k = 1 + n \div LineMax => n < q + LineMax
<1>1. PICK d \in Nat, r \in Nat : d = n \div LineMax /\ n = LineMax * d + r /\ r < LineMax
  <2>1. n \div LineMax \in Nat /\ n % LineMax \in Nat /\ n % LineMax < LineMax
        /\ n = LineMax * (n \div LineMax) + (n % LineMax)
    BY Sizes
  <2> QED BY <2>1
<1>2. PICK j \in Nat : j = k - 1
  OBVIOUS
<1>3. k = j + 1 /\ q = j * LineMax /\ k * LineMax = j * LineMax + LineMax /\ q \in Nat
  BY <1>2, Sizes
<1>4. j <= d
  BY <1>1, <1>2
<1>5. j * LineMax <= LineMax * d
  <2>1. PICK e \in Nat : d = j + e
    BY <1>4
  <2>2. LineMax * (j + e) = j * LineMax + e * LineMax /\ e * LineMax \in Nat /\ j * LineMax \in Nat
    BY Sizes
  <2> QED BY <2>1, <2>2
<1>6. CASE j = d
  <2>1. j * LineMax = LineMax * d
    BY <1>6, Sizes
  <2> QED BY <1>1, <1>2, <1>3, <1>6, <2>1, Sizes
<1>7. CASE j < d
  <2>1. PICK e \in Nat : d = j + 1 + e
    BY <1>7
  <2>2. LineMax * (j + 1 + e) = j * LineMax + LineMax + e * LineMax /\ e * LineMax \in Nat /\ j * LineMax \in Nat
    BY Sizes
  <2> QED BY <1>1, <1>2, <1>3, <1>7, <2>1, <2>2, Sizes
<1> QED BY <1>4, <1>6, <1>7

LEMMA LesserIs ==
  ASSUME NEW m \in Nat, NEW n \in Nat
  PROVE  Min({m, n}) = IF m <= n THEN m ELSE n
<1>1. CASE m <= n
  <2>1. Min({m, n}) = m
    BY <1>1, LeastIs
  <2> QED BY <1>1, <2>1
<1>2. CASE ~(m <= n)
  <2>1. n <= m
    BY <1>2
  <2>2. Min({m, n}) = n
    BY <2>1, LeastIs
  <2> QED BY <1>2, <2>2
<1> QED BY <1>1, <1>2

LEMMA SubSeqIs ==
  ASSUME NEW S, NEW t \in Seq(S), NEW a \in Nat, NEW b \in Nat, a <= b, b <= Len(t)
  PROVE  /\ SubSeq(t, a + 1, b) \in Seq(S) /\ Len(SubSeq(t, a + 1, b)) = b - a
         /\ \A j \in 1 .. b - a : SubSeq(t, a + 1, b)[j] = t[a + j]
<1>1. Len(t) \in Nat /\ \A i \in a + 1 .. b : i \in 1 .. Len(t) /\ t[i] \in S
  OBVIOUS
<1>2. a + 1 \in Int /\ b \in Int /\ b - (a + 1) + 1 = b - a
  OBVIOUS
<1>3. /\ SubSeq(t, a + 1, b) \in Seq(S)
      /\ Len(SubSeq(t, a + 1, b)) = IF a + 1 <= b THEN b - (a + 1) + 1 ELSE 0
      /\ \A i \in 1 .. b - (a + 1) + 1 : SubSeq(t, a + 1, b)[i] = t[(a + 1) + i - 1]
  BY <1>1, <1>2, SubSeqProperties
<1>4. Len(SubSeq(t, a + 1, b)) = b - a
  BY <1>2, <1>3
<1>5. ASSUME NEW j \in 1 .. b - a PROVE SubSeq(t, a + 1, b)[j] = t[a + j]
  <2>1. (a + 1) + j - 1 = a + j
    OBVIOUS
  <2> QED BY <1>2, <1>3, <2>1
<1> QED BY <1>3, <1>4, <1>5

\* A part that does not reach the newline is a piece of the path as it is.
LEMMA PartInside ==
  ASSUME NEW p \in Seq(Character), NEW q \in Nat, q + LineMax <= Len(p),
         NEW t, t = Append(p, Newline)
  PROVE  /\ SubSeq(t, q + 1, q + LineMax) = SubSeq(p, q + 1, q + LineMax)
         /\ IsLine(SubSeq(t, q + 1, q + LineMax))
         /\ Line(SubSeq(t, q + 1, q + LineMax)) = SubSeq(p, q + 1, q + LineMax)
         /\ SubSeq(p, q + 1, q + LineMax) \in Seq(Character)
<1> DEFINE part == SubSeq(t, q + 1, q + LineMax)
           piece == SubSeq(p, q + 1, q + LineMax)
<1>1. /\ p \in Seq(Symbol) /\ Len(p) \in Nat /\ t \in Seq(Symbol) /\ Len(t) = Len(p) + 1
      /\ \A i \in 1 .. Len(p) : t[i] = p[i] /\ p[i] \in Character
  BY Sizes, Symbols, AppendProperties
<1>2. PICK m \in Nat : m = q + LineMax
  BY Sizes
<1>3. q <= m /\ m - q = LineMax /\ m <= Len(p) /\ m <= Len(t)
  BY <1>1, <1>2, Sizes
<1>4. part \in Seq(Symbol) /\ Len(part) = LineMax /\ \A j \in 1 .. LineMax : part[j] = t[q + j]
  <2>1. /\ SubSeq(t, q + 1, m) \in Seq(Symbol) /\ Len(SubSeq(t, q + 1, m)) = m - q
        /\ \A j \in 1 .. m - q : SubSeq(t, q + 1, m)[j] = t[q + j]
    BY <1>1, <1>3, SubSeqIs
  <2> QED BY <1>2, <1>3, <2>1
<1>5. piece \in Seq(Character) /\ Len(piece) = LineMax /\ \A j \in 1 .. LineMax : piece[j] = p[q + j]
  <2>1. /\ SubSeq(p, q + 1, m) \in Seq(Character) /\ Len(SubSeq(p, q + 1, m)) = m - q
        /\ \A j \in 1 .. m - q : SubSeq(p, q + 1, m)[j] = p[q + j]
    BY <1>1, <1>3, SubSeqIs
  <2> QED BY <1>2, <1>3, <2>1
<1>6. \A j \in 1 .. LineMax : part[j] = piece[j] /\ part[j] \in Character
  <2> SUFFICES ASSUME NEW j \in 1 .. LineMax PROVE part[j] = piece[j] /\ part[j] \in Character
    OBVIOUS
  <2>1. q + j \in 1 .. Len(p)
    BY <1>1, <1>2, <1>3, Sizes
  <2> HIDE DEF part, piece
  <2> QED BY <1>1, <1>4, <1>5, <2>1
<1> HIDE DEF part, piece
<1>7. part = piece
  <2>1. piece \in Seq(Symbol)
    BY <1>5, Symbols
  <2> QED BY <1>4, <1>5, <1>6, <2>1, SeqEqual
<1>8. IsLine(part)
  BY <1>4, <1>6, Sizes DEF IsLine
<1>9. Line(part) = part
  <2>1. part[LineMax] \in Character
    BY <1>6, Sizes
  <2> QED BY <1>4, <2>1, Sizes DEF Line, Last
<1> QED BY <1>5, <1>7, <1>8, <1>9 DEF part, piece

\* The last part ends with the newline, which is taken from it.
LEMMA PartAtEnd ==
  ASSUME NEW p \in Seq(Character), NEW q \in Nat, q <= Len(p), Len(p) < q + LineMax,
         NEW t, t = Append(p, Newline)
  PROVE  /\ IsLine(SubSeq(t, q + 1, Len(p) + 1))
         /\ Line(SubSeq(t, q + 1, Len(p) + 1)) = SubSeq(p, q + 1, Len(p))
         /\ SubSeq(p, q + 1, Len(p)) \in Seq(Character)
<1> DEFINE n == Len(p)
           part == SubSeq(t, q + 1, n + 1)
           piece == SubSeq(p, q + 1, n)
           front == SubSeq(part, 1, Len(part) - 1)
<1>1. /\ p \in Seq(Symbol) /\ n \in Nat /\ t \in Seq(Symbol) /\ Len(t) = n + 1
      /\ \A i \in 1 .. n : t[i] = p[i] /\ p[i] \in Character
      /\ t[n + 1] = Newline
  BY Sizes, Symbols, AppendProperties
<1>2. PICK m \in Nat : m = n - q
  <2>1. \A a, b \in Nat : b <= a => a - b \in Nat
    OBVIOUS
  <2>2. Len(p) \in Nat
    OBVIOUS
  <2>3. Len(p) - q \in Nat
    BY <2>1, <2>2
  <2> QED BY <2>3
<1>3. m < LineMax /\ (n + 1) - q = m + 1 /\ q + (m + 1) = n + 1
  BY <1>1, <1>2, Sizes
<1>4. part \in Seq(Symbol) /\ Len(part) = m + 1 /\ \A j \in 1 .. m + 1 : part[j] = t[q + j]
  <2>1. /\ SubSeq(t, q + 1, n + 1) \in Seq(Symbol) /\ Len(SubSeq(t, q + 1, n + 1)) = (n + 1) - q
        /\ \A j \in 1 .. (n + 1) - q : SubSeq(t, q + 1, n + 1)[j] = t[q + j]
    <3>1. n + 1 \in Nat /\ q <= n + 1 /\ n + 1 <= Len(t)
      BY <1>1
    <3> HIDE DEF n
    <3> QED BY <1>1, <3>1, SubSeqIs
  <2> QED BY <1>3, <2>1
<1>5. piece \in Seq(Character) /\ Len(piece) = m /\ \A j \in 1 .. m : piece[j] = p[q + j]
  <2>1. /\ SubSeq(p, q + 1, n) \in Seq(Character) /\ Len(SubSeq(p, q + 1, n)) = n - q
        /\ \A j \in 1 .. n - q : SubSeq(p, q + 1, n)[j] = p[q + j]
    BY <1>1, SubSeqIs
  <2> QED BY <1>2, <2>1
<1>6. \A j \in 1 .. m : part[j] = piece[j] /\ part[j] \in Character
  <2> SUFFICES ASSUME NEW j \in 1 .. m PROVE part[j] = piece[j] /\ part[j] \in Character
    OBVIOUS
  <2>1. q + j \in 1 .. n /\ j \in 1 .. m + 1
    BY <1>1, <1>2
  <2> HIDE DEF part, piece, n
  <2> QED BY <1>1, <1>4, <1>5, <2>1
<1>7. part[m + 1] = Newline
  <2>1. m + 1 \in 1 .. m + 1
    OBVIOUS
  <2> HIDE DEF part, piece, n
  <2> QED BY <1>1, <1>3, <1>4, <2>1
<1> HIDE DEF part, piece, n
<1>8. IsLine(part)
  BY <1>3, <1>4, <1>6, <1>7, Sizes DEF IsLine
<1>9. Line(part) = front
  BY <1>4, <1>7 DEF Line, Last, Front
<1>10. front = piece
  <2>1. (m + 1) - 1 = m /\ m <= Len(part) /\ 0 + 1 = 1 /\ m - 0 = m /\ 0 <= m /\ \A j \in 1 .. m : 0 + j = j
    BY <1>4
  <2>2. /\ SubSeq(part, 0 + 1, m) \in Seq(Symbol) /\ Len(SubSeq(part, 0 + 1, m)) = m - 0
        /\ \A j \in 1 .. m - 0 : SubSeq(part, 0 + 1, m)[j] = part[0 + j]
    BY <1>4, <2>1, SubSeqIs
  <2>3. front = SubSeq(part, 1, m)
    BY <1>4, <2>1
  <2>4. front \in Seq(Symbol) /\ Len(front) = m /\ \A j \in 1 .. m : front[j] = part[j]
    BY <2>1, <2>2, <2>3
  <2>5. piece \in Seq(Symbol)
    BY <1>5, Symbols
  <2> HIDE DEF front
  <2> QED BY <1>5, <1>6, <2>4, <2>5, SeqEqual
<1> QED BY <1>5, <1>8, <1>9, <1>10 DEF part, piece, n

\* How many lines a path takes, and where the k-th of them ends.
Count(p) == 1 + Len(p) \div LineMax
End(p, k) == IF k < Count(p) THEN k * LineMax ELSE Len(p) + 1

LEMMA CountIs == ASSUME NEW p \in Seq(Character) PROVE Count(p) \in Nat /\ Count(p) >= 1
<1>1. Len(p) \in Nat
  OBVIOUS
<1>2. \A n \in Nat : n \div LineMax \in Nat
  BY Sizes
<1>3. PICK d \in Nat : d = Len(p) \div LineMax
  BY <1>1, <1>2
<1>4. Count(p) = 1 + d
  BY <1>3 DEF Count
<1> QED BY <1>3, <1>4

PartIn(t, p, k, q) ==
  /\ Parts(t, p)[k] = SubSeq(t, q + 1, End(p, k))
  /\ q \in Nat /\ q <= Len(p) /\ End(p, k) \in Nat /\ q <= End(p, k) /\ End(p, k) <= Len(t)
  /\ IsLine(Parts(t, p)[k]) /\ Line(Parts(t, p)[k]) = Pieces(p)[k] /\ Pieces(p)[k] \in Seq(Character)

LEMMA PartIs ==
  ASSUME NEW p \in Seq(Character), NEW t, t = Append(p, Newline), NEW k \in 1 .. Count(p)
  PROVE  /\ Parts(t, p)[k] = SubSeq(t, (k - 1) * LineMax + 1, End(p, k))
         /\ (k - 1) * LineMax \in Nat /\ (k - 1) * LineMax <= Len(p)
         /\ End(p, k) \in Nat /\ (k - 1) * LineMax <= End(p, k) /\ End(p, k) <= Len(t)
         /\ IsLine(Parts(t, p)[k])
         /\ Line(Parts(t, p)[k]) = Pieces(p)[k]
         /\ Pieces(p)[k] \in Seq(Character)
<1>1. Len(p) \in Nat /\ Len(t) = Len(p) + 1 /\ Count(p) \in Nat /\ k \in Nat /\ k >= 1 /\ k <= Count(p)
  <2>1. Len(p) \in Nat /\ Len(t) = Len(p) + 1
    BY Sizes, Symbols, AppendProperties
  <2> QED BY <2>1, CountIs
<1>2. PICK q : q = (k - 1) * LineMax
  OBVIOUS
<1>3. /\ q \in Nat /\ q <= Len(p) /\ k * LineMax = q + LineMax
      /\ k < Count(p) => q + LineMax <= Len(p)
      /\ k = Count(p) => Len(p) < q + LineMax
  BY <1>1, <1>2, Multiples DEF Count
<1>4. PICK m \in Nat : m = q + LineMax
  BY <1>3, Sizes
<1>5. Parts(t, p)[k] = SubSeq(t, q + 1, Min({m, Len(t)}))
  BY <1>1, <1>2, <1>3, <1>4 DEF Parts, Count
<1>6. Pieces(p)[k] = SubSeq(p, q + 1, Min({m, Len(p)}))
  BY <1>1, <1>2, <1>3, <1>4 DEF Pieces, Parts, Count
<1>7. ASSUME k < Count(p) PROVE PartIn(t, p, k, q)
  <2>1. m <= Len(p) /\ m <= Len(t) /\ Len(t) \in Nat /\ End(p, k) = m /\ q <= m
    BY <1>1, <1>3, <1>4, <1>7, Sizes DEF End
  <2>2. Min({m, Len(t)}) = m /\ Min({m, Len(p)}) = m
    BY <1>1, <2>1, LesserIs
  <2>3. q + LineMax <= Len(p)
    BY <1>3, <1>7
  <2>4. /\ IsLine(SubSeq(t, q + 1, m)) /\ Line(SubSeq(t, q + 1, m)) = SubSeq(p, q + 1, m)
        /\ SubSeq(p, q + 1, m) \in Seq(Character)
    BY <1>3, <1>4, <2>3, PartInside
  <2>5. Parts(t, p)[k] = SubSeq(t, q + 1, m) /\ Pieces(p)[k] = SubSeq(p, q + 1, m)
    BY <1>5, <1>6, <2>2
  <2> QED BY <1>3, <2>1, <2>4, <2>5 DEF PartIn
<1>8. ASSUME k = Count(p) PROVE PartIn(t, p, k, q)
  <2>1. /\ Len(p) < m /\ Len(t) <= m /\ Len(p) <= m /\ Len(t) \in Nat /\ End(p, k) = Len(t)
        /\ q <= Len(t)
    BY <1>1, <1>3, <1>4, <1>8 DEF End
  <2>2. Min({m, Len(t)}) = Len(t) /\ Min({m, Len(p)}) = Len(p)
    BY <1>1, <2>1, LesserIs
  <2>3. Len(p) < q + LineMax
    BY <1>3, <1>8
  <2>4. /\ IsLine(SubSeq(t, q + 1, Len(p) + 1))
        /\ Line(SubSeq(t, q + 1, Len(p) + 1)) = SubSeq(p, q + 1, Len(p))
        /\ SubSeq(p, q + 1, Len(p)) \in Seq(Character)
    BY <1>3, <2>3, PartAtEnd
  <2>5. Parts(t, p)[k] = SubSeq(t, q + 1, Len(t)) /\ Pieces(p)[k] = SubSeq(p, q + 1, Len(p))
    BY <1>5, <1>6, <2>2
  <2>6. Len(t) = Len(p) + 1 /\ Len(t) <= Len(t)
    BY <1>1
  <2> QED BY <1>3, <2>1, <2>4, <2>5, <2>6 DEF PartIn
<1>9. PartIn(t, p, k, q)
  BY <1>1, <1>7, <1>8
<1> QED BY <1>2, <1>9 DEF PartIn

LEMMA PartsAre ==
  ASSUME NEW p \in Seq(Character), NEW t, t = Append(p, Newline)
  PROVE  /\ Parts(t, p) \in Seq(Seq(Symbol)) /\ Len(Parts(t, p)) = Count(p)
         /\ Pieces(p) \in Seq(Seq(Character)) /\ Len(Pieces(p)) = Count(p)
         /\ \A k \in 1 .. Count(p) : /\ IsLine(Parts(t, p)[k])
                                     /\ Line(Parts(t, p)[k]) = Pieces(p)[k]
<1>1. \A k \in 1 .. Count(p) : /\ IsLine(Parts(t, p)[k]) /\ Line(Parts(t, p)[k]) = Pieces(p)[k]
                               /\ Pieces(p)[k] \in Seq(Character)
  BY PartIs
<1>2. \A k \in 1 .. Count(p) : Parts(t, p)[k] \in Seq(Symbol)
  BY <1>1 DEF IsLine
<1>3. Parts(t, p) = [k \in 1 .. Count(p) |-> Parts(t, p)[k]] /\ Pieces(p) = [k \in 1 .. Count(p) |-> Pieces(p)[k]]
  BY DEF Parts, Pieces, Count
<1>4. Parts(t, p) \in [1 .. Count(p) -> Seq(Symbol)] /\ Pieces(p) \in [1 .. Count(p) -> Seq(Character)]
  BY <1>1, <1>2, <1>3
<1> QED BY <1>1, <1>4, CountIs, FunctionIsSeq

\* The text of the first n of the sequences in s.
FirstOf(s, n) == FlattenSeq(SubSeq(s, 1, n))

LEMMA FirstOfNone == ASSUME NEW s PROVE FirstOf(s, 0) = <<>>
<1>1. SubSeq(s, 1, 0) = <<>>
  BY SubSeqEmpty
<1> QED BY <1>1, FlattenEmpty DEF FirstOf

LEMMA FirstOfNext ==
  ASSUME NEW S, NEW s \in Seq(Seq(S)), NEW n \in Nat, n + 1 <= Len(s)
  PROVE  FirstOf(s, n + 1) = FirstOf(s, n) \o s[n + 1]
<1>1. PICK a \in Seq(Seq(S)), x \in Seq(S) : a = SubSeq(s, 1, n) /\ x = s[n + 1] /\ SubSeq(s, 1, n + 1) = Append(a, x)
  <2>1. /\ SubSeq(s, 1, n) \in Seq(Seq(S)) /\ s[n + 1] \in Seq(S)
        /\ SubSeq(s, 1, n + 1) = Append(SubSeq(s, 1, n), s[n + 1])
    BY PrefixAppend
  <2> QED BY <2>1
<1>2. FlattenSeq(Append(a, x)) = FlattenSeq(a) \o x
  BY FlattenAppend
<1> QED BY <1>1, <1>2 DEF FirstOf

LEMMA FirstOfAll ==
  ASSUME NEW S, NEW s \in Seq(Seq(S))
  PROVE  FirstOf(s, Len(s)) = FlattenSeq(s)
BY SubSeqFull DEF FirstOf

\* The lines of a path make up the path and its newline.
LEMMA PartsJoin ==
  ASSUME NEW p \in Seq(Character), NEW t, t = Append(p, Newline)
  PROVE  FlattenSeq(Parts(t, p)) = t
<1>0. PICK parts, K : parts = Parts(t, p) /\ K = Count(p)
  OBVIOUS
<1>1. parts \in Seq(Seq(Symbol)) /\ Len(parts) = K /\ K \in Nat /\ K >= 1
  BY <1>0, PartsAre, CountIs
<1>2. t \in Seq(Symbol) /\ Len(t) = Len(p) + 1 /\ Len(p) \in Nat
  BY Sizes, Symbols, AppendProperties
<1>3. ASSUME NEW k \in Nat, k + 1 <= K
      PROVE  /\ FirstOf(parts, k + 1) = FirstOf(parts, k) \o SubSeq(t, k * LineMax + 1, End(p, k + 1))
             /\ k * LineMax \in Nat /\ k * LineMax <= Len(p)
             /\ End(p, k + 1) \in Nat /\ k * LineMax <= End(p, k + 1) /\ End(p, k + 1) <= Len(t)
  <2>1. k + 1 \in 1 .. K /\ (k + 1) - 1 = k
    BY <1>1, <1>3
  <2>2. /\ parts[k + 1] = SubSeq(t, k * LineMax + 1, End(p, k + 1))
        /\ k * LineMax \in Nat /\ k * LineMax <= Len(p)
        /\ End(p, k + 1) \in Nat /\ k * LineMax <= End(p, k + 1) /\ End(p, k + 1) <= Len(t)
    BY <1>0, <2>1, PartIs
  <2>3. FirstOf(parts, k + 1) = FirstOf(parts, k) \o parts[k + 1]
    BY <1>1, <1>3, FirstOfNext
  <2> QED BY <2>2, <2>3
<1>4. PICK P : P = {j \in Nat : j \in 1 .. K => FirstOf(parts, j) = SubSeq(t, 1, End(p, j))}
  OBVIOUS
<1>5. 0 \in P
  BY <1>4
<1>6. ASSUME NEW k \in Nat, k \in P PROVE k + 1 \in P
  <2> SUFFICES ASSUME k + 1 \in 1 .. K PROVE FirstOf(parts, k + 1) = SubSeq(t, 1, End(p, k + 1))
    <3>1. k + 1 \in Nat
      OBVIOUS
    <3> QED BY <1>4, <3>1
  <2>1. PICK b \in Nat, e \in Nat :
          /\ b = k * LineMax /\ e = End(p, k + 1) /\ b <= e /\ e <= Len(t)
          /\ FirstOf(parts, k + 1) = FirstOf(parts, k) \o SubSeq(t, b + 1, e)
    <3>1. k + 1 <= K
      BY <1>1
    <3>2. PICK b \in Nat, e \in Nat : b = k * LineMax /\ e = End(p, k + 1)
      BY <1>3, <3>1
    <3> QED BY <1>3, <3>1, <3>2
  <2>2. FirstOf(parts, k) = SubSeq(t, 1, b)
    <3>1. CASE k = 0
      <4>1. b = 0
        BY <2>1, <3>1, Sizes
      <4>2. SubSeq(t, 1, b) = <<>>
        BY <4>1, SubSeqEmpty
      <4> QED BY <3>1, <4>2, FirstOfNone
    <3>2. CASE k # 0
      <4>1. FirstOf(parts, k) = SubSeq(t, 1, End(p, k)) /\ k < K
        <5>1. k \in 1 .. K /\ k < K
          BY <1>1, <3>2
        <5> QED BY <1>4, <1>6, <5>1
      <4> QED BY <1>0, <2>1, <4>1 DEF End
    <3> QED BY <3>1, <3>2
  <2>3. SubSeq(t, 1, b) \o SubSeq(t, b + 1, e) = SubSeq(t, 1, e)
    <3>1. 1 \in 1 .. Len(t) + 1 /\ b \in 1 - 1 .. Len(t) /\ e \in b .. Len(t)
      BY <1>2, <2>1
    <3> QED BY <1>2, <3>1, ConcatAdjacentSubSeq
  <2> QED BY <2>1, <2>2, <2>3
<1>7. K \in P
  BY <1>1, <1>5, <1>6, Induction
<1>8. FirstOf(parts, K) = SubSeq(t, 1, Len(t))
  <2>1. End(p, K) = Len(t)
    BY <1>0, <1>1, <1>2 DEF End
  <2> QED BY <1>1, <1>4, <1>7, <2>1
<1>9. FirstOf(parts, K) = FlattenSeq(parts)
  BY <1>1, FirstOfAll
<1>10. SubSeq(t, 1, Len(t)) = t
  BY <1>2, SubSeqFull
<1> QED BY <1>0, <1>8, <1>9, <1>10

--------------------------------------------------------------------------------
(* The text and the lines of a list.                                       *)

WithNewline == [p \in Seq(Character) |-> Append(p, Newline)]
InParts     == [p \in Seq(Character) |-> Parts(Append(p, Newline), p)]
InPieces    == [p \in Seq(Character) |-> Pieces(p)]
Strip       == [l \in Seq(Symbol) |-> Line(l)]

\* What readplaylist makes of a list.
Broken(paths) == FlattenSeq([i \in DOMAIN paths |-> Pieces(paths[i])])

LEMMA ListMaps ==
  /\ Maps(WithNewline, Seq(Character), Seq(Symbol))
  /\ Maps(InParts, Seq(Character), Seq(Seq(Symbol)))
  /\ Maps(InPieces, Seq(Character), Seq(Seq(Character)))
  /\ Maps(Strip, Seq(Symbol), Seq(Symbol))
<1>1. ASSUME NEW p \in Seq(Character) PROVE Append(p, Newline) \in Seq(Symbol)
  BY Symbols, Sizes, AppendProperties
<1>2. ASSUME NEW p \in Seq(Character) PROVE Parts(Append(p, Newline), p) \in Seq(Seq(Symbol))
                                            /\ Pieces(p) \in Seq(Seq(Character))
  BY PartsAre
<1>3. ASSUME NEW l \in Seq(Symbol) PROVE Line(l) \in Seq(Symbol)
  <2>1. SubSeq(l, 1, Len(l) - 1) \in Seq(Symbol)
    OBVIOUS
  <2> QED BY <2>1 DEF Line, Front
<1>4. WithNewline \in [Seq(Character) -> Seq(Symbol)]
  BY <1>1 DEF WithNewline
<1>5. InParts \in [Seq(Character) -> Seq(Seq(Symbol))] /\ InPieces \in [Seq(Character) -> Seq(Seq(Character))]
  BY <1>2 DEF InParts, InPieces
<1>6. Strip \in [Seq(Symbol) -> Seq(Symbol)]
  BY <1>3 DEF Strip
<1> QED BY <1>4, <1>5, <1>6 DEF Maps

LEMMA ListTexts ==
  ASSUME NEW paths \in Seq(Seq(Character))
  PROVE  /\ Text(paths) = FlattenSeq(Mapped(WithNewline, paths))
         /\ Lines(paths) = FlattenSeq(Mapped(InParts, paths))
         /\ Broken(paths) = FlattenSeq(Mapped(InPieces, paths))
<1>1. \A i \in DOMAIN paths : paths[i] \in Seq(Character)
  OBVIOUS
<1>2. [i \in DOMAIN paths |-> Append(paths[i], Newline)] = Mapped(WithNewline, paths)
  BY <1>1 DEF Mapped, WithNewline
<1>3. [i \in DOMAIN paths |-> Parts(Append(paths[i], Newline), paths[i])] = Mapped(InParts, paths)
  BY <1>1 DEF Mapped, InParts
<1>4. [i \in DOMAIN paths |-> Pieces(paths[i])] = Mapped(InPieces, paths)
  BY <1>1 DEF Mapped, InPieces
<1> QED BY <1>2, <1>3, <1>4 DEF Text, Lines, Broken

LEMMA StrippedIs ==
  ASSUME NEW lines \in Seq(Seq(Symbol))
  PROVE  Stripped(lines) = Mapped(Strip, lines)
<1>1. \A i \in DOMAIN lines : lines[i] \in Seq(Symbol)
  OBVIOUS
<1> QED BY <1>1 DEF Stripped, Mapped, Strip

LEMMA EmptyTexts == Text(<<>>) = <<>> /\ Lines(<<>>) = <<>> /\ Broken(<<>>) = <<>> /\ Stripped(<<>>) = <<>>
<1>1. <<>> \in Seq(Seq(Character)) /\ <<>> \in Seq(Seq(Symbol))
  OBVIOUS
<1>2. Text(<<>>) = <<>> /\ Lines(<<>>) = <<>> /\ Broken(<<>>) = <<>>
  BY <1>1, ListTexts, FlatMapEmpty
<1>3. Stripped(<<>>) = <<>>
  BY <1>1, StrippedIs, MapEmpty
<1> QED BY <1>2, <1>3

LEMMA TextsAppend ==
  ASSUME NEW paths \in Seq(Seq(Character)), NEW p \in Seq(Character)
  PROVE  /\ Append(paths, p) \in Seq(Seq(Character))
         /\ Text(paths) \in Seq(Symbol) /\ Lines(paths) \in Seq(Seq(Symbol))
         /\ Broken(paths) \in Seq(Seq(Character))
         /\ Text(Append(paths, p)) = Text(paths) \o Append(p, Newline)
         /\ Lines(Append(paths, p)) = Lines(paths) \o Parts(Append(p, Newline), p)
         /\ Broken(Append(paths, p)) = Broken(paths) \o Pieces(p)
<1>1. Append(paths, p) \in Seq(Seq(Character))
  OBVIOUS
<1>2. /\ WithNewline[p] = Append(p, Newline) /\ InParts[p] = Parts(Append(p, Newline), p)
      /\ InPieces[p] = Pieces(p)
  BY DEF WithNewline, InParts, InPieces
<1>3. /\ FlattenSeq(Mapped(WithNewline, paths)) \in Seq(Symbol)
      /\ FlattenSeq(Mapped(WithNewline, Append(paths, p)))
           = FlattenSeq(Mapped(WithNewline, paths)) \o WithNewline[p]
  BY ListMaps, FlatMapAppend
<1>4. /\ FlattenSeq(Mapped(InParts, paths)) \in Seq(Seq(Symbol))
      /\ FlattenSeq(Mapped(InParts, Append(paths, p))) = FlattenSeq(Mapped(InParts, paths)) \o InParts[p]
  <2>1. PICK C, T : C = Seq(Character) /\ T = Seq(Symbol)
    OBVIOUS
  <2>2. Maps(InParts, C, Seq(T)) /\ paths \in Seq(C) /\ p \in C
    BY <2>1, ListMaps
  <2>3. /\ FlattenSeq(Mapped(InParts, paths)) \in Seq(T)
        /\ FlattenSeq(Mapped(InParts, Append(paths, p))) = FlattenSeq(Mapped(InParts, paths)) \o InParts[p]
    BY <2>2, FlatMapAppend
  <2> QED BY <2>1, <2>3
<1>5. /\ FlattenSeq(Mapped(InPieces, paths)) \in Seq(Seq(Character))
      /\ FlattenSeq(Mapped(InPieces, Append(paths, p))) = FlattenSeq(Mapped(InPieces, paths)) \o InPieces[p]
  <2>1. PICK C : C = Seq(Character)
    OBVIOUS
  <2>2. Maps(InPieces, C, Seq(C)) /\ paths \in Seq(C) /\ p \in C
    BY <2>1, ListMaps
  <2>3. /\ FlattenSeq(Mapped(InPieces, paths)) \in Seq(C)
        /\ FlattenSeq(Mapped(InPieces, Append(paths, p))) = FlattenSeq(Mapped(InPieces, paths)) \o InPieces[p]
    BY <2>2, FlatMapAppend
  <2> QED BY <2>1, <2>3
<1>6. /\ Text(paths) = FlattenSeq(Mapped(WithNewline, paths))
      /\ Lines(paths) = FlattenSeq(Mapped(InParts, paths))
      /\ Broken(paths) = FlattenSeq(Mapped(InPieces, paths))
  BY ListTexts
<1>7. /\ Text(Append(paths, p)) = FlattenSeq(Mapped(WithNewline, Append(paths, p)))
      /\ Lines(Append(paths, p)) = FlattenSeq(Mapped(InParts, Append(paths, p)))
      /\ Broken(Append(paths, p)) = FlattenSeq(Mapped(InPieces, Append(paths, p)))
  BY <1>1, ListTexts
<1> QED BY <1>1, <1>2, <1>3, <1>4, <1>5, <1>6, <1>7

LEMMA PartsStripped ==
  ASSUME NEW p \in Seq(Character)
  PROVE  Mapped(Strip, Parts(Append(p, Newline), p)) = Pieces(p)
<1>1. PICK parts : parts = Parts(Append(p, Newline), p)
  OBVIOUS
<1>2. PICK pieces : pieces = Pieces(p)
  OBVIOUS
<1>3. /\ parts \in Seq(Seq(Symbol)) /\ pieces \in Seq(Seq(Character)) /\ Len(parts) = Len(pieces)
      /\ \A k \in 1 .. Len(parts) : Line(parts[k]) = pieces[k]
  BY <1>1, <1>2, PartsAre
<1>4. /\ Mapped(Strip, parts) \in Seq(Seq(Symbol)) /\ Len(Mapped(Strip, parts)) = Len(parts)
      /\ \A k \in 1 .. Len(parts) : parts[k] \in Seq(Symbol) /\ Mapped(Strip, parts)[k] = Strip[parts[k]]
  BY <1>3, ListMaps, MapIs
<1>5. \A k \in 1 .. Len(parts) : Mapped(Strip, parts)[k] = pieces[k]
  BY <1>3, <1>4 DEF Strip
<1>6. pieces \in Seq(Seq(Symbol))
  <2>1. Seq(Character) \subseteq Seq(Symbol)
    BY Symbols
  <2> QED BY <1>3, <2>1, SeqMonotonic
<1> QED BY <1>1, <1>2, <1>3, <1>4, <1>5, <1>6, SeqEqual

--------------------------------------------------------------------------------
(* The lines of a file that holds a list.                                  *)

GoodLines(paths) ==
  /\ Lines(paths) \in Seq(Seq(Symbol)) /\ Text(paths) \in Seq(Symbol)
  /\ \A k \in 1 .. Len(Lines(paths)) : IsLine(Lines(paths)[k])
  /\ FlattenSeq(Lines(paths)) = Text(paths)
  /\ Stripped(Lines(paths)) = Broken(paths)

LEMMA GoodLinesAppend ==
  ASSUME NEW paths \in Seq(Seq(Character)), NEW p \in Seq(Character), GoodLines(paths)
  PROVE  GoodLines(Append(paths, p))
<1>1. PICK l \in Seq(Seq(Symbol)), t \in Seq(Symbol) :
        /\ l = Lines(paths) /\ t = Text(paths) /\ FlattenSeq(l) = t /\ Stripped(l) = Broken(paths)
        /\ \A k \in 1 .. Len(l) : IsLine(l[k])
  BY DEF GoodLines
<1>2. PICK m \in Seq(Seq(Symbol)), u \in Seq(Symbol) :
        /\ m = Parts(Append(p, Newline), p) /\ u = Append(p, Newline) /\ FlattenSeq(m) = u
        /\ \A k \in 1 .. Len(m) : IsLine(m[k])
        /\ Mapped(Strip, m) = Pieces(p)
  <2>1. Append(p, Newline) \in Seq(Symbol)
    BY Symbols, Sizes, AppendProperties
  <2> QED BY <2>1, PartsAre, PartsJoin, PartsStripped
<1>3. /\ Text(Append(paths, p)) = t \o u
      /\ Lines(Append(paths, p)) = l \o m
      /\ Broken(Append(paths, p)) = Broken(paths) \o Pieces(p)
  BY <1>1, <1>2, TextsAppend
<1>4. /\ l \o m \in Seq(Seq(Symbol)) /\ Len(l \o m) = Len(l) + Len(m)
      /\ \A k \in 1 .. Len(l) + Len(m) : (l \o m)[k] = IF k <= Len(l) THEN l[k] ELSE m[k - Len(l)]
  BY ConcatProperties
<1>5. t \o u \in Seq(Symbol)
  BY ConcatProperties
<1>6. FlattenSeq(l \o m) = t \o u
  <2>1. FlattenSeq(l) = t /\ FlattenSeq(m) = u
    BY <1>1, <1>2
  <2>2. FlattenSeq(l \o m) = FlattenSeq(l) \o FlattenSeq(m)
    BY FlattenConcat, SMTT(30)
  <2> QED BY <2>1, <2>2
<1>7. ASSUME NEW k \in 1 .. Len(l \o m) PROVE IsLine((l \o m)[k])
  <2>1. Len(l) \in Nat /\ Len(m) \in Nat /\ k \in 1 .. Len(l) + Len(m)
    BY <1>4
  <2>2. CASE k <= Len(l)
    BY <1>1, <1>4, <2>1, <2>2
  <2>3. CASE ~(k <= Len(l))
    <3>1. k - Len(l) \in 1 .. Len(m)
      BY <2>1, <2>3
    <3> QED BY <1>2, <1>4, <2>1, <2>3, <3>1
  <2> QED BY <2>2, <2>3
<1>8. Stripped(l \o m) = Broken(paths) \o Pieces(p)
  <2>1. Mapped(Strip, l \o m) = Mapped(Strip, l) \o Mapped(Strip, m)
    BY ListMaps, MapConcat
  <2>2. Stripped(l \o m) = Mapped(Strip, l \o m) /\ Stripped(l) = Mapped(Strip, l)
    BY <1>4, StrippedIs
  <2> QED BY <1>1, <1>2, <2>1, <2>2
<1> QED BY <1>3, <1>4, <1>5, <1>6, <1>7, <1>8 DEF GoodLines

\* What has the empty list, and a longer list if it has the shorter, has every
\* list: the lists are those in H.
LEMMA ListInduction ==
  ASSUME NEW S, NEW H, <<>> \in H,
         \A s \in Seq(S), x \in S : s \in H => Append(s, x) \in H
  PROVE  \A s \in Seq(S) : s \in H
<1> SUFFICES ASSUME NEW s \in Seq(S) PROVE s \in H
  OBVIOUS
<1>1. PICK P : P = {n \in Nat : n <= Len(s) => SubSeq(s, 1, n) \in H}
  OBVIOUS
<1>2. 0 \in P
  <2>1. SubSeq(s, 1, 0) = <<>>
    BY SubSeqEmpty
  <2> QED BY <1>1, <2>1
<1>3. ASSUME NEW n \in Nat, n \in P PROVE n + 1 \in P
  <2> SUFFICES ASSUME n + 1 <= Len(s) PROVE SubSeq(s, 1, n + 1) \in H
    <3>1. n + 1 \in Nat
      OBVIOUS
    <3> QED BY <1>1, <3>1
  <2>1. n <= Len(s)
    OBVIOUS
  <2>2. PICK q \in Seq(S), x \in S : q = SubSeq(s, 1, n) /\ SubSeq(s, 1, n + 1) = Append(q, x)
    <3>1. SubSeq(s, 1, n) \in Seq(S) /\ s[n + 1] \in S /\ SubSeq(s, 1, n + 1) = Append(SubSeq(s, 1, n), s[n + 1])
      BY PrefixAppend
    <3> QED BY <3>1
  <2>3. q \in H
    BY <1>1, <1>3, <2>1, <2>2
  <2> QED BY <2>2, <2>3
<1>4. Len(s) \in P
  <2>1. Len(s) \in Nat
    OBVIOUS
  <2> QED BY <1>2, <1>3, <2>1, Induction
<1>5. SubSeq(s, 1, Len(s)) = s
  BY SubSeqFull
<1>6. Len(s) \in Nat /\ Len(s) <= Len(s)
  OBVIOUS
<1>7. SubSeq(s, 1, Len(s)) \in H
  BY <1>1, <1>4, <1>6
<1> QED BY <1>5, <1>7

LEMMA EveryLineGood ==
  ASSUME NEW paths \in Seq(Seq(Character))
  PROVE  GoodLines(paths)
<1>1. PICK H : H = {s \in Seq(Seq(Character)) : GoodLines(s)}
  OBVIOUS
<1>2. <<>> \in H
  <2>1. GoodLines(<<>>)
    <3>1. <<>> \in Seq(Seq(Symbol)) /\ <<>> \in Seq(Symbol) /\ 1 .. Len(<<>>) = {}
      OBVIOUS
    <3> QED BY <3>1, EmptyTexts, FlattenEmpty DEF GoodLines
  <2>2. <<>> \in Seq(Seq(Character))
    OBVIOUS
  <2> QED BY <1>1, <2>1, <2>2
<1>3. ASSUME NEW s \in Seq(Seq(Character)), NEW x \in Seq(Character), s \in H PROVE Append(s, x) \in H
  <2>1. GoodLines(s) /\ Append(s, x) \in Seq(Seq(Character))
    BY <1>1, <1>3
  <2>2. GoodLines(Append(s, x))
    BY <2>1, GoodLinesAppend
  <2> QED BY <1>1, <2>1, <2>2
<1>4. paths \in H
  BY <1>2, <1>3, ListInduction
<1> QED BY <1>1, <1>4

\* A path that leaves room in the buffer is one line.
LEMMA ShortPath ==
  ASSUME NEW p \in Seq(Character), Len(p) < LineMax
  PROVE  Parts(Append(p, Newline), p) = <<Append(p, Newline)>> /\ Pieces(p) = <<p>>
<1>1. PICK t \in Seq(Symbol) : t = Append(p, Newline) /\ Len(t) = Len(p) + 1
  BY Symbols, Sizes, AppendProperties
<1>2. Len(p) \in Nat /\ p \in Seq(Symbol)
  BY Symbols
<1>3. Count(p) = 1
  <2>1. \A n \in Nat : n < LineMax => n \div LineMax = 0
    BY Sizes
  <2> QED BY <1>2, <2>1 DEF Count
<1>4. Parts(t, p)[1] = SubSeq(t, 1, Len(t))
  <2>1. 1 \in 1 .. Count(p)
    BY <1>3
  <2>2. Parts(t, p)[1] = SubSeq(t, (1 - 1) * LineMax + 1, End(p, 1))
    BY <1>1, <2>1, PartIs
  <2>3. (1 - 1) * LineMax + 1 = 1 /\ End(p, 1) = Len(t)
    BY <1>1, <1>3, Sizes DEF End
  <2> QED BY <2>2, <2>3
<1>5. /\ Parts(t, p) \in Seq(Seq(Symbol)) /\ Len(Parts(t, p)) = 1
      /\ Pieces(p) \in Seq(Seq(Character)) /\ Len(Pieces(p)) = 1
      /\ Line(Parts(t, p)[1]) = Pieces(p)[1]
  <2>1. 1 \in 1 .. Count(p)
    BY <1>3
  <2>2. Parts(t, p) \in Seq(Seq(Symbol)) /\ Len(Parts(t, p)) = 1
    BY <1>1, <1>3, PartsAre
  <2>3. Pieces(p) \in Seq(Seq(Character)) /\ Len(Pieces(p)) = 1
    BY <1>1, <1>3, PartsAre
  <2>4. Line(Parts(t, p)[1]) = Pieces(p)[1]
    BY <1>1, <2>1, PartsAre
  <2> QED BY <2>2, <2>3, <2>4
<1>6. SubSeq(t, 1, Len(t)) = t
  BY SubSeqFull
<1>7. Line(t) = p
  <2>1. t[Len(t)] = Newline
    BY <1>1, <1>2, Symbols, Sizes, AppendProperties
  <2>2. SubSeq(t, 1, Len(t) - 1) = p
    <3>1. 0 + 1 = 1 /\ Len(t) - 1 = Len(p) /\ 0 <= Len(p) /\ Len(p) <= Len(t) /\ Len(p) - 0 = Len(p)
          /\ \A j \in 1 .. Len(p) : 0 + j = j
      BY <1>1, <1>2
    <3>2. /\ SubSeq(t, 0 + 1, Len(p)) \in Seq(Symbol) /\ Len(SubSeq(t, 0 + 1, Len(p))) = Len(p) - 0
          /\ \A j \in 1 .. Len(p) - 0 : SubSeq(t, 0 + 1, Len(p))[j] = t[0 + j]
      BY <1>2, <3>1, SubSeqIs
    <3>3. PICK u : u = SubSeq(t, 1, Len(p))
      OBVIOUS
    <3>4. \A j \in 1 .. Len(p) : t[j] = p[j]
      BY <1>1, <1>2, Sizes, AppendProperties
    <3>5. u \in Seq(Symbol) /\ Len(u) = Len(p) /\ \A j \in 1 .. Len(p) : u[j] = p[j]
      BY <3>1, <3>2, <3>3, <3>4
    <3>6. u = p
      BY <1>2, <3>5, SeqEqual
    <3> QED BY <3>1, <3>3, <3>6
  <2> QED BY <2>1, <2>2 DEF Line, Last, Front
<1>8. Parts(t, p)[1] = t /\ Pieces(p)[1] = p
  BY <1>4, <1>5, <1>6, <1>7
<1>9. \A S : \A s \in Seq(S) : Len(s) = 1 => s = <<s[1]>>
  OBVIOUS
<1> QED BY <1>1, <1>5, <1>8, <1>9

AllShort(paths) == \A i \in DOMAIN paths : Len(paths[i]) < LineMax

\* A list of such paths has a line for each of them.
LEMMA ShortLines ==
  ASSUME NEW paths \in Seq(Seq(Character)), AllShort(paths)
  PROVE  Lines(paths) = Mapped(WithNewline, paths) /\ Broken(paths) = paths
<1>1. PICK H : H = {s \in Seq(Seq(Character)) :
                      AllShort(s) => Lines(s) = Mapped(WithNewline, s) /\ Broken(s) = s}
  OBVIOUS
<1>2. <<>> \in H
  <2>1. <<>> \in Seq(Seq(Character))
    OBVIOUS
  <2>2. Lines(<<>>) = Mapped(WithNewline, <<>>) /\ Broken(<<>>) = <<>>
    BY EmptyTexts, MapEmpty
  <2> QED BY <1>1, <2>1, <2>2
<1>3. ASSUME NEW s \in Seq(Seq(Character)), NEW x \in Seq(Character), s \in H PROVE Append(s, x) \in H
  <2>1. Append(s, x) \in Seq(Seq(Character))
    OBVIOUS
  <2>2. ASSUME AllShort(Append(s, x))
        PROVE  Lines(Append(s, x)) = Mapped(WithNewline, Append(s, x)) /\ Broken(Append(s, x)) = Append(s, x)
    <3>1. AllShort(s) /\ Len(x) < LineMax
      <4>1. /\ Len(s) \in Nat /\ Len(Append(s, x)) = Len(s) + 1 /\ Append(s, x)[Len(s) + 1] = x
            /\ \A i \in 1 .. Len(s) : Append(s, x)[i] = s[i]
            /\ DOMAIN s = 1 .. Len(s) /\ DOMAIN Append(s, x) = 1 .. Len(s) + 1
        BY AppendProperties
      <4>2. Len(s) + 1 \in 1 .. Len(s) + 1 /\ \A i \in 1 .. Len(s) : i \in 1 .. Len(s) + 1
        BY <4>1
      <4>3. PICK a : a = Append(s, x)
        OBVIOUS
      <4>4. \A i \in 1 .. Len(s) + 1 : Len(a[i]) < LineMax
        BY <2>2, <4>1, <4>3 DEF AllShort
      <4> QED BY <4>1, <4>2, <4>3, <4>4 DEF AllShort
    <3>2. Lines(s) = Mapped(WithNewline, s) /\ Broken(s) = s
      BY <1>1, <1>3, <3>1
    <3>3. /\ Lines(Append(s, x)) = Lines(s) \o Parts(Append(x, Newline), x)
          /\ Broken(Append(s, x)) = Broken(s) \o Pieces(x)
      BY TextsAppend
    <3>4. Parts(Append(x, Newline), x) = <<Append(x, Newline)>> /\ Pieces(x) = <<x>>
      BY <3>1, ShortPath
    <3>5. Mapped(WithNewline, Append(s, x)) = Append(Mapped(WithNewline, s), WithNewline[x])
      BY ListMaps, MapAppend
    <3>6. WithNewline[x] = Append(x, Newline)
      BY DEF WithNewline
    <3>7. PICK l \in Seq(Seq(Symbol)), y \in Seq(Symbol) : l = Mapped(WithNewline, s) /\ y = WithNewline[x]
      BY ListMaps, MapIs, MapValue
    <3>8. Append(l, y) = l \o <<y>> /\ Append(s, x) = s \o <<x>>
      BY AppendIsConcat
    <3> QED BY <3>2, <3>3, <3>4, <3>5, <3>6, <3>7, <3>8
  <2> QED BY <1>1, <2>1, <2>2
<1>4. paths \in H
  BY <1>2, <1>3, ListInduction
<1> QED BY <1>1, <1>4

--------------------------------------------------------------------------------
(* The list keeps the latest of what is added at its end.                  *)

Dropped(n) == IF n > MaxPlayListLen THEN n - MaxPlayListLen ELSE 0

LEMMA LatestIs ==
  ASSUME NEW S, NEW r \in Seq(S), NEW d, d = Dropped(Len(r))
  PROVE  /\ d \in Nat /\ d <= Len(r) /\ Len(r) - d <= MaxPlayListLen
         /\ Latest(r) = SubSeq(r, d + 1, Len(r))
         /\ Latest(r) \in Seq(S) /\ Len(Latest(r)) = Len(r) - d
         /\ \A j \in 1 .. Len(r) - d : Latest(r)[j] = r[d + j]
<1>1. Len(r) \in Nat /\ d \in Nat /\ d <= Len(r) /\ Len(r) <= Len(r) /\ Len(r) - d <= MaxPlayListLen
      /\ d + 1 = IF Len(r) > MaxPlayListLen THEN Len(r) - MaxPlayListLen + 1 ELSE 1
  BY Sizes DEF Dropped
<1>2. Latest(r) = SubSeq(r, d + 1, Len(r))
  BY <1>1 DEF Latest
<1>3. /\ SubSeq(r, d + 1, Len(r)) \in Seq(S) /\ Len(SubSeq(r, d + 1, Len(r))) = Len(r) - d
      /\ \A j \in 1 .. Len(r) - d : SubSeq(r, d + 1, Len(r))[j] = r[d + j]
  BY <1>1, SubSeqIs
<1> QED BY <1>1, <1>2, <1>3

\* The list behind a path added at its end.
Added(paths, path) == Append(IF Len(paths) = MaxPlayListLen THEN Tail(paths) ELSE paths, path)

LEMMA LatestAppend ==
  ASSUME NEW S, NEW r \in Seq(S), NEW x \in S
  PROVE  Latest(Append(r, x)) = Added(Latest(r), x)
<1>0. PICK a, n, c, d, e, l :
        /\ a = Append(r, x) /\ n = Len(r) /\ c = Dropped(n) /\ d = Dropped(n + 1)
        /\ e = Latest(r) /\ l = Latest(a)
  OBVIOUS
<1>1. n \in Nat /\ c \in Nat /\ d \in Nat /\ c <= n /\ n - c <= MaxPlayListLen
  BY <1>0, Sizes DEF Dropped
<1>2. a \in Seq(S) /\ Len(a) = n + 1 /\ a[n + 1] = x /\ \A i \in 1 .. n : a[i] = r[i]
  BY <1>0, AppendProperties
<1>3. e \in Seq(S) /\ Len(e) = n - c /\ \A j \in 1 .. n - c : e[j] = r[c + j]
  BY <1>0, LatestIs
<1>4. l \in Seq(S) /\ Len(l) = n + 1 - d /\ \A j \in 1 .. n + 1 - d : l[j] = a[d + j]
  <2>1. a \in Seq(S) /\ d = Dropped(Len(a)) /\ Len(a) = n + 1 /\ l = Latest(a)
    BY <1>0, <1>2
  <2>2. /\ Latest(a) \in Seq(S) /\ Len(Latest(a)) = Len(a) - d
        /\ \A j \in 1 .. Len(a) - d : Latest(a)[j] = a[d + j]
    BY <2>1, LatestIs
  <2>3. l = Latest(a)
    BY <1>0
  <2>4. PICK k : k = n + 1 - d
    OBVIOUS
  <2>5. k = Len(a) - d
    BY <1>1, <1>2, <2>4
  <2>6. l \in Seq(S) /\ Len(l) = k /\ \A j \in 1 .. k : l[j] = a[d + j]
    BY <2>2, <2>3, <2>5
  <2> QED BY <2>4, <2>6
<1>5. d <= n /\ IF n - c = MaxPlayListLen THEN d = c + 1 /\ n - c >= 1 ELSE d = c
  BY <1>0, <1>1, Sizes DEF Dropped
<1>6. PICK b : b = IF Len(e) = MaxPlayListLen THEN Tail(e) ELSE e
  OBVIOUS
<1>7. b \in Seq(S) /\ Len(b) = n - d /\ \A j \in 1 .. n - d : b[j] = r[d + j]
  <2>1. CASE Len(e) = MaxPlayListLen
    <3>1. d = c + 1 /\ n - c >= 1 /\ n - c - 1 = n - d
      BY <1>1, <1>3, <1>5, <2>1
    <3>2. Tail(e) \in Seq(S) /\ Len(Tail(e)) = n - d /\ \A j \in 1 .. n - d : Tail(e)[j] = e[j + 1]
      <4>1. Tail(e) \in Seq(S) /\ Len(Tail(e)) = Len(e) - 1 /\ \A j \in 1 .. Len(e) - 1 : Tail(e)[j] = e[j + 1]
        BY <1>1, <1>3, <3>1
      <4> QED BY <1>3, <3>1, <4>1
    <3>3. \A j \in 1 .. n - d : j + 1 \in 1 .. n - c /\ c + (j + 1) = d + j
      BY <1>1, <3>1
    <3> QED BY <1>3, <1>6, <2>1, <3>2, <3>3
  <2>2. CASE Len(e) # MaxPlayListLen
    <3>1. d = c
      BY <1>3, <1>5, <2>2
    <3> QED BY <1>3, <1>6, <2>2, <3>1
  <2> QED BY <2>1, <2>2
<1>8. PICK f : f = Append(b, x)
  OBVIOUS
<1>9. PICK m \in Nat : m = n - d
  BY <1>1, <1>5
<1>10. f \in Seq(S) /\ Len(f) = m + 1 /\ f[m + 1] = x /\ \A j \in 1 .. m : f[j] = b[j]
  BY <1>7, <1>8, <1>9, AppendProperties
<1>11. ASSUME NEW j \in 1 .. m + 1 PROVE l[j] = f[j]
  <2>0. n + 1 - d = m + 1
    BY <1>1, <1>9
  <2>1. CASE j \in 1 .. m
    <3>1. d + j \in 1 .. n
      BY <1>1, <1>9, <2>1
    <3> QED BY <1>2, <1>4, <1>7, <1>9, <1>10, <2>0, <2>1, <3>1
  <2>2. CASE j \notin 1 .. m
    <3>1. j = m + 1 /\ d + j = n + 1
      BY <1>1, <1>9, <2>2
    <3> QED BY <1>2, <1>4, <1>10, <2>0, <3>1
  <2> QED BY <2>1, <2>2
<1>12. n + 1 - d = m + 1
  BY <1>1, <1>9
<1>13. l = f
  BY <1>4, <1>10, <1>11, <1>12, SeqEqual
<1> QED BY <1>0, <1>6, <1>8, <1>13 DEF Added

LEMMA LatestEmpty == Latest(<<>>) = <<>>
<1>1. Len(<<>>) = 0 /\ ~(0 > MaxPlayListLen)
  BY Sizes
<1>2. SubSeq(<<>>, 1, 0) = <<>>
  BY SubSeqEmpty
<1> QED BY <1>1, <1>2 DEF Latest

\* A list that is not too long keeps all of it.
LEMMA LatestAll ==
  ASSUME NEW S, NEW r \in Seq(S), Len(r) <= MaxPlayListLen
  PROVE  Latest(r) = r
<1>1. ~(Len(r) > MaxPlayListLen)
  BY Sizes
<1> QED BY <1>1, SubSeqFull DEF Latest

LEMMA AddedType ==
  ASSUME NEW S, NEW s \in Seq(S), NEW x \in S, Len(s) <= MaxPlayListLen
  PROVE  Added(s, x) \in Seq(S) /\ Len(Added(s, x)) <= MaxPlayListLen
<1>1. CASE Len(s) = MaxPlayListLen
  <2>1. Tail(s) \in Seq(S) /\ Len(Tail(s)) = Len(s) - 1 /\ Len(s) \in Nat /\ Len(s) >= 1
    BY <1>1, Sizes
  <2> QED BY <1>1, <2>1, AppendProperties DEF Added
<1>2. CASE Len(s) # MaxPlayListLen
  <2>1. Len(s) \in Nat /\ Len(s) + 1 <= MaxPlayListLen
    BY <1>2, Sizes
  <2> QED BY <1>2, <2>1, AppendProperties DEF Added
<1> QED BY <1>1, <1>2

--------------------------------------------------------------------------------
(* Beginnings.                                                             *)

LEMMA SplitAt ==
  ASSUME NEW S, NEW s \in Seq(S), NEW n \in Nat, n <= Len(s)
  PROVE  /\ SubSeq(s, 1, n) \in Seq(S) /\ Len(SubSeq(s, 1, n)) = n
         /\ SubSeq(s, n + 1, Len(s)) \in Seq(S) /\ Len(SubSeq(s, n + 1, Len(s))) = Len(s) - n
         /\ s = SubSeq(s, 1, n) \o SubSeq(s, n + 1, Len(s))
<1>1. PICK a, b, m : a = SubSeq(s, 1, n) /\ b = SubSeq(s, n + 1, Len(s)) /\ m = Len(s)
  OBVIOUS
<1>2. m \in Nat /\ n <= m /\ m <= Len(s) /\ 0 <= n /\ 0 + 1 = 1 /\ n - 0 = n /\ \A j \in 1 .. n : 0 + j = j
  BY <1>1
<1>3. a \in Seq(S) /\ Len(a) = n /\ \A j \in 1 .. n : a[j] = s[j]
  <2>1. /\ SubSeq(s, 0 + 1, n) \in Seq(S) /\ Len(SubSeq(s, 0 + 1, n)) = n - 0
        /\ \A j \in 1 .. n - 0 : SubSeq(s, 0 + 1, n)[j] = s[0 + j]
    BY <1>2, SubSeqIs
  <2> QED BY <1>1, <1>2, <2>1
<1>4. b \in Seq(S) /\ Len(b) = m - n /\ \A j \in 1 .. m - n : b[j] = s[n + j]
  <2>1. /\ SubSeq(s, n + 1, m) \in Seq(S) /\ Len(SubSeq(s, n + 1, m)) = m - n
        /\ \A j \in 1 .. m - n : SubSeq(s, n + 1, m)[j] = s[n + j]
    BY <1>2, SubSeqIs
  <2> QED BY <1>1, <2>1
<1>5. PICK c : c = a \o b
  OBVIOUS
<1>6. c \in Seq(S) /\ Len(c) = n + (m - n)
      /\ \A i \in 1 .. n + (m - n) : c[i] = IF i <= n THEN a[i] ELSE b[i - n]
  <2>1. a \in Seq(S) /\ b \in Seq(S) /\ Len(a) = n /\ Len(b) = m - n
    BY <1>3, <1>4
  <2>2. /\ a \o b \in Seq(S) /\ Len(a \o b) = Len(a) + Len(b)
        /\ \A i \in 1 .. Len(a) + Len(b) : (a \o b)[i] = IF i <= Len(a) THEN a[i] ELSE b[i - Len(a)]
    BY <2>1, ConcatProperties
  <2> QED BY <1>5, <2>1, <2>2
<1>7. n + (m - n) = m
  BY <1>2
<1>8. ASSUME NEW i \in 1 .. m PROVE c[i] = s[i]
  <2>1. CASE i <= n
    <3>1. i \in 1 .. n
      BY <2>1
    <3> QED BY <1>3, <1>6, <1>7, <2>1, <3>1
  <2>2. CASE ~(i <= n)
    <3>1. i - n \in 1 .. m - n /\ n + (i - n) = i
      BY <1>2, <2>2
    <3> QED BY <1>4, <1>6, <1>7, <2>2, <3>1
  <2> QED BY <2>1, <2>2
<1>9. c = s
  BY <1>1, <1>2, <1>6, <1>7, <1>8, SeqEqual
<1> QED BY <1>1, <1>3, <1>4, <1>5, <1>9

LEMMA PrefixIs ==
  ASSUME NEW S, NEW s \in Seq(S), NEW t \in Seq(S)
  PROVE  IsPrefix(s, t) <=> Len(s) <= Len(t) /\ \A i \in 1 .. Len(s) : s[i] = t[i]
<1>1. PICK n : n = Len(s)
  OBVIOUS
<1>2. n \in Nat /\ Len(t) \in Nat
  BY <1>1
<1>3. SubSeq(s, 1, n) = s
  BY <1>1, SubSeqFull
<1>4. CASE n <= Len(t)
  <2>1. SubSeq(t, 1, n) \in Seq(S) /\ Len(SubSeq(t, 1, n)) = n /\ \A j \in 1 .. n : SubSeq(t, 1, n)[j] = t[j]
    <3>1. /\ SubSeq(t, 0 + 1, n) \in Seq(S) /\ Len(SubSeq(t, 0 + 1, n)) = n - 0
          /\ \A j \in 1 .. n - 0 : SubSeq(t, 0 + 1, n)[j] = t[0 + j]
      <4>1. 0 <= n /\ 0 \in Nat
        BY <1>2
      <4> QED BY <1>2, <1>4, <4>1, SubSeqIs
    <3>2. 0 + 1 = 1 /\ n - 0 = n /\ \A j \in 1 .. n : 0 + j = j
      BY <1>2
    <3> QED BY <3>1, <3>2
  <2>2. PICK u : u = SubSeq(t, 1, n)
    OBVIOUS
  <2>3. s = u <=> \A j \in 1 .. n : s[j] = u[j]
    BY <1>1, <2>1, <2>2, SeqEqual
  <2> QED BY <1>1, <1>3, <1>4, <2>1, <2>2, <2>3 DEF IsPrefix
<1>5. CASE ~(n <= Len(t))
  BY <1>1, <1>5 DEF IsPrefix
<1> QED BY <1>4, <1>5

LEMMA PrefixOfJoin ==
  ASSUME NEW S, NEW s \in Seq(S), NEW t \in Seq(S)
  PROVE  IsPrefix(s, s \o t) /\ s \o t \in Seq(S) /\ Len(s \o t) = Len(s) + Len(t)
<1>1. PICK c : c = s \o t
  OBVIOUS
<1>2. c \in Seq(S) /\ Len(c) = Len(s) + Len(t) /\ Len(s) \in Nat /\ Len(t) \in Nat
      /\ \A i \in 1 .. Len(s) + Len(t) : c[i] = IF i <= Len(s) THEN s[i] ELSE t[i - Len(s)]
  BY <1>1, ConcatProperties
<1>3. Len(s) <= Len(c) /\ \A i \in 1 .. Len(s) : i \in 1 .. Len(s) + Len(t) /\ i <= Len(s)
  BY <1>2
<1>4. \A i \in 1 .. Len(s) : s[i] = c[i]
  BY <1>2, <1>3
<1>5. IsPrefix(s, c)
  BY <1>2, <1>3, <1>4, PrefixIs
<1> QED BY <1>1, <1>2, <1>5

LEMMA PrefixTransitive ==
  ASSUME NEW S, NEW s \in Seq(S), NEW t \in Seq(S), NEW u \in Seq(S), IsPrefix(s, t), IsPrefix(t, u)
  PROVE  IsPrefix(s, u)
<1>1. Len(s) <= Len(t) /\ \A i \in 1 .. Len(s) : s[i] = t[i]
  BY PrefixIs
<1>2. Len(t) <= Len(u) /\ \A i \in 1 .. Len(t) : t[i] = u[i]
  BY PrefixIs
<1>3. Len(s) <= Len(u) /\ \A i \in 1 .. Len(s) : i \in 1 .. Len(t)
  BY <1>1, <1>2
<1> QED BY <1>1, <1>2, <1>3, PrefixIs

LEMMA PrefixItself ==
  ASSUME NEW S, NEW s \in Seq(S)
  PROVE  IsPrefix(s, s)
<1>1. Len(s) <= Len(s) /\ \A i \in 1 .. Len(s) : s[i] = s[i]
  OBVIOUS
<1> QED BY <1>1, PrefixIs

\* The text of the first n sequences is a beginning of the text of them all.
LEMMA FirstOfRest ==
  ASSUME NEW S, NEW s \in Seq(Seq(S)), NEW n \in 0 .. Len(s)
  PROVE  /\ FirstOf(s, n) \in Seq(S)
         /\ \E rest \in Seq(S) : FlattenSeq(s) = FirstOf(s, n) \o rest /\ (n = Len(s) => rest = <<>>)
<1>1. PICK a, b : a = SubSeq(s, 1, n) /\ b = SubSeq(s, n + 1, Len(s))
  OBVIOUS
<1>2. a \in Seq(Seq(S)) /\ b \in Seq(Seq(S)) /\ s = a \o b /\ Len(b) = Len(s) - n
  <2>1. n \in Nat /\ n <= Len(s)
    OBVIOUS
  <2>2. PICK T : T = Seq(S)
    OBVIOUS
  <2>3. s \in Seq(T)
    BY <2>2
  <2> QED BY <1>1, <2>1, <2>2, <2>3, SplitAt
<1>3. FlattenSeq(a) \in Seq(S) /\ FlattenSeq(b) \in Seq(S) /\ FlattenSeq(a \o b) = FlattenSeq(a) \o FlattenSeq(b)
  BY <1>2, FlattenType, FlattenConcat
<1>4. n = Len(s) => FlattenSeq(b) = <<>>
  <2>1. n = Len(s) => b = <<>>
    BY <1>2
  <2> QED BY <2>1, FlattenEmpty
<1>5. FirstOf(s, n) = FlattenSeq(a)
  BY <1>1 DEF FirstOf
<1>6. FlattenSeq(s) = FlattenSeq(a) \o FlattenSeq(b)
  BY <1>2, <1>3
<1> QED BY <1>3, <1>4, <1>5, <1>6

LEMMA LineFits ==
  ASSUME NEW S, NEW s \in Seq(Seq(S)), NEW n \in 0 .. Len(s), n # Len(s)
  PROVE  /\ n + 1 \in 1 .. Len(s) /\ n \in Nat /\ s[n + 1] \in Seq(S)
         /\ FirstOf(s, n) \in Seq(S) /\ FlattenSeq(s) \in Seq(S)
         /\ FirstOf(s, n + 1) = FirstOf(s, n) \o s[n + 1]
         /\ IsPrefix(FirstOf(s, n + 1), FlattenSeq(s))
         /\ Len(FirstOf(s, n)) + Len(s[n + 1]) <= Len(FlattenSeq(s))
<1>1. n + 1 \in 1 .. Len(s) /\ n + 1 \in 0 .. Len(s) /\ n \in Nat /\ n + 1 <= Len(s) /\ s[n + 1] \in Seq(S)
  OBVIOUS
<1>2. PICK f, g, x, t : f = FirstOf(s, n) /\ g = FirstOf(s, n + 1) /\ x = s[n + 1] /\ t = FlattenSeq(s)
  OBVIOUS
<1>3. f \in Seq(S) /\ x \in Seq(S) /\ t \in Seq(S)
  BY <1>1, <1>2, FirstOfRest, FlattenType
<1>4. g = f \o x
  BY <1>1, <1>2, FirstOfNext
<1>5. g \in Seq(S) /\ Len(g) = Len(f) + Len(x)
  BY <1>3, <1>4, PrefixOfJoin
<1>6. PICK rest \in Seq(S) : t = g \o rest
  BY <1>1, <1>2, FirstOfRest
<1>7. IsPrefix(g, t)
  BY <1>3, <1>5, <1>6, PrefixOfJoin
<1>8. Len(g) <= Len(t)
  BY <1>3, <1>5, <1>7, PrefixIs
<1> QED BY <1>1, <1>2, <1>3, <1>4, <1>5, <1>7, <1>8

\* What has not been read of a file begins with the next line, or is a beginning
\* of it.
LEMMA NextLine ==
  ASSUME NEW S, NEW s \in Seq(Seq(S)), NEW n \in 0 .. Len(s), NEW u \in Seq(S), u # <<>>,
         IsPrefix(FirstOf(s, n) \o u, FlattenSeq(s))
  PROVE  /\ n # Len(s)
         /\ \A j \in 1 .. Len(u) : j <= Len(s[n + 1]) => u[j] = s[n + 1][j]
<1>1. PICK f \in Seq(S), t \in Seq(S) : f = FirstOf(s, n) /\ t = FlattenSeq(s)
  BY FirstOfRest, FlattenType
<1>2. PICK c : c = f \o u
  OBVIOUS
<1>3. c \in Seq(S) /\ Len(c) = Len(f) + Len(u) /\ Len(f) \in Nat /\ Len(u) \in Nat
      /\ \A i \in 1 .. Len(f) + Len(u) : c[i] = IF i <= Len(f) THEN f[i] ELSE u[i - Len(f)]
  BY <1>2, ConcatProperties
<1>4. Len(c) <= Len(t) /\ \A i \in 1 .. Len(c) : c[i] = t[i]
  <2>1. c \in Seq(S) /\ t \in Seq(S)
    BY <1>1, <1>3
  <2>2. IsPrefix(c, t)
    BY <1>1, <1>2
  <2> QED BY <2>1, <2>2, PrefixIs
<1>5. n # Len(s)
  <2> SUFFICES ASSUME n = Len(s) PROVE FALSE
    OBVIOUS
  <2>1. f = t
    BY <1>1, FirstOfAll
  <2>2. Len(u) > 0
    BY <1>3
  <2> QED BY <1>3, <1>4, <2>1, <2>2
<1>6. PICK g \in Seq(S), x \in Seq(S) : x = s[n + 1] /\ g = f \o x /\ IsPrefix(g, t)
  <2>1. FirstOf(s, n) \o s[n + 1] \in Seq(S)
    BY <1>5, LineFits, PrefixOfJoin
  <2> QED BY <1>1, <1>5, <2>1, LineFits
<1>7. Len(g) = Len(f) + Len(x) /\ Len(x) \in Nat
      /\ \A i \in 1 .. Len(f) + Len(x) : g[i] = IF i <= Len(f) THEN f[i] ELSE x[i - Len(f)]
  BY <1>6, ConcatProperties
<1>8. \A i \in 1 .. Len(g) : g[i] = t[i]
  <2>1. g \in Seq(S) /\ t \in Seq(S) /\ IsPrefix(g, t)
    BY <1>1, <1>6
  <2> QED BY <2>1, PrefixIs
<1>9. ASSUME NEW j \in 1 .. Len(u), j <= Len(x) PROVE u[j] = x[j]
  <2>1. PICK i : i = Len(f) + j
    OBVIOUS
  <2>2. i \in 1 .. Len(f) + Len(u) /\ i \in 1 .. Len(f) + Len(x) /\ ~(i <= Len(f)) /\ i - Len(f) = j
    BY <1>3, <1>7, <1>9, <2>1
  <2>3. c[i] = u[j] /\ g[i] = x[j]
    BY <1>3, <1>7, <2>2
  <2>4. c[i] = t[i] /\ g[i] = t[i]
    BY <1>3, <1>4, <1>7, <1>8, <2>2
  <2> QED BY <2>3, <2>4
<1> QED BY <1>5, <1>6, <1>9

--------------------------------------------------------------------------------
(* What fgets takes.                                                       *)

LEMMA LineIs ==
  ASSUME NEW line, IsLine(line)
  PROVE  /\ line \in Seq(Symbol) /\ Len(line) \in Nat /\ Len(line) >= 1 /\ Len(line) <= LineMax /\ line # <<>>
         /\ Line(line) \in Seq(Character)
<1>1. PICK n : n = Len(line)
  OBVIOUS
<1>2. /\ line \in Seq(Symbol) /\ n \in Nat /\ n >= 1 /\ n <= LineMax /\ line # <<>> /\ n - 1 \in Nat
      /\ \A j \in 1 .. n - 1 : line[j] \in Character
      /\ line[n] = Newline \/ line[n] \in Character
  BY <1>1, Sizes DEF IsLine
<1>3. Line(line) \in Seq(Character)
  <2>1. CASE line[n] = Newline
    <3>1. SubSeq(line, 1, n - 1) \in Seq(Character)
      <4>1. 1 \in Int /\ n - 1 \in Int
        BY <1>2
      <4>2. \A i \in 1 .. n - 1 : line[i] \in Character
        BY <1>2
      <4> QED BY <4>1, <4>2, SubSeqProperties
    <3> QED BY <1>1, <2>1, <3>1 DEF Line, Last, Front
  <2>2. CASE line[n] # Newline
    <3>1. ASSUME NEW j \in 1 .. n PROVE line[j] \in Character
      <4>1. j = n \/ j \in 1 .. n - 1
        BY <1>2
      <4>2. line[n] \in Character
        BY <1>2, <2>2
      <4> QED BY <1>2, <4>1, <4>2
    <3>2. line = [j \in 1 .. n |-> line[j]]
      BY <1>1, <1>2
    <3>3. [j \in 1 .. n |-> line[j]] \in [1 .. n -> Character]
      BY <3>1
    <3>4. line \in Seq(Character)
      BY <1>2, <3>2, <3>3, FunctionIsSeq
    <3> QED BY <1>1, <2>2, <3>4 DEF Line, Last
  <2> QED BY <2>1, <2>2
<1> QED BY <1>1, <1>2, <1>3

Ends(text) == {LineMax, Len(text)} \cup {i \in DOMAIN text : text[i] = Newline}

LEMMA EndsAre ==
  ASSUME NEW text \in Seq(Symbol)
  PROVE  /\ Taken(text) = Min(Ends(text)) /\ Ends(text) \in SUBSET Nat
         /\ \A e \in Ends(text) : e = LineMax \/ e = Len(text) \/ (e \in 1 .. Len(text) /\ text[e] = Newline)
         /\ LineMax \in Ends(text) /\ Len(text) \in Ends(text)
         /\ \A i \in 1 .. Len(text) : text[i] = Newline => i \in Ends(text)
<1>1. DOMAIN text = 1 .. Len(text) /\ Len(text) \in Nat /\ LineMax \in Nat
  BY Sizes
<1>2. Taken(text) = Min(Ends(text))
  BY DEF Taken, Ends
<1>3. /\ \A e \in Ends(text) : e = LineMax \/ e = Len(text) \/ (e \in 1 .. Len(text) /\ text[e] = Newline)
      /\ LineMax \in Ends(text) /\ Len(text) \in Ends(text)
      /\ \A i \in 1 .. Len(text) : text[i] = Newline => i \in Ends(text)
  BY <1>1 DEF Ends
<1>4. Ends(text) \in SUBSET Nat
  <2>1. \A e \in Ends(text) : e \in Nat
    <3> SUFFICES ASSUME NEW e \in Ends(text) PROVE e \in Nat
      OBVIOUS
    <3>1. e = LineMax \/ e = Len(text) \/ e \in 1 .. Len(text)
      BY <1>3
    <3> QED BY <1>1, <3>1
  <2> QED BY <2>1
<1> QED BY <1>2, <1>3, <1>4

\* A whole line.
LEMMA TakenLine ==
  ASSUME NEW text \in Seq(Symbol), NEW line, IsLine(line), Len(line) <= Len(text),
         \A j \in 1 .. Len(text) : j <= Len(line) => text[j] = line[j]
  PROVE  /\ Taken(text) = Len(line) /\ SubSeq(text, 1, Taken(text)) = line
         /\ SubSeq(text, Taken(text) + 1, Len(text)) \in Seq(Symbol)
         /\ text = line \o SubSeq(text, Taken(text) + 1, Len(text))
<1>1. PICK n : n = Len(line)
  OBVIOUS
<1>2. /\ n \in Nat /\ n >= 1 /\ n <= LineMax /\ n <= Len(text) /\ Len(text) \in Nat
      /\ line \in Seq(Symbol)
      /\ \A j \in 1 .. n - 1 : line[j] \in Character
      /\ line[n] = Newline \/ n = LineMax
      /\ \A j \in 1 .. n : text[j] = line[j]
  BY <1>1, LineIs DEF IsLine
<1>3. n \in Ends(text)
  <2>1. n \in 1 .. n /\ n \in 1 .. Len(text)
    BY <1>2
  <2> QED BY <1>2, <2>1, EndsAre
<1>4. ASSUME NEW e \in Ends(text) PROVE n <= e
  <2>1. CASE e = LineMax \/ e = Len(text)
    BY <1>2, <2>1
  <2>2. CASE e \in 1 .. Len(text) /\ text[e] = Newline
    <3> SUFFICES ASSUME ~(n <= e) PROVE FALSE
      OBVIOUS
    <3>1. e \in 1 .. n - 1 /\ e \in 1 .. n
      BY <1>2, <2>2
    <3> QED BY <1>2, <2>2, <3>1, Sizes
  <2> QED BY <2>1, <2>2, EndsAre
<1>5. Taken(text) = n
  BY <1>3, <1>4, EndsAre, LeastIs
<1>6. /\ SubSeq(text, 1, n) \in Seq(Symbol) /\ Len(SubSeq(text, 1, n)) = n
      /\ SubSeq(text, n + 1, Len(text)) \in Seq(Symbol)
      /\ text = SubSeq(text, 1, n) \o SubSeq(text, n + 1, Len(text))
  BY <1>2, SplitAt
<1>7. SubSeq(text, 1, n) = line
  <2>1. /\ SubSeq(text, 0 + 1, n) \in Seq(Symbol) /\ Len(SubSeq(text, 0 + 1, n)) = n - 0
        /\ \A j \in 1 .. n - 0 : SubSeq(text, 0 + 1, n)[j] = text[0 + j]
    <3>1. 0 <= n /\ 0 \in Nat
      BY <1>2
    <3> QED BY <1>2, <3>1, SubSeqIs
  <2>2. 0 + 1 = 1 /\ n - 0 = n /\ \A j \in 1 .. n : 0 + j = j
    BY <1>2
  <2>3. PICK u : u = SubSeq(text, 1, n)
    OBVIOUS
  <2>4. u \in Seq(Symbol) /\ Len(u) = n /\ \A j \in 1 .. n : u[j] = line[j]
    BY <1>2, <2>1, <2>2, <2>3
  <2> QED BY <1>1, <1>2, <2>3, <2>4, SeqEqual
<1> QED BY <1>1, <1>5, <1>6, <1>7

\* The end of a file, cut off before the end of a line.
LEMMA TakenCut ==
  ASSUME NEW text \in Seq(Symbol), text # <<>>, NEW line, IsLine(line), Len(text) < Len(line),
         \A j \in 1 .. Len(text) : j <= Len(line) => text[j] = line[j]
  PROVE  /\ SubSeq(text, 1, Taken(text)) = text
         /\ SubSeq(text, Taken(text) + 1, Len(text)) = <<>>
         /\ text \in Seq(Character) /\ Line(text) = text
         /\ text = SubSeq(line, 1, Len(text)) /\ Len(text) \in 0 .. Len(line) - 1
<1>1. PICK n : n = Len(text)
  OBVIOUS
<1>2. /\ n \in Nat /\ n >= 1 /\ n < Len(line) /\ Len(line) \in Nat /\ Len(line) <= LineMax
      /\ line \in Seq(Symbol)
      /\ \A j \in 1 .. Len(line) - 1 : line[j] \in Character
  BY <1>1, LineIs DEF IsLine
<1>3. \A j \in 1 .. n : text[j] = line[j] /\ text[j] \in Character
  <2>1. \A j \in 1 .. n : j <= Len(line) /\ j \in 1 .. Len(line) - 1
    BY <1>2
  <2> QED BY <1>1, <1>2, <2>1
<1>4. Taken(text) = n
  <2>1. \A e \in Ends(text) : n <= e
    <3>1. n <= LineMax
      BY <1>2, Sizes
    <3>2. \A i \in 1 .. n : text[i] # Newline
      BY <1>3, Sizes
    <3> QED BY <1>1, <1>2, <3>1, <3>2, EndsAre
  <2>2. n \in Ends(text)
    BY <1>1, EndsAre
  <2> QED BY <2>1, <2>2, EndsAre, LeastIs
<1>5. text \in Seq(Character)
  <2>1. text = [j \in 1 .. n |-> text[j]]
    BY <1>1
  <2>2. [j \in 1 .. n |-> text[j]] \in [1 .. n -> Character]
    BY <1>3
  <2> QED BY <1>2, <2>1, <2>2, FunctionIsSeq
<1>6. SubSeq(text, 1, n) = text
  BY <1>1, SubSeqFull
<1>7. SubSeq(text, n + 1, n) = <<>>
  <2>1. n + 1 \in Int /\ n \in Int /\ n < n + 1
    BY <1>2
  <2> QED BY <2>1, SubSeqEmpty
<1>8. Line(text) = text
  <2>1. text[n] # Newline
    <3>1. n \in 1 .. n
      BY <1>2
    <3> QED BY <1>3, <3>1, Sizes
  <2> QED BY <1>1, <2>1 DEF Line, Last
<1>9. SubSeq(line, 1, n) = text
  <2>1. /\ SubSeq(line, 0 + 1, n) \in Seq(Symbol) /\ Len(SubSeq(line, 0 + 1, n)) = n - 0
        /\ \A j \in 1 .. n - 0 : SubSeq(line, 0 + 1, n)[j] = line[0 + j]
    <3>1. 0 <= n /\ 0 \in Nat /\ n <= Len(line)
      BY <1>2
    <3> QED BY <1>2, <3>1, SubSeqIs
  <2>2. 0 + 1 = 1 /\ n - 0 = n /\ \A j \in 1 .. n : 0 + j = j
    BY <1>2
  <2>3. PICK u : u = SubSeq(line, 1, n)
    OBVIOUS
  <2>4. u \in Seq(Symbol) /\ Len(u) = n /\ \A j \in 1 .. n : u[j] = text[j]
    BY <1>2, <1>3, <2>1, <2>2, <2>3
  <2> QED BY <1>1, <2>3, <2>4, SeqEqual
<1>10. n \in 0 .. Len(line) - 1
  BY <1>2
<1> QED BY <1>1, <1>4, <1>5, <1>6, <1>7, <1>8, <1>9, <1>10

--------------------------------------------------------------------------------
(* The lines that have been read.                                          *)

LEMMA StrippedNext ==
  ASSUME NEW l \in Seq(Seq(Symbol)), NEW n \in 0 .. Len(l), n # Len(l)
  PROVE  /\ Stripped(SubSeq(l, 1, n)) \in Seq(Seq(Symbol))
         /\ Line(l[n + 1]) \in Seq(Symbol)
         /\ Stripped(SubSeq(l, 1, n + 1)) = Append(Stripped(SubSeq(l, 1, n)), Line(l[n + 1]))
<1>1. PICK a \in Seq(Seq(Symbol)), x \in Seq(Symbol) :
        a = SubSeq(l, 1, n) /\ x = l[n + 1] /\ SubSeq(l, 1, n + 1) = Append(a, x)
  <2>1. n \in Nat /\ n + 1 <= Len(l)
    OBVIOUS
  <2>2. /\ SubSeq(l, 1, n) \in Seq(Seq(Symbol)) /\ l[n + 1] \in Seq(Symbol)
        /\ SubSeq(l, 1, n + 1) = Append(SubSeq(l, 1, n), l[n + 1])
    BY <2>1, PrefixAppend
  <2> QED BY <2>2
<1>2. Append(a, x) \in Seq(Seq(Symbol))
  OBVIOUS
<1>3. Stripped(a) = Mapped(Strip, a) /\ Stripped(Append(a, x)) = Mapped(Strip, Append(a, x))
  BY <1>2, StrippedIs
<1>4. Mapped(Strip, Append(a, x)) = Append(Mapped(Strip, a), Strip[x])
  BY ListMaps, MapAppend
<1>5. Strip[x] = Line(x) /\ Strip[x] \in Seq(Symbol)
  BY ListMaps, MapValue DEF Strip
<1>6. Mapped(Strip, a) \in Seq(Seq(Symbol))
  BY ListMaps, MapIs
<1> QED BY <1>1, <1>3, <1>4, <1>5, <1>6

\* The lines of a file that holds a list.
LEMMA FileLines ==
  ASSUME NEW paths \in Seq(Seq(Character))
  PROVE  /\ Lines(paths) \in Seq(Seq(Symbol)) /\ Text(paths) \in Seq(Symbol)
         /\ \A k \in 1 .. Len(Lines(paths)) : IsLine(Lines(paths)[k])
         /\ FlattenSeq(Lines(paths)) = Text(paths)
         /\ Stripped(Lines(paths)) = Broken(paths)
BY EveryLineGood DEF GoodLines

\* A file that was written to the end has been read when there is no more of it.
LEMMA AllLinesRead ==
  ASSUME NEW paths \in Seq(Seq(Character)), NEW n \in 0 .. Len(Lines(paths)),
         FirstOf(Lines(paths), n) = Text(paths)
  PROVE  n = Len(Lines(paths))
<1>1. PICK l : l = Lines(paths)
  OBVIOUS
<1>2. l \in Seq(Seq(Symbol)) /\ FlattenSeq(l) = Text(paths) /\ \A k \in 1 .. Len(l) : IsLine(l[k])
  BY <1>1, FileLines
<1> SUFFICES ASSUME n # Len(l) PROVE FALSE
  BY <1>1
<1>3. /\ n + 1 \in 1 .. Len(l) /\ FirstOf(l, n) \in Seq(Symbol)
      /\ Len(FirstOf(l, n)) + Len(l[n + 1]) <= Len(FlattenSeq(l))
  BY <1>1, <1>2, LineFits
<1>4. Len(l[n + 1]) \in Nat /\ Len(l[n + 1]) >= 1
  BY <1>2, <1>3, LineIs
<1>5. Len(FirstOf(l, n)) \in Nat /\ FirstOf(l, n) = FlattenSeq(l)
  BY <1>1, <1>2, <1>3
<1> QED BY <1>3, <1>4, <1>5

LEMMA TextEntry ==
  ASSUME NEW paths \in Seq(Seq(Character)), NEW n \in Nat, n + 1 <= Len(paths)
  PROVE  /\ Text(SubSeq(paths, 1, n)) \in Seq(Symbol)
         /\ Append(paths[n + 1], Newline) \in Seq(Symbol)
         /\ Text(SubSeq(paths, 1, n + 1)) = Text(SubSeq(paths, 1, n)) \o Append(paths[n + 1], Newline)
<1>1. /\ SubSeq(paths, 1, n) \in Seq(Seq(Character)) /\ paths[n + 1] \in Seq(Character)
      /\ SubSeq(paths, 1, n + 1) = Append(SubSeq(paths, 1, n), paths[n + 1])
  BY PrefixAppend
<1>2. PICK a \in Seq(Seq(Character)), p \in Seq(Character) :
        a = SubSeq(paths, 1, n) /\ p = paths[n + 1] /\ SubSeq(paths, 1, n + 1) = Append(a, p)
  BY <1>1
<1>3. Text(a) \in Seq(Symbol) /\ Text(Append(a, p)) = Text(a) \o Append(p, Newline)
  BY TextsAppend
<1>4. Append(p, Newline) \in Seq(Symbol)
  BY Symbols, Sizes, AppendProperties
<1> QED BY <1>2, <1>3, <1>4

\* The text of the first entries of a list is a beginning of its text.
LEMMA TextPrefix ==
  ASSUME NEW paths \in Seq(Seq(Character)), NEW n \in Nat, n <= Len(paths)
  PROVE  Text(SubSeq(paths, 1, n)) \in Seq(Symbol) /\ IsPrefix(Text(SubSeq(paths, 1, n)), Text(paths))
<1>1. PICK q, t : q = SubSeq(paths, 1, n) /\ t = SubSeq(paths, n + 1, Len(paths))
  OBVIOUS
<1>4. q \in Seq(Seq(Character)) /\ t \in Seq(Seq(Character)) /\ paths = q \o t
  BY <1>1, SplitAt
<1>5. /\ Mapped(WithNewline, q) \in Seq(Seq(Symbol)) /\ Mapped(WithNewline, t) \in Seq(Seq(Symbol))
      /\ Mapped(WithNewline, q \o t) = Mapped(WithNewline, q) \o Mapped(WithNewline, t)
  <2>1. q \in Seq(Seq(Character)) /\ t \in Seq(Seq(Character))
    BY <1>4
  <2>2. Maps(WithNewline, Seq(Character), Seq(Symbol))
    BY ListMaps
  <2>3. Mapped(WithNewline, q) \in Seq(Seq(Symbol)) /\ Mapped(WithNewline, t) \in Seq(Seq(Symbol))
    BY <2>1, <2>2, MapIs
  <2>4. Mapped(WithNewline, q \o t) = Mapped(WithNewline, q) \o Mapped(WithNewline, t)
    BY <2>1, <2>2, MapConcat
  <2> QED BY <2>3, <2>4
<1>6. PICK a \in Seq(Seq(Symbol)), b \in Seq(Seq(Symbol)) :
        a = Mapped(WithNewline, q) /\ b = Mapped(WithNewline, t) /\ Mapped(WithNewline, paths) = a \o b
  BY <1>4, <1>5
<1>7. FlattenSeq(a) \in Seq(Symbol) /\ FlattenSeq(b) \in Seq(Symbol)
      /\ FlattenSeq(a \o b) = FlattenSeq(a) \o FlattenSeq(b)
  BY FlattenType, FlattenConcat
<1>8. Text(q) = FlattenSeq(a) /\ Text(paths) = FlattenSeq(a \o b)
  BY <1>4, <1>6, ListTexts
<1>9. IsPrefix(FlattenSeq(a), FlattenSeq(a) \o FlattenSeq(b))
  BY <1>7, PrefixOfJoin
<1> QED BY <1>1, <1>7, <1>8, <1>9

--------------------------------------------------------------------------------
(* The changes that a run makes to the list.                               *)

LEMMA FrontAddedType ==
  ASSUME NEW S, NEW s \in Seq(S), NEW x \in S, Len(s) <= MaxPlayListLen,
         NEW t, t = <<x>> \o (IF Len(s) = MaxPlayListLen THEN Front(s) ELSE s)
  PROVE  t \in Seq(S) /\ Len(t) <= MaxPlayListLen
<1>1. PICK b : b = IF Len(s) = MaxPlayListLen THEN Front(s) ELSE s
  OBVIOUS
<1>2. b \in Seq(S) /\ 1 + Len(b) <= MaxPlayListLen
  <2>1. CASE Len(s) = MaxPlayListLen
    <3>1. PICK m \in Nat : m = Len(s) - 1 /\ m <= Len(s) /\ 1 + m <= MaxPlayListLen
      BY <2>1, Sizes
    <3>2. SubSeq(s, 1, m) \in Seq(S) /\ Len(SubSeq(s, 1, m)) = m
      BY <3>1, SplitAt
    <3> QED BY <1>1, <2>1, <3>1, <3>2 DEF Front
  <2>2. CASE Len(s) # MaxPlayListLen
    <3>1. Len(s) \in Nat
      OBVIOUS
    <3> QED BY <1>1, <2>2, <3>1, Sizes
  <2> QED BY <2>1, <2>2
<1>3. <<x>> \in Seq(S) /\ Len(<<x>>) = 1
  OBVIOUS
<1>4. <<x>> \o b \in Seq(S) /\ Len(<<x>> \o b) = 1 + Len(b)
  BY <1>2, <1>3, PrefixOfJoin
<1> QED BY <1>1, <1>2, <1>4

LEMMA RemovedType ==
  ASSUME NEW S, NEW s \in Seq(S), NEW i \in 1 .. Len(s)
  PROVE  RemoveAt(s, i) \in Seq(S) /\ Len(RemoveAt(s, i)) <= Len(s)
<1>1. PICK m \in Nat : m = i - 1 /\ m <= Len(s) /\ i \in Nat /\ i <= Len(s)
  OBVIOUS
<1>2. PICK a, b : a = SubSeq(s, 1, m) /\ b = SubSeq(s, i + 1, Len(s))
  OBVIOUS
<1>3. a \in Seq(S) /\ Len(a) = m
  BY <1>1, <1>2, SplitAt
<1>4. b \in Seq(S) /\ Len(b) = Len(s) - i
  BY <1>1, <1>2, SplitAt
<1>5. a \o b \in Seq(S) /\ Len(a \o b) = Len(a) + Len(b)
  BY <1>3, <1>4, PrefixOfJoin
<1>6. m + (Len(s) - i) <= Len(s)
  BY <1>1
<1> QED BY <1>1, <1>2, <1>3, <1>4, <1>5, <1>6 DEF RemoveAt

LEMMA ReplacedType ==
  ASSUME NEW S, NEW s \in Seq(S), NEW i, NEW x \in S
  PROVE  ReplaceAt(s, i, x) \in Seq(S) /\ Len(ReplaceAt(s, i, x)) = Len(s)
<1>1. Len(s) \in Nat /\ s \in [1 .. Len(s) -> S]
  OBVIOUS
<1>2. [s EXCEPT ![i] = x] \in [1 .. Len(s) -> S]
  BY <1>1
<1> QED BY <1>1, <1>2, FunctionIsSeq DEF ReplaceAt

LEMMA EditType ==
  ASSUME list \in Seq(Seq(Character)), Len(list) <= MaxPlayListLen, Edit
  PROVE  list' \in Seq(Seq(Character)) /\ Len(list') <= MaxPlayListLen
<1>1. PICK T : T = Seq(Character)
  OBVIOUS
<1>2. list \in Seq(T) /\ Path \subseteq T
  BY <1>1, Sizes
<1>3. ASSUME NEW p \in Path, AddLast(p) PROVE list' \in Seq(T) /\ Len(list') <= MaxPlayListLen
  <2>1. p \in T /\ list' = Added(list, p)
    BY <1>2, <1>3 DEF AddLast, Full, Added
  <2> QED BY <1>2, <2>1, AddedType
<1>4. ASSUME NEW p \in Path, AddFront(p) PROVE list' \in Seq(T) /\ Len(list') <= MaxPlayListLen
  <2>1. p \in T /\ list' = <<p>> \o (IF Len(list) = MaxPlayListLen THEN Front(list) ELSE list)
    BY <1>2, <1>4 DEF AddFront, Full
  <2> QED BY <1>2, <2>1, FrontAddedType
<1>5. ASSUME NEW i \in DOMAIN list, RemoveEntry(i) PROVE list' \in Seq(T) /\ Len(list') <= MaxPlayListLen
  <2>1. i \in 1 .. Len(list) /\ list' = RemoveAt(list, i)
    BY <1>2, <1>5 DEF RemoveEntry
  <2>2. RemoveAt(list, i) \in Seq(T) /\ Len(RemoveAt(list, i)) <= Len(list)
    BY <1>2, <2>1, RemovedType
  <2>3. Len(list) \in Nat /\ Len(RemoveAt(list, i)) \in Nat
    BY <1>2, <2>2
  <2> QED BY <2>1, <2>2, <2>3, Sizes
<1>6. ASSUME NEW i \in DOMAIN list, SwapEntry(i) PROVE list' \in Seq(T) /\ Len(list') <= MaxPlayListLen
  <2>1. i \in 1 .. Len(list) /\ i + 1 \in 1 .. Len(list)
    BY <1>2, <1>6 DEF SwapEntry
  <2>2. PICK a : a = ReplaceAt(list, i, list[i + 1])
    OBVIOUS
  <2>3. list[i] \in T /\ list[i + 1] \in T
    BY <1>2, <2>1
  <2>4. a \in Seq(T) /\ Len(a) = Len(list)
    BY <1>2, <2>2, <2>3, ReplacedType
  <2>5. ReplaceAt(a, i + 1, list[i]) \in Seq(T) /\ Len(ReplaceAt(a, i + 1, list[i])) = Len(a)
    BY <2>3, <2>4, ReplacedType
  <2>6. list' = ReplaceAt(a, i + 1, list[i])
    BY <1>6, <2>2 DEF SwapEntry
  <2> QED BY <2>4, <2>5, <2>6
<1> QED BY <1>1, <1>3, <1>4, <1>5, <1>6 DEF Edit

--------------------------------------------------------------------------------
(* The inductive invariant.                                                *)

LEMMA FileInitInv == FileInit => FileIInv
<1> SUFFICES ASSUME FileInit PROVE FileIInv
  OBVIOUS
<1>1. /\ list = <<>> /\ pc = "off" /\ unread = <<>> /\ unwritten = <<>>
      /\ saved \in Seq(Seq(Character)) /\ disk \in {NoFile, Text(saved)}
      /\ complete = TRUE /\ full = FALSE
  BY Sizes DEF FileInit, Init
<1>2. <<>> \in Seq(Seq(Character)) /\ <<>> \in Seq(Symbol) /\ Len(<<>>) = 0 /\ 0 <= MaxPlayListLen
  BY Sizes
<1>3. FileTypeOK
  BY <1>1, <1>2 DEF FileTypeOK
<1>4. DiskInv
  BY <1>1 DEF DiskInv
<1>5. SavingInv
  BY <1>1 DEF SavingInv
<1>6. ReadingInv
  BY <1>1 DEF ReadingInv
<1> QED BY <1>3, <1>4, <1>5, <1>6 DEF FileIInv

\* What a file that can be opened holds.
LEMMA FileHolds ==
  ASSUME FileTypeOK, DiskInv, disk # NoFile
  PROVE  /\ disk \in Seq(Symbol) /\ IsPrefix(disk, Text(saved)) /\ Text(saved) \in Seq(Symbol)
         /\ complete => disk = Text(saved)
<1>1. saved \in Seq(Seq(Character)) /\ complete \in BOOLEAN
  BY DEF FileTypeOK
<1>2. Text(saved) \in Seq(Symbol)
  BY <1>1, FileLines
<1>3. IsPrefix(Text(saved), Text(saved))
  BY <1>2, PrefixItself
<1>4. CASE complete
  <2>1. disk = Text(saved)
    BY <1>4 DEF DiskInv
  <2> QED BY <1>2, <1>3, <2>1
<1>5. CASE ~complete
  BY <1>2, <1>5 DEF DiskInv
<1> QED BY <1>4, <1>5

LEMMA ReadOpenStep == FileIInv /\ ReadOpen => FileIInv'
<1> SUFFICES ASSUME FileIInv, ReadOpen PROVE FileIInv'
  OBVIOUS
<1> USE DEF FileIInv
<1>1. /\ pc = "off" /\ list = <<>> /\ list' = list /\ disk' = disk /\ unwritten' = unwritten /\ full' = full
      /\ saved' = saved /\ complete' = complete
      /\ pc' \in {"ready", "reading"}
      /\ pc' = "ready" => unread' = unread
      /\ pc' = "reading" => unread' = disk /\ disk # NoFile
  BY DEF ReadOpen, FileTypeOK, history
<1>2. pc' = "reading" => unread' \in Seq(Symbol)
  BY <1>1, FileHolds
<1>3. FileTypeOK'
  BY <1>1, <1>2 DEF FileTypeOK
<1>4. DiskInv'
  BY <1>1 DEF DiskInv
<1>5. SavingInv'
  BY <1>1 DEF SavingInv
<1>6. ReadingInv'
  <2> SUFFICES ASSUME pc' = "reading" PROVE ReadingInv'
    BY DEF ReadingInv
  <2>1. unread' = disk /\ disk # NoFile /\ disk \in Seq(Symbol)
    BY <1>1, FileHolds
  <2>2. FlattenSeq(SubSeq(Lines(saved), 1, 0)) = <<>> /\ SubSeq(Lines(saved), 1, 0) = <<>>
    <3>1. PICK l : l = Lines(saved)
      OBVIOUS
    <3>2. SubSeq(l, 1, 0) = <<>>
      BY SubSeqEmpty
    <3> QED BY <3>1, <3>2, FlattenEmpty
  <2>3. disk = <<>> \o disk
    BY <2>1, ConcatEmptySeq
  <2>4. Latest(Stripped(SubSeq(Lines(saved), 1, 0))) = <<>>
    BY <2>2, EmptyTexts, LatestEmpty
  <2>5. ReadingTo(0)'
    BY <1>1, <2>1, <2>2, <2>3, <2>4 DEF ReadingTo
  <2>6. 0 \in 0 .. Len(Lines(saved))
    <3>1. Lines(saved) \in Seq(Seq(Symbol))
      BY FileLines DEF FileTypeOK
    <3> QED BY <3>1
  <2> QED BY <1>1, <2>1, <2>5, <2>6 DEF ReadingInv
<1> QED BY <1>3, <1>4, <1>5, <1>6

\* A call of fgets takes the next line of the file, or the beginning of it at which
\* a file that was cut off ends.
LEMMA ReadLineStep == FileIInv /\ ReadLine => FileIInv'
<1> SUFFICES ASSUME FileIInv, ReadLine PROVE FileIInv'
  OBVIOUS
<1> USE DEF FileIInv
<1>1. /\ pc = "reading" /\ unread # <<>> /\ unread \in Seq(Symbol)
      /\ list \in Seq(Seq(Character)) /\ Len(list) <= MaxPlayListLen
      /\ saved \in Seq(Seq(Character)) /\ complete \in BOOLEAN
      /\ disk # NoFile
  BY DEF ReadLine, FileTypeOK, ReadingInv
<1>2. /\ pc' = pc /\ disk' = disk /\ unwritten' = unwritten /\ full' = full /\ saved' = saved /\ complete' = complete
      /\ list' = Added(list, Line(SubSeq(unread, 1, Taken(unread))))
      /\ unread' = SubSeq(unread, Taken(unread) + 1, Len(unread))
  BY DEF ReadLine, AddLast, Full, Added, history
<1>3. PICK n \in 0 .. Len(Lines(saved)) : ReadingTo(n)
  BY <1>1 DEF ReadingInv, ReadingPast
<1>4. PICK l : l = Lines(saved)
  OBVIOUS
<1>5. /\ l \in Seq(Seq(Symbol)) /\ FlattenSeq(l) = Text(saved) /\ Text(saved) \in Seq(Symbol)
      /\ \A k \in 1 .. Len(l) : IsLine(l[k])
  BY <1>1, <1>4, FileLines
<1>6. /\ disk \in Seq(Symbol) /\ IsPrefix(disk, Text(saved))
      /\ complete => disk = Text(saved)
  BY <1>1, FileHolds
<1>7. disk = FirstOf(l, n) \o unread /\ list = Latest(Stripped(SubSeq(l, 1, n)))
  BY <1>3, <1>4 DEF ReadingTo, FirstOf
<1>8. n # Len(l) /\ \A j \in 1 .. Len(unread) : j <= Len(l[n + 1]) => unread[j] = l[n + 1][j]
  <2>1. IsPrefix(FirstOf(l, n) \o unread, FlattenSeq(l))
    BY <1>5, <1>6, <1>7
  <2>2. n \in 0 .. Len(l)
    BY <1>3, <1>4
  <2> QED BY <1>1, <1>5, <2>1, <2>2, NextLine
<1>9. PICK line : line = l[n + 1]
  OBVIOUS
<1>10. /\ n \in 0 .. Len(l) /\ n + 1 \in 1 .. Len(l) /\ n \in 0 .. Len(l) - 1 /\ n + 1 \in 0 .. Len(l)
       /\ FirstOf(l, n) \in Seq(Symbol)
       /\ FirstOf(l, n + 1) = FirstOf(l, n) \o line
       /\ Len(FirstOf(l, n)) + Len(line) <= Len(FlattenSeq(l))
  <2>1. n \in 0 .. Len(l) /\ n \in 0 .. Len(l) - 1 /\ n + 1 \in 0 .. Len(l)
    BY <1>3, <1>4, <1>5, <1>8
  <2>2. /\ n + 1 \in 1 .. Len(l)
        /\ FirstOf(l, n) \in Seq(Symbol)
        /\ FirstOf(l, n + 1) = FirstOf(l, n) \o l[n + 1]
        /\ Len(FirstOf(l, n)) + Len(l[n + 1]) <= Len(FlattenSeq(l))
    BY <1>5, <1>8, <2>1, LineFits
  <2> QED BY <1>9, <2>1, <2>2
<1>11. IsLine(line) /\ line \in Seq(Symbol) /\ Len(line) \in Nat /\ Line(line) \in Seq(Character)
  BY <1>5, <1>9, <1>10, LineIs
<1>12. PICK r \in Seq(Seq(Symbol)) :
         r = Stripped(SubSeq(l, 1, n)) /\ Stripped(SubSeq(l, 1, n + 1)) = Append(r, Line(line))
  BY <1>5, <1>8, <1>9, <1>10, StrippedNext
<1>13. Len(unread) \in Nat
  BY <1>1
<1>14. ASSUME NEW x \in Seq(Character), list' = Added(list, x), unread' \in Seq(Symbol), ReadingInv'
       PROVE  FileIInv'
  <2>1. PICK T : T = Seq(Character)
    OBVIOUS
  <2>2. Added(list, x) \in Seq(T) /\ Len(Added(list, x)) <= MaxPlayListLen
    BY <1>1, <2>1, AddedType
  <2>3. list' \in Seq(Seq(Character)) /\ Len(list') <= MaxPlayListLen
    BY <1>14, <2>1, <2>2
  <2>4. FileTypeOK'
    BY <1>1, <1>2, <1>14, <2>3 DEF FileTypeOK
  <2>5. DiskInv'
    BY <1>2 DEF DiskInv
  <2>6. SavingInv'
    BY <1>1, <1>2 DEF SavingInv
  <2> QED BY <1>14, <2>4, <2>5, <2>6
<1>15. CASE Len(line) <= Len(unread)
  <2>1. /\ SubSeq(unread, 1, Taken(unread)) = line
        /\ SubSeq(unread, Taken(unread) + 1, Len(unread)) \in Seq(Symbol)
        /\ unread = line \o SubSeq(unread, Taken(unread) + 1, Len(unread))
    BY <1>1, <1>8, <1>9, <1>11, <1>15, TakenLine
  <2>2. list' = Added(list, Line(line)) /\ unread' \in Seq(Symbol) /\ unread = line \o unread'
    BY <1>2, <2>1
  <2>3. disk' = FirstOf(l, n + 1) \o unread'
    <3>1. (FirstOf(l, n) \o line) \o unread' = FirstOf(l, n) \o (line \o unread')
      <4>1. FirstOf(l, n) \in Seq(Symbol) /\ line \in Seq(Symbol) /\ unread' \in Seq(Symbol)
        BY <1>10, <1>11, <2>2
      <4> QED BY <4>1, ConcatAssociative, SMTT(30)
    <3> QED BY <1>2, <1>7, <1>10, <2>2, <3>1
  <2>4. list' = Latest(Stripped(SubSeq(l, 1, n + 1)))
    <3>1. Line(line) \in Seq(Symbol)
      BY <1>11, Symbols
    <3>2. Latest(Append(r, Line(line))) = Added(Latest(r), Line(line))
      BY <3>1, LatestAppend
    <3> QED BY <1>7, <1>12, <2>2, <3>2
  <2>5. ReadingTo(n + 1)'
    BY <1>2, <1>4, <2>3, <2>4 DEF ReadingTo, FirstOf
  <2>6. ReadingInv'
    BY <1>1, <1>2, <1>4, <1>10, <2>5 DEF ReadingInv
  <2> QED BY <1>11, <1>14, <2>2, <2>6
<1>16. CASE ~(Len(line) <= Len(unread))
  <2>1. Len(unread) < Len(line)
    BY <1>11, <1>13, <1>16
  <2>2. /\ SubSeq(unread, 1, Taken(unread)) = unread
        /\ SubSeq(unread, Taken(unread) + 1, Len(unread)) = <<>>
        /\ unread \in Seq(Character) /\ Line(unread) = unread
        /\ unread = SubSeq(line, 1, Len(unread)) /\ Len(unread) \in 0 .. Len(line) - 1
    BY <1>1, <1>8, <1>9, <1>11, <2>1, TakenCut
  <2>3. list' = Added(list, unread) /\ unread' = <<>>
    BY <1>2, <2>2
  <2>4. ~complete
    <3> SUFFICES ASSUME complete PROVE FALSE
      OBVIOUS
    <3>1. FirstOf(l, n) \o unread = FlattenSeq(l)
      BY <1>5, <1>6, <1>7
    <3>2. Len(FirstOf(l, n) \o unread) = Len(FirstOf(l, n)) + Len(unread) /\ Len(FirstOf(l, n)) \in Nat
      BY <1>1, <1>10, PrefixOfJoin
    <3>3. Len(FirstOf(l, n)) + Len(line) <= Len(FirstOf(l, n)) + Len(unread)
      BY <1>10, <3>1, <3>2
    <3> QED BY <1>11, <1>13, <2>1, <3>2, <3>3
  <2>5. list' = Latest(Append(r, unread))
    <3>1. Latest(Append(r, unread)) = Added(Latest(r), unread)
      BY <1>1, LatestAppend
    <3> QED BY <1>7, <1>12, <2>3, <3>1
  <2>6. PICK m \in 0 .. Len(line) - 1 : unread = SubSeq(line, 1, m)
    BY <2>2
  <2>7. ReadingPast(n)'
    <3>1. list' = Latest(Append(Stripped(SubSeq(Lines(saved)', 1, n)), SubSeq(Lines(saved)'[n + 1], 1, m)))
      BY <1>2, <1>4, <1>9, <1>12, <2>5, <2>6
    <3>2. m \in 0 .. Len(Lines(saved)'[n + 1]) - 1
      BY <1>2, <1>4, <1>9, <2>6
    <3> QED BY <1>2, <2>3, <2>4, <3>1, <3>2 DEF ReadingPast
  <2>8. ReadingInv'
    BY <1>1, <1>2, <1>4, <1>10, <2>7 DEF ReadingInv
  <2>9. <<>> \in Seq(Symbol)
    OBVIOUS
  <2> QED BY <1>14, <2>2, <2>3, <2>8, <2>9
<1> QED BY <1>15, <1>16

LEMMA ReadEndStep == FileIInv /\ (ReadEnd \/ ReadFails) => FileIInv'
<1> SUFFICES ASSUME FileIInv, ReadEnd \/ ReadFails PROVE FileIInv'
  OBVIOUS
<1> USE DEF FileIInv
<1>1. /\ pc = "reading" /\ pc' \in {"ready", "reading"}
      /\ list' = list /\ disk' = disk /\ unread' = unread /\ unwritten' = unwritten /\ full' = full
      /\ saved' = saved /\ complete' = complete
  BY DEF ReadEnd, ReadFails, history, stdio
<1>2. FileTypeOK'
  BY <1>1 DEF FileTypeOK
<1>3. DiskInv'
  BY <1>1 DEF DiskInv
<1>4. SavingInv'
  BY <1>1 DEF SavingInv
<1>5. ReadingInv'
  BY <1>1 DEF ReadingInv, ReadingTo, ReadingPast
<1> QED BY <1>2, <1>3, <1>4, <1>5

LEMMA EditStep == FileIInv /\ Edit => FileIInv'
<1> SUFFICES ASSUME FileIInv, Edit PROVE FileIInv'
  OBVIOUS
<1> USE DEF FileIInv
<1>1. /\ pc = "ready" /\ pc' = pc
      /\ disk' = disk /\ unread' = unread /\ unwritten' = unwritten /\ full' = full
      /\ saved' = saved /\ complete' = complete
  BY DEF Edit, history, stdio
<1>2. list' \in Seq(Seq(Character)) /\ Len(list') <= MaxPlayListLen
  BY EditType DEF FileTypeOK
<1>3. FileTypeOK'
  BY <1>1, <1>2 DEF FileTypeOK
<1>4. DiskInv'
  BY <1>1 DEF DiskInv
<1>5. SavingInv'
  BY <1>1 DEF SavingInv
<1>6. ReadingInv'
  BY <1>1 DEF ReadingInv
<1> QED BY <1>3, <1>4, <1>5, <1>6

LEMMA ProcessEndsStep == FileIInv /\ ProcessEnds => FileIInv'
<1> SUFFICES ASSUME FileIInv, ProcessEnds PROVE FileIInv'
  OBVIOUS
<1> USE DEF FileIInv
<1>1. /\ pc' = "off" /\ list' = <<>> /\ unread' = <<>> /\ unwritten' = <<>> /\ full' = FALSE
      /\ disk' = disk /\ saved' = saved /\ complete' = complete
  BY DEF ProcessEnds, history
<1>2. <<>> \in Seq(Seq(Character)) /\ <<>> \in Seq(Symbol) /\ Len(<<>>) = 0 /\ 0 <= MaxPlayListLen
  BY Sizes
<1>3. FileTypeOK'
  BY <1>1, <1>2 DEF FileTypeOK
<1>4. DiskInv'
  BY <1>1 DEF DiskInv
<1>5. SavingInv'
  BY <1>1 DEF SavingInv
<1>6. ReadingInv'
  BY <1>1 DEF ReadingInv
<1> QED BY <1>3, <1>4, <1>5, <1>6

LEMMA SaveOpenStep == FileIInv /\ SaveOpen => FileIInv'
<1> SUFFICES ASSUME FileIInv, SaveOpen PROVE FileIInv'
  OBVIOUS
<1> USE DEF FileIInv
<1>1. /\ pc = "ready" /\ pc' = "saving" /\ disk' = <<>> /\ entry' = 1
      /\ saved' = list /\ complete' = FALSE
      /\ list' = list /\ unread' = unread /\ unwritten' = unwritten /\ full' = full
      /\ list \in Seq(Seq(Character)) /\ Len(list) <= MaxPlayListLen
      /\ unwritten = <<>>
  BY DEF SaveOpen, Truncated, FileTypeOK, SavingInv
<1>2. FileTypeOK'
  BY <1>1 DEF FileTypeOK
<1>3. DiskInv'
  <2>1. <<>> \in Seq(Symbol) /\ Text(list) \in Seq(Symbol) /\ Len(<<>>) = 0
    BY <1>1, FileLines
  <2>2. IsPrefix(<<>>, Text(list))
    <3>1. Len(Text(list)) \in Nat
      BY <2>1
    <3>2. 0 <= Len(Text(list)) /\ \A i \in 1 .. 0 : <<>>[i] = Text(list)[i]
      BY <3>1
    <3> QED BY <2>1, <3>2, PrefixIs
  <2> QED BY <1>1, <2>1, <2>2 DEF DiskInv
<1>4. SavingInv'
  <2>1. SubSeq(list, 1, 0) = <<>>
    BY SubSeqEmpty
  <2>2. <<>> \o <<>> = Text(SubSeq(list, 1, 0))
    <3>1. <<>> \o <<>> = <<>>
      OBVIOUS
    <3> QED BY <2>1, <3>1, EmptyTexts
  <2>3. 1 \in 1 .. Len(list) + 1 /\ 1 - 1 = 0
    BY <1>1
  <2> QED BY <1>1, <2>2, <2>3 DEF SavingInv
<1>5. ReadingInv'
  BY <1>1 DEF ReadingInv
<1> QED BY <1>2, <1>3, <1>4, <1>5

LEMMA SaveEntryStep == FileIInv /\ SaveEntry => FileIInv'
<1> SUFFICES ASSUME FileIInv, SaveEntry PROVE FileIInv'
  OBVIOUS
<1> USE DEF FileIInv
<1>1. /\ pc = "saving" /\ pc' = pc /\ entry <= Len(list) /\ entry' = entry + 1
      /\ unwritten' = unwritten \o Append(list[entry], Newline)
      /\ list' = list /\ disk' = disk /\ unread' = unread /\ full' = full
      /\ saved' = saved /\ complete' = complete
  BY DEF SaveEntry, history
<1>2. /\ saved = list /\ saved \in Seq(Seq(Character)) /\ entry \in 1 .. Len(saved) + 1
      /\ ~complete /\ full \in BOOLEAN /\ unwritten \in Seq(Symbol) /\ disk \in Seq(Symbol)
      /\ ~full => disk \o unwritten = Text(SubSeq(saved, 1, entry - 1))
  BY <1>1 DEF FileTypeOK, SavingInv, DiskInv
<1>3. PICK n \in Nat : n = entry - 1 /\ n + 1 = entry /\ n + 1 <= Len(saved) /\ entry + 1 - 1 = n + 1
                       /\ entry + 1 \in 1 .. Len(saved) + 1
  BY <1>1, <1>2
<1>4. PICK a, b : a = Text(SubSeq(saved, 1, n)) /\ b = Append(saved[n + 1], Newline)
  OBVIOUS
<1>5. a \in Seq(Symbol) /\ b \in Seq(Symbol) /\ Text(SubSeq(saved, 1, n + 1)) = a \o b
  BY <1>2, <1>3, <1>4, TextEntry
<1>6. unwritten' = unwritten \o b
  BY <1>1, <1>2, <1>3, <1>4
<1>7. unwritten \o b \in Seq(Symbol)
  BY <1>2, <1>5, PrefixOfJoin
<1>8. FileTypeOK'
  BY <1>1, <1>6, <1>7 DEF FileTypeOK
<1>9. DiskInv'
  BY <1>1 DEF DiskInv
<1>10. SavingInv'
  <2>1. ASSUME ~full PROVE disk \o (unwritten \o b) = Text(SubSeq(saved, 1, n + 1))
    <3>1. disk \o unwritten = a
      BY <1>2, <1>3, <1>4, <2>1
    <3>2. disk \in Seq(Symbol) /\ unwritten \in Seq(Symbol) /\ b \in Seq(Symbol)
      BY <1>2, <1>5
    <3>3. (disk \o unwritten) \o b = disk \o (unwritten \o b)
      BY <3>2, ConcatAssociative, SMTT(30)
    <3> QED BY <1>5, <3>1, <3>3
  <2>2. ~full' => disk' \o unwritten' = Text(SubSeq(saved', 1, entry' - 1))
    <3>1. entry' - 1 = n + 1
      BY <1>1, <1>3
    <3>2. ~full' => ~full
      BY <1>1
    <3>3. disk' \o unwritten' = disk \o (unwritten \o b)
      BY <1>1, <1>6
    <3>4. Text(SubSeq(saved', 1, entry' - 1)) = Text(SubSeq(saved, 1, n + 1))
      BY <1>1, <3>1
    <3> QED BY <2>1, <3>2, <3>3, <3>4
  <2>3. pc' = "saving" /\ ~complete' /\ saved' = list' /\ entry' \in 1 .. Len(saved') + 1
    BY <1>1, <1>2, <1>3
  <2> QED BY <2>2, <2>3 DEF SavingInv
<1>11. ReadingInv'
  BY <1>1 DEF ReadingInv
<1> QED BY <1>8, <1>9, <1>10, <1>11

\* Whatever part of the buffer has reached the disk, what is there is a beginning
\* of the list.
LEMMA DrainStep == FileIInv /\ Drain => FileIInv'
<1> SUFFICES ASSUME FileIInv, Drain PROVE FileIInv'
  OBVIOUS
<1> USE DEF FileIInv
<1>1. PICK n \in DOMAIN unwritten :
        /\ disk' = disk \o SubSeq(unwritten, 1, n)
        /\ unwritten' = SubSeq(unwritten, n + 1, Len(unwritten))
  BY DEF Drain
<1>2. /\ pc = "saving" /\ pc' = pc /\ ~full /\ full' = full
      /\ list' = list /\ unread' = unread /\ entry' = entry
      /\ saved' = saved /\ complete' = complete
  BY DEF Drain, history
<1>3. /\ saved = list /\ saved \in Seq(Seq(Character)) /\ entry \in 1 .. Len(saved) + 1
      /\ ~complete /\ unwritten \in Seq(Symbol) /\ disk \in Seq(Symbol)
      /\ disk \o unwritten = Text(SubSeq(saved, 1, entry - 1))
      /\ Len(saved) <= MaxPlayListLen
  BY <1>2 DEF FileTypeOK, SavingInv, DiskInv
<1>4. PICK a, b : a = SubSeq(unwritten, 1, n) /\ b = SubSeq(unwritten, n + 1, Len(unwritten))
  OBVIOUS
<1>5. a \in Seq(Symbol) /\ b \in Seq(Symbol) /\ unwritten = a \o b
  <2>1. n \in Nat /\ n <= Len(unwritten)
    BY <1>3
  <2> QED BY <1>3, <1>4, <2>1, SplitAt
<1>6. disk' = disk \o a /\ unwritten' = b
  BY <1>1, <1>4
<1>7. (disk \o a) \o b = disk \o (a \o b) /\ disk \o a \in Seq(Symbol)
  <2>1. disk \in Seq(Symbol) /\ a \in Seq(Symbol) /\ b \in Seq(Symbol)
    BY <1>3, <1>5
  <2> QED BY <2>1, ConcatAssociative, PrefixOfJoin
<1>8. disk' \o unwritten' = Text(SubSeq(saved, 1, entry - 1))
  BY <1>3, <1>5, <1>6, <1>7
<1>9. FileTypeOK'
  BY <1>2, <1>5, <1>6 DEF FileTypeOK
<1>10. DiskInv'
  <2>1. PICK t : t = Text(SubSeq(saved, 1, entry - 1))
    OBVIOUS
  <2>2. t \in Seq(Symbol) /\ IsPrefix(t, Text(saved)) /\ Text(saved) \in Seq(Symbol)
    <3>1. entry - 1 \in Nat /\ entry - 1 <= Len(saved)
      BY <1>3
    <3> QED BY <1>3, <2>1, <3>1, TextPrefix, FileLines
  <2>3. disk' \in Seq(Symbol) /\ unwritten' \in Seq(Symbol)
    BY <1>5, <1>6, <1>7
  <2>4. IsPrefix(disk', disk' \o unwritten')
    BY <2>3, PrefixOfJoin
  <2>5. IsPrefix(disk', t)
    BY <1>8, <2>1, <2>4
  <2>6. IsPrefix(disk', Text(saved))
    BY <2>2, <2>3, <2>5, PrefixTransitive
  <2> QED BY <1>2, <1>3, <2>3, <2>6 DEF DiskInv
<1>11. SavingInv'
  BY <1>2, <1>3, <1>8 DEF SavingInv
<1>12. ReadingInv'
  BY <1>2 DEF ReadingInv
<1> QED BY <1>9, <1>10, <1>11, <1>12

LEMMA DiskFillsStep == FileIInv /\ DiskFills => FileIInv'
<1> SUFFICES ASSUME FileIInv, DiskFills PROVE FileIInv'
  OBVIOUS
<1> USE DEF FileIInv
<1>1. /\ pc = "saving" /\ pc' = pc /\ full' = TRUE
      /\ list' = list /\ disk' = disk /\ unread' = unread /\ unwritten' = unwritten /\ entry' = entry
      /\ saved' = saved /\ complete' = complete
  BY DEF DiskFills, history
<1>2. FileTypeOK'
  BY <1>1 DEF FileTypeOK
<1>3. DiskInv'
  BY <1>1 DEF DiskInv
<1>4. SavingInv'
  BY <1>1 DEF SavingInv
<1>5. ReadingInv'
  BY <1>1 DEF ReadingInv
<1> QED BY <1>2, <1>3, <1>4, <1>5

LEMMA SaveCloseStep == FileIInv /\ SaveClose => FileIInv'
<1> SUFFICES ASSUME FileIInv, SaveClose PROVE FileIInv'
  OBVIOUS
<1> USE DEF FileIInv
<1>1. /\ pc = "saving" /\ pc' = "ready" /\ entry > Len(list) /\ (unwritten = <<>> \/ full)
      /\ unwritten' = <<>> /\ full' = FALSE /\ complete' = ~full
      /\ list' = list /\ disk' = disk /\ unread' = unread /\ saved' = saved
  BY DEF SaveClose, SaveEnded
<1>2. /\ saved = list /\ saved \in Seq(Seq(Character)) /\ entry \in 1 .. Len(saved) + 1
      /\ ~complete /\ full \in BOOLEAN /\ disk \in Seq(Symbol)
      /\ ~full => disk \o unwritten = Text(SubSeq(saved, 1, entry - 1))
  BY <1>1 DEF FileTypeOK, SavingInv, DiskInv
<1>3. ~full => disk = Text(saved)
  <2> SUFFICES ASSUME ~full PROVE disk = Text(saved)
    OBVIOUS
  <2>1. entry - 1 = Len(saved) /\ unwritten = <<>>
    BY <1>1, <1>2
  <2>2. disk \o <<>> = disk
    BY <1>2, ConcatEmptySeq
  <2>3. SubSeq(saved, 1, Len(saved)) = saved
    BY <1>2, SubSeqFull
  <2> QED BY <1>2, <2>1, <2>2, <2>3
<1>4. <<>> \in Seq(Symbol)
  OBVIOUS
<1>5. FileTypeOK'
  BY <1>1, <1>2, <1>4 DEF FileTypeOK
<1>6. DiskInv'
  BY <1>1, <1>2, <1>3 DEF DiskInv
<1>7. SavingInv'
  BY <1>1 DEF SavingInv
<1>8. ReadingInv'
  BY <1>1 DEF ReadingInv
<1> QED BY <1>5, <1>6, <1>7, <1>8

LEMMA FileStutter == FileIInv /\ UNCHANGED fileVars => FileIInv'
<1> SUFFICES ASSUME FileIInv, UNCHANGED fileVars PROVE FileIInv'
  OBVIOUS
<1> USE DEF FileIInv
<1>1. /\ pc' = pc /\ list' = list /\ disk' = disk /\ unread' = unread /\ unwritten' = unwritten
      /\ entry' = entry /\ full' = full /\ saved' = saved /\ complete' = complete
  BY DEF fileVars
<1>2. FileTypeOK'
  BY <1>1 DEF FileTypeOK
<1>3. DiskInv'
  BY <1>1 DEF DiskInv
<1>4. SavingInv'
  BY <1>1 DEF SavingInv
<1>5. ReadingInv'
  BY <1>1 DEF ReadingInv, ReadingTo, ReadingPast
<1> QED BY <1>2, <1>3, <1>4, <1>5

\* The inductive invariant: the disk holds the list that was saved or a beginning of
\* it, saveplaylist's disk and buffer together the entries it has written, and what
\* readplaylist has read and has not read yet together the file.
THEOREM FileInductive == FileSpec => []FileIInv
<1>1. FileInit => FileIInv
  BY FileInitInv
<1>2. FileIInv /\ [FileNext]_fileVars => FileIInv'
  BY ReadOpenStep, ReadLineStep, ReadEndStep, EditStep, ProcessEndsStep, SaveOpenStep, SaveEntryStep,
     DrainStep, DiskFillsStep, SaveCloseStep, FileStutter DEF FileNext, Reading, Saving, AllRunsOver
<1> QED BY <1>1, <1>2, PTL DEF FileSpec

--------------------------------------------------------------------------------
(* What readplaylist makes of the file.                                    *)

\* What has been read of a file that was written to the end is all of it.
LEMMA WholeFileRead ==
  ASSUME FileIInv, HasRead, complete
  PROVE  saved \in Seq(Seq(Character)) /\ list = Latest(Broken(saved))
<1> USE DEF FileIInv
<1>1. pc = "reading" /\ unread = <<>> /\ saved \in Seq(Seq(Character)) /\ disk # NoFile
  BY DEF HasRead, FileTypeOK, ReadingInv
<1>2. PICK n \in 0 .. Len(Lines(saved)) : ReadingTo(n)
  BY <1>1 DEF ReadingInv, ReadingPast
<1>3. disk = Text(saved) /\ Text(saved) \in Seq(Symbol)
  BY <1>1, FileHolds
<1>4. PICK l : l = Lines(saved)
  OBVIOUS
<1>5. l \in Seq(Seq(Symbol)) /\ Stripped(l) = Broken(saved)
  BY <1>1, <1>4, FileLines
<1>6. FirstOf(l, n) = Text(saved)
  <2>1. FirstOf(l, n) \in Seq(Symbol)
    BY <1>2, <1>4, <1>5, FirstOfRest
  <2>2. FirstOf(l, n) \o <<>> = FirstOf(l, n)
    BY <2>1, ConcatEmptySeq
  <2>3. disk = FirstOf(l, n) \o <<>>
    BY <1>1, <1>2, <1>4 DEF ReadingTo, FirstOf
  <2> QED BY <1>3, <2>2, <2>3
<1>7. n = Len(l)
  BY <1>1, <1>2, <1>4, <1>6, AllLinesRead
<1>8. SubSeq(l, 1, Len(l)) = l
  BY <1>5, SubSeqFull
<1> QED BY <1>1, <1>2, <1>4, <1>5, <1>7, <1>8 DEF ReadingTo

\* readplaylist breaks a path that fills fgets's buffer into pieces of the length of
\* the buffer, and reads every piece of every path that was saved, in order; the list
\* keeps the latest of them.
THEOREM PiecesRead == FileSpec => []LongPathsInPieces
<1>1. FileIInv => LongPathsInPieces
  BY WholeFileRead DEF LongPathsInPieces, Broken
<1> QED BY <1>1, FileInductive, PTL

\* With paths that leave room in the buffer, readplaylist reads back the entries that
\* saveplaylist wrote, of a list that is too long the latest.
THEOREM SavedIsRead == FileSpec => []ReadsBack
<1>1. FileIInv => ReadsBack
  <2> SUFFICES ASSUME FileIInv, HasRead, complete, Short PROVE list = Latest(saved)
    BY DEF ReadsBack
  <2>1. saved \in Seq(Seq(Character)) /\ list = Latest(Broken(saved))
    BY WholeFileRead
  <2>2. AllShort(saved)
    BY DEF Short, AllShort
  <2> QED BY <2>1, <2>2, ShortLines
<1> QED BY <1>1, FileInductive, PTL

\* The first lines of a list of short paths are its first paths.
LEMMA ShortStripped ==
  ASSUME NEW paths \in Seq(Seq(Character)), AllShort(paths), NEW n \in 0 .. Len(Lines(paths))
  PROVE  /\ Len(Lines(paths)) = Len(paths)
         /\ \A i \in 1 .. Len(paths) : Lines(paths)[i] = Append(paths[i], Newline)
         /\ Stripped(SubSeq(Lines(paths), 1, n)) \in Seq(Seq(Symbol))
         /\ Len(Stripped(SubSeq(Lines(paths), 1, n))) = n
         /\ \A i \in 1 .. n : Stripped(SubSeq(Lines(paths), 1, n))[i] = paths[i]
<1>1. PICK l : l = Lines(paths)
  OBVIOUS
<1>2. l = Mapped(WithNewline, paths) /\ Broken(paths) = paths
  BY <1>1, ShortLines
<1>3. Len(l) = Len(paths) /\ \A i \in 1 .. Len(paths) : paths[i] \in Seq(Character) /\ l[i] = WithNewline[paths[i]]
  <2>1. /\ Mapped(WithNewline, paths) \in Seq(Seq(Symbol)) /\ Len(Mapped(WithNewline, paths)) = Len(paths)
        /\ \A i \in 1 .. Len(paths) : paths[i] \in Seq(Character)
                                      /\ Mapped(WithNewline, paths)[i] = WithNewline[paths[i]]
    BY ListMaps, MapIs
  <2> QED BY <1>2, <2>1
<1>4. \A i \in 1 .. Len(paths) : l[i] = Append(paths[i], Newline)
  BY <1>3 DEF WithNewline
<1>5. l \in Seq(Seq(Symbol)) /\ Stripped(l) = paths
  BY <1>1, <1>2, FileLines
<1>6. \A i \in 1 .. Len(l) : Line(l[i]) = paths[i]
  <2>1. DOMAIN l = 1 .. Len(l)
    BY <1>5
  <2> QED BY <1>5, <2>1 DEF Stripped
<1>7. PICK f : f = SubSeq(l, 1, n)
  OBVIOUS
<1>8. n \in Nat /\ n <= Len(l)
  BY <1>1, <1>5
<1>9. f \in Seq(Seq(Symbol)) /\ Len(f) = n /\ \A i \in 1 .. n : f[i] = l[i]
  <2>1. PICK T : T = Seq(Symbol)
    OBVIOUS
  <2>2. 0 \in Nat /\ 0 <= n /\ l \in Seq(T) /\ 0 + 1 = 1 /\ n - 0 = n /\ \A i \in 1 .. n : 0 + i = i
    BY <1>5, <1>8, <2>1
  <2>3. /\ SubSeq(l, 0 + 1, n) \in Seq(T) /\ Len(SubSeq(l, 0 + 1, n)) = n - 0
        /\ \A i \in 1 .. n - 0 : SubSeq(l, 0 + 1, n)[i] = l[0 + i]
    BY <1>8, <2>2, SubSeqIs
  <2> QED BY <1>7, <2>1, <2>2, <2>3
<1>10. PICK g : g = Stripped(f)
  OBVIOUS
<1>11. g = Mapped(Strip, f)
  BY <1>9, <1>10, StrippedIs
<1>12. /\ g \in Seq(Seq(Symbol)) /\ Len(g) = n
       /\ \A i \in 1 .. n : f[i] \in Seq(Symbol) /\ g[i] = Strip[f[i]]
  <2>1. /\ Mapped(Strip, f) \in Seq(Seq(Symbol)) /\ Len(Mapped(Strip, f)) = Len(f)
        /\ \A i \in 1 .. Len(f) : f[i] \in Seq(Symbol) /\ Mapped(Strip, f)[i] = Strip[f[i]]
    <3>1. PICK T : T = Seq(Symbol)
      OBVIOUS
    <3>2. f \in Seq(T) /\ Maps(Strip, T, T)
      BY <1>9, <3>1, ListMaps
    <3> QED BY <3>1, <3>2, MapIs
  <2> QED BY <1>9, <1>11, <2>1
<1>13. \A i \in 1 .. n : g[i] = paths[i]
  <2>1. \A i \in 1 .. n : i \in 1 .. Len(l)
    BY <1>8
  <2> QED BY <1>6, <1>9, <1>12, <2>1 DEF Strip
<1> QED BY <1>1, <1>3, <1>4, <1>7, <1>10, <1>12, <1>13

\* A save cut off by the end of the process or a full disk leaves a beginning of the
\* list: whole entries and at most one, the last, that is cut.
THEOREM CutSaveKept == FileSpec => []CutSaveLeavesBeginning
<1>1. FileIInv => CutSaveLeavesBeginning
  <2> SUFFICES ASSUME FileIInv, HasRead, ~complete, Short
               PROVE  /\ Len(list) <= Len(saved)
                      /\ \A i \in DOMAIN list : IF i < Len(list) THEN list[i] = saved[i]
                                                                 ELSE IsPrefix(list[i], saved[i])
    BY DEF CutSaveLeavesBeginning
  <2> USE DEF FileIInv
  <2>1. pc = "reading" /\ saved \in Seq(Seq(Character)) /\ Len(saved) <= MaxPlayListLen
    BY DEF HasRead, FileTypeOK, DiskInv
  <2>2. AllShort(saved) /\ Len(saved) \in Nat /\ \A i \in 1 .. Len(saved) : saved[i] \in Seq(Character)
    BY <2>1 DEF Short, AllShort
  <2>3. PICK l : l = Lines(saved)
    OBVIOUS
  <2>4. ASSUME NEW n \in 0 .. Len(l)
        PROVE  /\ Len(l) = Len(saved)
               /\ \A i \in 1 .. Len(saved) : l[i] = Append(saved[i], Newline)
               /\ Stripped(SubSeq(l, 1, n)) \in Seq(Seq(Symbol))
               /\ Len(Stripped(SubSeq(l, 1, n))) = n
               /\ \A i \in 1 .. n : Stripped(SubSeq(l, 1, n))[i] = saved[i]
    BY <2>1, <2>2, <2>3, ShortStripped
  <2>5. CASE \E n \in 0 .. Len(Lines(saved)) : ReadingTo(n)
    <3>1. PICK n \in 0 .. Len(l) : list = Latest(Stripped(SubSeq(l, 1, n)))
      BY <2>3, <2>5 DEF ReadingTo
    <3>2. PICK r \in Seq(Seq(Symbol)) : /\ r = Stripped(SubSeq(l, 1, n)) /\ Len(r) = n /\ n <= Len(saved)
                                        /\ \A i \in 1 .. n : r[i] = saved[i]
      BY <2>2, <2>4
    <3>3. list = r /\ Len(r) <= Len(saved)
      <4>1. Len(r) <= MaxPlayListLen
        BY <2>1, <2>2, <3>2, Sizes
      <4> QED BY <3>1, <3>2, <4>1, LatestAll
    <3>4. \A i \in DOMAIN r : r[i] = saved[i] /\ IsPrefix(saved[i], saved[i])
      <4> SUFFICES ASSUME NEW i \in DOMAIN r PROVE r[i] = saved[i] /\ IsPrefix(saved[i], saved[i])
        OBVIOUS
      <4>1. i \in 1 .. n /\ i \in 1 .. Len(saved)
        BY <2>2, <3>2
      <4>2. saved[i] \in Seq(Character)
        BY <2>2, <4>1
      <4> QED BY <3>2, <4>1, <4>2, PrefixItself
    <3> QED BY <3>3, <3>4
  <2>6. CASE \E n \in 0 .. Len(Lines(saved)) - 1 : ReadingPast(n)
    <3>0. PICK n \in 0 .. Len(l) - 1 : ReadingPast(n)
      BY <2>3, <2>6
    <3>1. PICK m \in 0 .. Len(l[n + 1]) - 1 :
            list = Latest(Append(Stripped(SubSeq(l, 1, n)), SubSeq(l[n + 1], 1, m)))
      BY <2>3, <3>0 DEF ReadingPast
    <3>2. Len(l) = Len(saved) /\ n \in 0 .. Len(l) /\ n \in Nat /\ n + 1 \in 1 .. Len(saved) /\ n + 1 <= Len(saved)
      <4>1. l \in Seq(Seq(Symbol))
        BY <2>1, <2>3, FileLines
      <4>2. n \in 0 .. Len(l) /\ n \in Nat /\ n + 1 <= Len(l)
        BY <4>1
      <4> QED BY <2>2, <2>4, <4>2
    <3>3. PICK r \in Seq(Seq(Symbol)) : /\ r = Stripped(SubSeq(l, 1, n)) /\ Len(r) = n
                                        /\ \A i \in 1 .. n : r[i] = saved[i]
      BY <2>4, <3>2
    <3>4. PICK p \in Seq(Character) : p = saved[n + 1] /\ l[n + 1] = Append(p, Newline)
      BY <2>2, <2>4, <3>2
    <3>5. PICK x : x = SubSeq(l[n + 1], 1, m)
      OBVIOUS
    <3>6. x \in Seq(Symbol) /\ IsPrefix(x, p)
      <4>1. PICK t \in Seq(Symbol) : /\ t = l[n + 1] /\ Len(t) = Len(p) + 1 /\ Len(p) \in Nat
                                     /\ \A j \in 1 .. Len(p) : t[j] = p[j]
        <5>1. p \in Seq(Symbol)
          BY Symbols
        <5>2. /\ Append(p, Newline) \in Seq(Symbol) /\ Len(Append(p, Newline)) = Len(p) + 1 /\ Len(p) \in Nat
              /\ \A j \in 1 .. Len(p) : Append(p, Newline)[j] = p[j]
          BY <5>1, Sizes, AppendProperties
        <5> QED BY <3>4, <5>2
      <4>2. m \in Nat /\ m <= Len(p) /\ m <= Len(t) /\ 0 <= m /\ 0 + 1 = 1 /\ m - 0 = m
            /\ \A j \in 1 .. m : 0 + j = j
        BY <4>1
      <4>3. /\ SubSeq(t, 0 + 1, m) \in Seq(Symbol) /\ Len(SubSeq(t, 0 + 1, m)) = m - 0
            /\ \A j \in 1 .. m - 0 : SubSeq(t, 0 + 1, m)[j] = t[0 + j]
        BY <4>2, SubSeqIs
      <4>4. x \in Seq(Symbol) /\ Len(x) = m /\ \A j \in 1 .. m : x[j] = t[j]
        BY <3>5, <4>1, <4>2, <4>3
      <4>5. \A j \in 1 .. m : j \in 1 .. Len(p)
        BY <4>1, <4>2
      <4>6. Len(x) <= Len(p) /\ \A j \in 1 .. Len(x) : x[j] = p[j]
        BY <4>1, <4>2, <4>4, <4>5
      <4>7. p \in Seq(Symbol)
        BY Symbols
      <4> QED BY <4>4, <4>6, <4>7, PrefixIs
    <3>7. PICK a : a = Append(r, x)
      OBVIOUS
    <3>8. /\ a \in Seq(Seq(Symbol)) /\ Len(a) = n + 1 /\ a[n + 1] = x
          /\ \A i \in 1 .. n : a[i] = r[i]
      BY <3>3, <3>6, <3>7, AppendProperties
    <3>9. list = a
      <4>1. Len(a) <= MaxPlayListLen
        BY <2>1, <2>2, <3>2, <3>8, Sizes
      <4> QED BY <3>1, <3>3, <3>5, <3>7, <3>8, <4>1, LatestAll
    <3>10. \A i \in DOMAIN a : IF i < n + 1 THEN a[i] = saved[i] ELSE IsPrefix(a[i], saved[i])
      <4> SUFFICES ASSUME NEW i \in DOMAIN a
                   PROVE  IF i < n + 1 THEN a[i] = saved[i] ELSE IsPrefix(a[i], saved[i])
        OBVIOUS
      <4>1. i \in 1 .. n + 1
        BY <3>8
      <4>2. CASE i < n + 1
        <5>1. i \in 1 .. n
          BY <3>2, <4>1, <4>2
        <5> QED BY <3>3, <3>8, <4>2, <5>1
      <4>3. CASE ~(i < n + 1)
        <5>1. i = n + 1
          BY <3>2, <4>1, <4>3
        <5> QED BY <3>4, <3>6, <3>8, <4>3, <5>1
      <4> QED BY <4>2, <4>3
    <3> QED BY <3>2, <3>8, <3>9, <3>10
  <2> QED BY <2>1, <2>5, <2>6 DEF ReadingInv
<1> QED BY <1>1, FileInductive, PTL
=============================================================================
