--------------------------- MODULE SequenceLemmas ---------------------------
(***************************************************************************)
(* What the sequence operators the models are built from return, for       *)
(* sequences of any length.  The proof modules cite these lemmas by name.  *)
(***************************************************************************)
EXTENDS Integers, SequencesExt, SequenceTheorems, FiniteSetTheorems, WellFoundedInduction, TLAPS

\* A set of positions that is not empty has a least one.
LEMMA LeastPosition ==
  ASSUME NEW S, S \subseteq Nat, S # {}
  PROVE  Min(S) \in S /\ \A x \in S : Min(S) <= x
<1>1. PICK x \in S : \A y \in S : ~ (<<y, x>> \in OpToRel(<, Nat))
  BY NatLessThanWellFounded, WFMin
<1>2. \A y \in S : x <= y
  <2>1. \A y \in S : ~ (y < x)
    <3> SUFFICES ASSUME NEW y \in S, y < x PROVE FALSE
      OBVIOUS
    <3>1. <<y, x>> \in Nat \X Nat /\ <<y, x>>[1] = y /\ <<y, x>>[2] = x
      OBVIOUS
    <3>2. <<y, x>> \in OpToRel(<, Nat)
      BY <3>1, Zenon DEF OpToRel
    <3> QED BY <1>1, <3>2
  <2> QED BY <2>1
<1> QED
  BY <1>2 DEF Min

\* Induction over the positions, without an operator for the predicate.
LEMMA InductionOverPositions ==
  ASSUME NEW S, 0 \in S, \A n \in Nat : n \in S => n + 1 \in S
  PROVE  Nat \subseteq S
<1> DEFINE T == Nat \ S
<1>1. CASE T # {}
  <2>1. Min(T) \in T
    BY <1>1, LeastPosition
  <2>2. \A x \in T : Min(T) <= x
    BY <1>1, LeastPosition
  <2> DEFINE m == Min(T)
  <2> HIDE DEF m
  <2>3. m \in Nat /\ m \notin S /\ \A x \in T : m <= x
    BY <2>1, <2>2 DEF m
  <2>4. m - 1 \in Nat /\ m - 1 \notin T
    BY <2>3
  <2>5. m - 1 \in S /\ (m - 1) + 1 = m
    BY <2>3, <2>4
  <2> QED BY <2>3, <2>4, <2>5
<1> QED
  BY <1>1

\* InsertAt puts e at position i and moves what was there and behind it.
LEMMA InsertAtProperties ==
  ASSUME NEW S, NEW s \in Seq(S), NEW i \in 1..(Len(s) + 1), NEW e \in S
  PROVE  /\ InsertAt(s, i, e) \in Seq(S)
         /\ Len(InsertAt(s, i, e)) = Len(s) + 1
         /\ \A k \in 1..(Len(s) + 1) :
              InsertAt(s, i, e)[k] = IF k < i THEN s[k] ELSE IF k = i THEN e ELSE s[k - 1]
<1> DEFINE u == SubSeq(s, 1, i - 1)
           v == SubSeq(s, i, Len(s))
<1>1. /\ u \in Seq(S) /\ Len(u) = i - 1
      /\ \A k \in 1..(i - 1) : u[k] = s[k]
  <2>1. \A k \in 1..(i - 1) : s[k] \in S
    BY ElementOfSeq
  <2> QED BY <2>1, SubSeqProperties
<1>2. /\ v \in Seq(S) /\ Len(v) = Len(s) - i + 1
      /\ \A k \in 1..(Len(s) - i + 1) : v[k] = s[i + k - 1]
  <2>1. \A k \in i..Len(s) : s[k] \in S
    BY ElementOfSeq
  <2> QED BY <2>1, SubSeqProperties
<1> HIDE DEF u, v
<1>3. /\ u \o <<e>> \in Seq(S) /\ Len(u \o <<e>>) = i
      /\ \A k \in 1..i : (u \o <<e>>)[k] = IF k < i THEN s[k] ELSE e
  <2>1. <<e>> \in Seq(S) /\ Len(<<e>>) = 1 /\ <<e>>[1] = e
    OBVIOUS
  <2>2. /\ u \o <<e>> \in Seq(S)
        /\ Len(u \o <<e>>) = Len(u) + Len(<<e>>)
        /\ \A k \in 1..(Len(u) + Len(<<e>>)) :
             (u \o <<e>>)[k] = IF k <= Len(u) THEN u[k] ELSE <<e>>[k - Len(u)]
    BY <1>1, <2>1, ConcatProperties
  <2>3. Len(u) + Len(<<e>>) = i
    BY <1>1, <2>1
  <2>4. ASSUME NEW k \in 1..i PROVE (u \o <<e>>)[k] = IF k < i THEN s[k] ELSE e
    <3>1. i \in Nat \ {0}
      BY LenProperties
    <3>2. CASE k < i
      BY <1>1, <2>2, <2>3, <3>1, <3>2
    <3>3. CASE k = i
      <4>1. k - Len(u) = 1 /\ ~ (k <= Len(u)) /\ k \in 1..(Len(u) + Len(<<e>>))
        BY <1>1, <2>3, <3>1, <3>3
      <4>2. (u \o <<e>>)[k] = <<e>>[k - Len(u)]
        BY <2>2, <4>1
      <4> QED BY <2>1, <3>1, <3>3, <4>1, <4>2
    <3>4. k < i \/ k = i
      BY <3>1
    <3> QED BY <3>2, <3>3, <3>4
  <2> QED BY <2>2, <2>3, <2>4
<1>4. /\ (u \o <<e>>) \o v \in Seq(S)
      /\ Len((u \o <<e>>) \o v) = Len(s) + 1
      /\ \A k \in 1..(Len(s) + 1) :
           ((u \o <<e>>) \o v)[k] = IF k <= i THEN (u \o <<e>>)[k] ELSE v[k - i]
  <2>1. Len(s) \in Nat
    BY LenProperties
  <2> DEFINE w == u \o <<e>>
  <2> HIDE DEF w
  <2>2. w \in Seq(S) /\ Len(w) = i
    BY <1>3 DEF w
  <2>3. /\ w \o v \in Seq(S)
        /\ Len(w \o v) = Len(w) + Len(v)
        /\ \A k \in 1..(Len(w) + Len(v)) :
             (w \o v)[k] = IF k <= Len(w) THEN w[k] ELSE v[k - Len(w)]
    BY <1>2, <2>2, ConcatProperties
  <2>4. Len(w) + Len(v) = Len(s) + 1
    BY <1>2, <2>1, <2>2
  <2> QED BY <2>2, <2>3, <2>4 DEF w
<1>5. InsertAt(s, i, e) = (u \o <<e>>) \o v
  BY DEF InsertAt, u, v
<1>6. ASSUME NEW k \in 1..(Len(s) + 1)
      PROVE  ((u \o <<e>>) \o v)[k] = IF k < i THEN s[k] ELSE IF k = i THEN e ELSE s[k - 1]
  <2>1. Len(s) \in Nat
    BY LenProperties
  <2>2. CASE k <= i
    BY <1>3, <1>4, <2>1, <2>2
  <2>3. CASE k > i
    <3>1. k - i \in 1..(Len(s) - i + 1) /\ i + (k - i) - 1 = k - 1
      BY <2>1, <2>3
    <3>2. v[k - i] = s[k - 1]
      BY <1>2, <3>1
    <3>3. i \in Nat /\ ~ (k <= i) /\ ~ (k < i) /\ k # i
      BY <2>1, <2>3
    <3>4. ((u \o <<e>>) \o v)[k] = v[k - i]
      BY <1>4, <3>3
    <3> QED BY <3>2, <3>3, <3>4
  <2>4. k <= i \/ k > i
    BY <2>1
  <2> QED BY <2>2, <2>3, <2>4
<1> QED
  BY <1>4, <1>5, <1>6

\* RemoveAt closes the gap at position i.
LEMMA RemoveAtProperties ==
  ASSUME NEW S, NEW s \in Seq(S), NEW i \in 1..Len(s)
  PROVE  /\ RemoveAt(s, i) \in Seq(S)
         /\ Len(RemoveAt(s, i)) = Len(s) - 1
         /\ \A k \in 1..(Len(s) - 1) :
              RemoveAt(s, i)[k] = IF k < i THEN s[k] ELSE s[k + 1]
<1> DEFINE u == SubSeq(s, 1, i - 1)
           v == SubSeq(s, i + 1, Len(s))
<1>1. /\ u \in Seq(S) /\ Len(u) = i - 1
      /\ \A k \in 1..(i - 1) : u[k] = s[k]
  <2>1. \A k \in 1..(i - 1) : s[k] \in S
    BY ElementOfSeq
  <2> QED BY <2>1, SubSeqProperties
<1>2. /\ v \in Seq(S) /\ Len(v) = Len(s) - i
      /\ \A k \in 1..(Len(s) - i) : v[k] = s[i + k]
  <2>1. \A k \in (i + 1)..Len(s) : s[k] \in S
    BY ElementOfSeq
  <2> QED BY <2>1, SubSeqProperties
<1> HIDE DEF u, v
<1>3. /\ u \o v \in Seq(S) /\ Len(u \o v) = Len(s) - 1
      /\ \A k \in 1..(Len(s) - 1) : (u \o v)[k] = IF k <= i - 1 THEN u[k] ELSE v[k - (i - 1)]
  <2>1. Len(s) \in Nat
    BY LenProperties
  <2>2. /\ u \o v \in Seq(S)
        /\ Len(u \o v) = Len(u) + Len(v)
        /\ \A k \in 1..(Len(u) + Len(v)) :
             (u \o v)[k] = IF k <= Len(u) THEN u[k] ELSE v[k - Len(u)]
    BY <1>1, <1>2, ConcatProperties
  <2>3. Len(u) + Len(v) = Len(s) - 1
    BY <1>1, <1>2, <2>1
  <2> QED BY <1>1, <2>2, <2>3
<1>4. \A k \in 1..(Len(s) - 1) : (u \o v)[k] = IF k < i THEN s[k] ELSE s[k + 1]
  <2> TAKE k \in 1..(Len(s) - 1)
  <2>1. CASE k < i
    BY <1>1, <1>3, <2>1
  <2>2. CASE ~ (k < i)
    <3>1. Len(s) \in Nat
      BY LenProperties
    <3>2. k - (i - 1) \in 1..(Len(s) - i) /\ i + (k - (i - 1)) = k + 1
      BY <2>2, <3>1
    <3>3. v[k - (i - 1)] = s[k + 1]
      BY <1>2, <3>2
    <3> QED BY <1>3, <2>2, <3>3
  <2> QED BY <2>1, <2>2
<1>5. RemoveAt(s, i) = u \o v
  BY DEF RemoveAt, u, v
<1> QED
  BY <1>3, <1>4, <1>5

\* A sequence with e in front of it.
LEMMA PushFrontProperties ==
  ASSUME NEW S, NEW s \in Seq(S), NEW e \in S
  PROVE  /\ <<e>> \o s \in Seq(S)
         /\ Len(<<e>> \o s) = Len(s) + 1
         /\ \A k \in 1..(Len(s) + 1) : (<<e>> \o s)[k] = IF k = 1 THEN e ELSE s[k - 1]
<1>1. <<e>> \in Seq(S) /\ Len(<<e>>) = 1 /\ <<e>>[1] = e
  OBVIOUS
<1>2. /\ <<e>> \o s \in Seq(S)
      /\ Len(<<e>> \o s) = 1 + Len(s)
      /\ \A k \in 1..(1 + Len(s)) :
           (<<e>> \o s)[k] = IF k <= 1 THEN <<e>>[k] ELSE s[k - 1]
  BY <1>1, ConcatProperties
<1>3. Len(s) \in Nat
  BY LenProperties
<1> QED
  BY <1>1, <1>2, <1>3

\* The first of a sequence, and what is behind it.
LEMMA TailProperties ==
  ASSUME NEW S, NEW s \in Seq(S), s # <<>>
  PROVE  /\ 1 \in 1..Len(s) /\ Head(s) = s[1]
         /\ Tail(s) \in Seq(S)
         /\ Len(Tail(s)) = Len(s) - 1
         /\ \A k \in 1..(Len(s) - 1) : Tail(s)[k] = s[k + 1]
<1>1. Len(s) \in Nat \ {0}
  BY EmptySeq
<1>2. Head(s) = s[1]
  OBVIOUS
<1> QED
  BY <1>1, <1>2, HeadTailProperties

\* A set of positive numbers that has all those below each of its own is an interval.
LEMMA ClosedIsInterval ==
  ASSUME NEW N \in Nat, NEW D, D \subseteq 1..N, \A n \in D : 1..n \subseteq D
  PROVE  D = 1..Cardinality(D)
<1> DEFINE S == {n \in Nat : n + 1 \notin D}
           k == Min(S)
<1>1. N \in S
  OBVIOUS
<1>2. k \in S /\ \A n \in S : k <= n
  BY <1>1, LeastPosition
<1> HIDE DEF k
<1>3. D \subseteq 1..k
  <2> SUFFICES ASSUME NEW d \in D PROVE d \in 1..k
    OBVIOUS
  <2>1. d \in Nat /\ d >= 1 /\ k \in Nat /\ 1..d \subseteq D /\ k + 1 \notin D
    BY <1>2
  <2> QED BY <2>1
<1>4. 1..k \subseteq D
  <2> SUFFICES ASSUME NEW d \in 1..k PROVE d \in D
    OBVIOUS
  <2>1. d - 1 \in Nat /\ ~ (k <= d - 1) /\ (d - 1) + 1 = d
    BY <1>2
  <2> QED BY <1>2, <2>1
<1>5. \A n \in Nat : Cardinality(1..n) = n
  BY FS_Interval
<1> QED
  BY <1>2, <1>3, <1>4, <1>5

\* No element is in s twice.
Distinct(s) == \A i, j \in 1..Len(s) : s[i] = s[j] => i = j

\* Where the element at i of RemoveAt(s, q) is in s.
OldPlace(q, i) == IF i < q THEN i ELSE i + 1

\* A sequence of distinct elements without one of them.
LEMMA RemoveAtPlaces ==
  ASSUME NEW S, NEW s \in Seq(S), Distinct(s), NEW q \in 1..Len(s)
  PROVE  LET t == RemoveAt(s, q)
         IN  /\ t \in Seq(S) /\ Len(t) = Len(s) - 1 /\ Distinct(t)
             /\ \A i \in 1..Len(t) : /\ OldPlace(q, i) \in 1..Len(s) /\ OldPlace(q, i) # q
                                     /\ t[i] = s[OldPlace(q, i)]
             /\ \A i \in 1..Len(s) : i # q => \E j \in 1..Len(t) : OldPlace(q, j) = i
<1> DEFINE t == RemoveAt(s, q)
<1>0. Len(s) \in Nat
  BY LenProperties
<1>1. /\ t \in Seq(S) /\ Len(t) = Len(s) - 1
      /\ \A i \in 1..(Len(s) - 1) : t[i] = IF i < q THEN s[i] ELSE s[i + 1]
  BY RemoveAtProperties
<1> HIDE DEF t
<1>2. ASSUME NEW i \in 1..Len(t)
      PROVE  /\ OldPlace(q, i) \in 1..Len(s) /\ OldPlace(q, i) # q
             /\ t[i] = s[OldPlace(q, i)]
  BY <1>0, <1>1 DEF OldPlace
<1>3. Distinct(t)
  <2> SUFFICES ASSUME NEW i \in 1..Len(t), NEW j \in 1..Len(t), t[i] = t[j]
               PROVE  i = j
    BY DEF Distinct
  <2>1. OldPlace(q, i) = OldPlace(q, j)
    BY <1>2 DEF Distinct
  <2> QED BY <1>0, <1>1, <2>1 DEF OldPlace
<1>4. ASSUME NEW i \in 1..Len(s), i # q
      PROVE  \E j \in 1..Len(t) : OldPlace(q, j) = i
  <2> DEFINE j == IF i < q THEN i ELSE i - 1
  <2>1. j \in 1..Len(t) /\ OldPlace(q, j) = i
    BY <1>0, <1>1, <1>4 DEF OldPlace
  <2> QED BY <2>1
<1> QED
  BY <1>1, <1>2, <1>3, <1>4 DEF t

\* One with a new element behind, or in front.
LEMMA AppendPlaces ==
  ASSUME NEW S, NEW s \in Seq(S), Distinct(s), NEW e \in S, \A i \in 1..Len(s) : s[i] # e
  PROVE  LET t == Append(s, e)
         IN  /\ t \in Seq(S) /\ Len(t) = Len(s) + 1 /\ Distinct(t)
             /\ t[Len(s) + 1] = e /\ \A i \in 1..Len(s) : t[i] = s[i]
<1> DEFINE t == Append(s, e)
<1>1. /\ Len(s) \in Nat /\ t \in Seq(S) /\ Len(t) = Len(s) + 1
      /\ t[Len(s) + 1] = e /\ \A i \in 1..Len(s) : t[i] = s[i]
  BY LenProperties, AppendProperties
<1> HIDE DEF t
<1>2. Distinct(t)
  <2> SUFFICES ASSUME NEW i \in 1..Len(t), NEW j \in 1..Len(t), t[i] = t[j]
               PROVE  i = j
    BY DEF Distinct
  <2>1. (i \in 1..Len(s) \/ i = Len(s) + 1) /\ (j \in 1..Len(s) \/ j = Len(s) + 1)
    BY <1>1
  <2> QED BY <1>1, <2>1 DEF Distinct
<1> QED
  BY <1>1, <1>2 DEF t

LEMMA PushFrontPlaces ==
  ASSUME NEW S, NEW s \in Seq(S), Distinct(s), NEW e \in S, \A i \in 1..Len(s) : s[i] # e
  PROVE  LET t == <<e>> \o s
         IN  /\ t \in Seq(S) /\ Len(t) = Len(s) + 1 /\ Distinct(t)
             /\ t[1] = e /\ \A i \in 1..Len(s) : t[i + 1] = s[i]
<1> DEFINE t == <<e>> \o s
<1>1. /\ Len(s) \in Nat /\ t \in Seq(S) /\ Len(t) = Len(s) + 1
      /\ \A k \in 1..(Len(s) + 1) : t[k] = IF k = 1 THEN e ELSE s[k - 1]
  BY LenProperties, PushFrontProperties
<1> HIDE DEF t
<1>2. t[1] = e /\ \A i \in 1..Len(s) : t[i + 1] = s[i]
  <2>1. \A i \in 1..Len(s) : i + 1 \in 1..(Len(s) + 1) /\ i + 1 # 1 /\ (i + 1) - 1 = i
    BY <1>1
  <2> QED BY <1>1, <2>1
<1>3. Distinct(t)
  <2> SUFFICES ASSUME NEW i \in 1..Len(t), NEW j \in 1..Len(t), t[i] = t[j]
               PROVE  i = j
    BY DEF Distinct
  <2>1. /\ i = 1 \/ (i - 1 \in 1..Len(s) /\ t[i] = s[i - 1])
        /\ j = 1 \/ (j - 1 \in 1..Len(s) /\ t[j] = s[j - 1])
    BY <1>1
  <2>2. i = 1 <=> j = 1
    BY <1>2, <2>1
  <2>3. i # 1 => i - 1 = j - 1
    BY <2>1, <2>2 DEF Distinct
  <2> QED BY <1>1, <2>2, <2>3
<1> QED
  BY <1>1, <1>2, <1>3 DEF t

-----------------------------------------------------------------------------
(* FlattenSeq.                                                             *)

\* f is the function FlattenSeq recurs over: the first i rows of r, joined.
RowsJoined(f, r, n) == f = [i \in 1..n |-> IF i = 1 THEN r[i] ELSE f[i - 1] \o r[i]]

\* What f is, at each of its places.
LEMMA JoinedReads ==
  ASSUME NEW r, NEW n \in Nat, NEW f, RowsJoined(f, r, n), NEW i \in 1..n
  PROVE  f[i] = IF i = 1 THEN r[i] ELSE f[i - 1] \o r[i]
BY Zenon DEF RowsJoined

\* There is such a function, for every number of rows.
LEMMA JoinedExists ==
  ASSUME NEW r
  PROVE  \A n \in Nat : \E f : RowsJoined(f, r, n)
<1> DEFINE S == {n \in Nat : \E f : RowsJoined(f, r, n)}
<1>1. 0 \in S
  <2>1. RowsJoined([i \in 1..0 |-> 0], r, 0)
    BY DEF RowsJoined
  <2> QED BY <2>1
<1>2. ASSUME NEW n \in Nat, n \in S PROVE n + 1 \in S
  <2>1. PICK f : RowsJoined(f, r, n)
    BY <1>2
  <2> DEFINE g == [i \in 1..(n + 1) |-> IF i <= n THEN f[i] ELSE IF i = 1 THEN r[i] ELSE f[i - 1] \o r[i]]
             k == [i \in 1..(n + 1) |-> IF i = 1 THEN r[i] ELSE g[i - 1] \o r[i]]
  <2>2. ASSUME NEW i \in 1..(n + 1) PROVE g[i] = k[i]
    <3>1. CASE i \in 1..n
      <4>1. g[i] = f[i] /\ (i # 1 => g[i - 1] = f[i - 1])
        BY <3>1
      <4>2. k[i] = IF i = 1 THEN r[i] ELSE g[i - 1] \o r[i]
        BY <3>1
      <4>3. f[i] = IF i = 1 THEN r[i] ELSE f[i - 1] \o r[i]
        BY <2>1, <3>1, JoinedReads
      <4> HIDE DEF g, k
      <4> QED BY <4>1, <4>2, <4>3
    <3>2. CASE i = n + 1
      <4>1. g[i] = IF i = 1 THEN r[i] ELSE f[i - 1] \o r[i]
        BY <3>2
      <4>2. i # 1 => g[i - 1] = f[i - 1]
        BY <3>2
      <4>3. k[i] = IF i = 1 THEN r[i] ELSE g[i - 1] \o r[i]
        BY <3>2
      <4> HIDE DEF g, k
      <4> QED BY <4>1, <4>2, <4>3
    <3> QED BY <3>1, <3>2
  <2>3. g = [i \in 1..(n + 1) |-> g[i]] /\ k = [i \in 1..(n + 1) |-> k[i]]
    OBVIOUS
  <2>4. g = k
    <3> HIDE DEF g, k
    <3> QED BY <2>2, <2>3
  <2>5. RowsJoined(g, r, n + 1)
    <3> HIDE DEF g
    <3> QED BY <2>4, Zenon DEF RowsJoined
  <2> HIDE DEF g
  <2> QED BY <2>5
<1> HIDE DEF S
<1>3. Nat \subseteq S
  BY <1>1, <1>2, InductionOverPositions
<1> QED BY <1>3 DEF S

\* One row more changes nothing of the joining before.
SameRows(r, q, n) == \A i \in 1..n : r[i] = q[i]

\* Rows that agree join to the same.
LEMMA JoinedAgree ==
  ASSUME NEW r, NEW q, NEW n \in Nat, NEW f, NEW g,
         RowsJoined(f, r, n), RowsJoined(g, q, n + 1), SameRows(r, q, n)
  PROVE  SameRows(f, g, n)
<1> DEFINE S == {i \in Nat : i \in 1..n => f[i] = g[i]}
<1>1. 0 \in S
  OBVIOUS
<1>2. ASSUME NEW i \in Nat, i \in S PROVE i + 1 \in S
  <2> SUFFICES ASSUME i + 1 \in 1..n PROVE f[i + 1] = g[i + 1]
    OBVIOUS
  <2>1. i + 1 \in 1..n /\ i + 1 \in 1..(n + 1) /\ (i + 1) - 1 = i /\ (i + 1 # 1 => i \in 1..n)
    OBVIOUS
  <2>2. f[i + 1] = IF i + 1 = 1 THEN r[i + 1] ELSE f[(i + 1) - 1] \o r[i + 1]
    BY <2>1, JoinedReads
  <2>3. g[i + 1] = IF i + 1 = 1 THEN q[i + 1] ELSE g[(i + 1) - 1] \o q[i + 1]
    BY <2>1, JoinedReads
  <2>4. r[i + 1] = q[i + 1] /\ (i + 1 # 1 => f[(i + 1) - 1] = g[(i + 1) - 1])
    BY <1>2, <2>1 DEF SameRows
  <2> QED BY <2>2, <2>3, <2>4
<1> HIDE DEF S
<1>3. Nat \subseteq S
  BY <1>1, <1>2, InductionOverPositions
<1> QED BY <1>3 DEF S, SameRows

\* FlattenSeq returns the last value of such a function.
LEMMA FlattenIsJoined ==
  ASSUME NEW S, NEW r \in Seq(S), Len(r) # 0
  PROVE  \E f : RowsJoined(f, r, Len(r)) /\ FlattenSeq(r) = f[Len(r)]
<1>1. Len(r) \in Nat
  BY LenProperties
<1>2. \E f : RowsJoined(f, r, Len(r))
  BY <1>1, JoinedExists
<1> DEFINE f == CHOOSE f : f = [i \in 1..Len(r) |-> IF i = 1 THEN r[i] ELSE f[i - 1] \o r[i]]
<1>3. RowsJoined(f, r, Len(r))
  BY <1>2, Zenon DEF RowsJoined
<1>4. FlattenSeq(r) = f[Len(r)]
  BY DEF FlattenSeq
<1> QED BY <1>3, <1>4

\* Concatenation of three is associative; the predicate is for the provers' sake.
AllSeqs(E, a, b, c) == a \in Seq(E) /\ b \in Seq(E) /\ c \in Seq(E)

LEMMA ConcatThree ==
  ASSUME NEW E, NEW a, NEW b, NEW c, AllSeqs(E, a, b, c)
  PROVE  (a \o b) \o c = a \o (b \o c)
<1>1. a \in Seq(E) /\ b \in Seq(E) /\ c \in Seq(E)
  BY DEF AllSeqs
<1> QED BY <1>1, ConcatAssociative

\* No rows.
LEMMA FlattenEmpty == FlattenSeq(<<>>) = <<>>
BY DEF FlattenSeq

\* One more row joins at the end.
LEMMA FlattenAppend ==
  ASSUME NEW E, NEW r \in Seq(Seq(E)), NEW x \in Seq(E)
  PROVE  FlattenSeq(Append(r, x)) = FlattenSeq(r) \o x
<1> DEFINE q == Append(r, x)
           n == Len(r)
<1>1. /\ q \in Seq(Seq(E)) /\ n \in Nat /\ Len(q) = n + 1 /\ q[n + 1] = x
      /\ \A i \in 1..n : q[i] = r[i]
  BY AppendProperties, LenProperties
<1> HIDE DEF q
<1>2. PICK g : RowsJoined(g, q, n + 1) /\ FlattenSeq(q) = g[n + 1]
  BY <1>1, FlattenIsJoined
<1>3. g[n + 1] = IF n + 1 = 1 THEN q[n + 1] ELSE g[(n + 1) - 1] \o q[n + 1]
  BY <1>1, <1>2, JoinedReads
<1>4. CASE n = 0
  <2>1. r = <<>>
    BY <1>4, EmptySeq
  <2>2. FlattenSeq(r) = <<>> /\ <<>> \o x = x
    BY <2>1, FlattenEmpty, ConcatEmptySeq
  <2> QED BY <1>1, <1>2, <1>3, <1>4, <2>2 DEF q
<1>5. CASE n # 0
  <2>1. PICK f : RowsJoined(f, r, n) /\ FlattenSeq(r) = f[n]
    BY <1>5, FlattenIsJoined
  <2> HIDE DEF n
  <2>2. n \in Nat /\ SameRows(r, q, n)
    BY <1>1 DEF SameRows
  <2>3. RowsJoined(f, r, n) /\ RowsJoined(g, q, n + 1)
    BY <1>2, <2>1
  <2>4. SameRows(f, g, n)
    BY <2>2, <2>3, JoinedAgree
  <2>5. n \in 1..n /\ (n + 1) - 1 = n /\ n + 1 # 1
    BY <1>5, <2>2
  <2>6. f[n] = g[n]
    BY <2>4, <2>5 DEF SameRows
  <2> QED BY <1>1, <1>2, <1>3, <2>1, <2>5, <2>6 DEF q
<1> QED BY <1>4, <1>5

\* r is u with one element more.
Extends(r, u, n) == Len(u) = n /\ r = Append(u, r[n + 1]) /\ SameRows(u, r, n)

\* A sequence that is not empty is another with one element more.
LEMMA SplitLast ==
  ASSUME NEW E, NEW r \in Seq(E), NEW n \in Nat, Len(r) = n + 1
  PROVE  /\ r[n + 1] \in E
         /\ \E u \in Seq(E) : Extends(r, u, n)
<1> DEFINE u == SubSeq(r, 1, n)
           v == Append(u, r[n + 1])
<1>1. \A i \in 1..(n + 1) : r[i] \in E
  BY ElementOfSeq
<1>2. u \in Seq(E) /\ Len(u) = n /\ \A i \in 1..n : u[i] = r[i]
  BY <1>1, SubSeqProperties
<1> HIDE DEF u
<1>3. /\ v \in Seq(E) /\ Len(v) = n + 1 /\ v[n + 1] = r[n + 1]
      /\ \A i \in 1..n : v[i] = u[i]
  BY <1>1, <1>2, AppendProperties
<1> HIDE DEF v
<1>4. \A i \in 1..(n + 1) : v[i] = r[i]
  BY <1>2, <1>3
<1>5. r = v
  BY <1>3, <1>4, SeqEqual
<1>6. r[n + 1] \in E
  BY <1>1
<1> QED
  BY <1>2, <1>5, <1>6 DEF v, Extends, SameRows

\* The j-th entry of row i stands before the g-th of row h.
RowOrder(i, j, h, g) == i < h \/ (i = h /\ j < g)

\* Every entry of the rows r has a place in F, and the places of F are in the order of the rows.
HasPlaces(r, F) ==
  \A i \in 1..Len(r) : \A j \in 1..Len(r[i]) : \E k \in 1..Len(F) : F[k] = r[i][j]
ComesFrom(r, e, i, j) == i \in 1..Len(r) /\ j \in 1..Len(r[i]) /\ e = r[i][j]
PlacesOrdered(r, F) ==
  /\ \A k \in 1..Len(F) : \E i, j : ComesFrom(r, F[k], i, j)
  /\ \A k, l \in 1..Len(F) : k < l =>
       \E i, j, h, g : ComesFrom(r, F[k], i, j) /\ ComesFrom(r, F[l], h, g) /\ RowOrder(i, j, h, g)

\* One row more keeps the places, behind those there were.
LEMMA PlacesAppend ==
  ASSUME NEW E, NEW r \in Seq(Seq(E)), NEW x \in Seq(E), NEW F \in Seq(E),
         HasPlaces(r, F), PlacesOrdered(r, F)
  PROVE  HasPlaces(Append(r, x), F \o x) /\ PlacesOrdered(Append(r, x), F \o x)
<1> DEFINE q == Append(r, x)
           G == F \o x
           n == Len(r)
<1>1. /\ n \in Nat /\ Len(q) = n + 1 /\ q[n + 1] = x
      /\ \A i \in 1..n : q[i] = r[i]
  BY AppendProperties, LenProperties
<1>2. /\ Len(F) \in Nat /\ Len(x) \in Nat /\ Len(G) = Len(F) + Len(x)
      /\ \A k \in 1..Len(F) : G[k] = F[k]
      /\ \A k \in (Len(F) + 1)..(Len(F) + Len(x)) : G[k] = x[k - Len(F)]
  BY ConcatProperties, LenProperties
<1> HIDE DEF q, G, n
<1>3. ASSUME NEW i \in 1..Len(q), NEW j \in 1..Len(q[i])
      PROVE  \E k \in 1..Len(G) : G[k] = q[i][j]
  <2>1. CASE i \in 1..n
    <3>1. PICK k \in 1..Len(F) : F[k] = r[i][j]
      BY <1>1, <2>1 DEF HasPlaces, n
    <3>2. k \in 1..Len(G) /\ G[k] = q[i][j]
      BY <1>1, <1>2, <2>1, <3>1
    <3> QED BY <3>2
  <2>2. CASE i = n + 1
    <3> DEFINE k == Len(F) + j
    <3>1. j \in 1..Len(x) /\ q[i][j] = x[j]
      BY <1>1, <2>2
    <3>2. k \in (Len(F) + 1)..(Len(F) + Len(x)) /\ k - Len(F) = j /\ k \in 1..Len(G)
      BY <1>2, <3>1
    <3> HIDE DEF k
    <3>3. G[k] = q[i][j]
      BY <1>2, <3>1, <3>2
    <3> QED BY <3>2, <3>3
  <2> QED BY <1>1, <2>1, <2>2
<1>4. ASSUME NEW e, NEW i, NEW j, ComesFrom(r, e, i, j) PROVE ComesFrom(q, e, i, j)
  BY <1>1, <1>4 DEF ComesFrom, n
<1>5. ASSUME NEW k \in 1..Len(F)
      PROVE  \E i, j : i <= n /\ i \in Nat /\ ComesFrom(q, G[k], i, j)
  <2>1. PICK i, j : ComesFrom(r, F[k], i, j)
    BY DEF PlacesOrdered
  <2>2. i <= n /\ i \in Nat
    BY <1>1, <2>1 DEF ComesFrom, n
  <2>3. ComesFrom(q, G[k], i, j)
    BY <1>2, <1>4, <2>1
  <2> QED BY <2>2, <2>3
<1>6. ASSUME NEW k \in 1..Len(G), ~ (k <= Len(F))
      PROVE  k - Len(F) \in Nat /\ ComesFrom(q, G[k], n + 1, k - Len(F))
  BY <1>1, <1>2, <1>6 DEF ComesFrom
<1>7. ASSUME NEW k \in 1..Len(G) PROVE \E i, j : ComesFrom(q, G[k], i, j)
  BY <1>2, <1>5, <1>6
<1>8. ASSUME NEW k \in 1..Len(G), NEW l \in 1..Len(G), k < l
      PROVE  \E i, j, h, g : ComesFrom(q, G[k], i, j) /\ ComesFrom(q, G[l], h, g) /\ RowOrder(i, j, h, g)
  <2>1. CASE l <= Len(F)
    <3>1. k \in 1..Len(F) /\ l \in 1..Len(F)
      BY <1>2, <1>8, <2>1
    <3>2. PICK i, j, h, g : ComesFrom(r, F[k], i, j) /\ ComesFrom(r, F[l], h, g) /\ RowOrder(i, j, h, g)
      BY <1>8, <3>1 DEF PlacesOrdered
    <3>3. ComesFrom(q, G[k], i, j) /\ ComesFrom(q, G[l], h, g)
      BY <1>2, <1>4, <3>1, <3>2
    <3> QED BY <3>2, <3>3
  <2>2. CASE k <= Len(F) /\ ~ (l <= Len(F))
    <3>1. k \in 1..Len(F)
      BY <1>2, <2>2
    <3>2. PICK i, j : i <= n /\ i \in Nat /\ ComesFrom(q, G[k], i, j)
      BY <1>5, <3>1
    <3>3. ComesFrom(q, G[l], n + 1, l - Len(F))
      BY <1>6, <2>2
    <3>4. RowOrder(i, j, n + 1, l - Len(F))
      BY <1>1, <3>2 DEF RowOrder
    <3> QED BY <3>2, <3>3, <3>4
  <2>3. CASE ~ (k <= Len(F)) /\ ~ (l <= Len(F))
    <3>1. ComesFrom(q, G[k], n + 1, k - Len(F)) /\ ComesFrom(q, G[l], n + 1, l - Len(F))
      BY <1>6, <2>3
    <3>2. RowOrder(n + 1, k - Len(F), n + 1, l - Len(F))
      BY <1>2, <1>8 DEF RowOrder
    <3> QED BY <3>1, <3>2
  <2> QED BY <1>2, <1>8, <2>1, <2>2, <2>3
<1> QED
  BY <1>3, <1>7, <1>8 DEF HasPlaces, PlacesOrdered, q, G

\* What FlattenSeq returns: the entries of the rows, row after row.
LEMMA FlattenPlaces ==
  ASSUME NEW E, NEW r \in Seq(Seq(E))
  PROVE  FlattenSeq(r) \in Seq(E) /\ HasPlaces(r, FlattenSeq(r)) /\ PlacesOrdered(r, FlattenSeq(r))
<1> DEFINE Good(q) == /\ FlattenSeq(q) \in Seq(E)
                      /\ HasPlaces(q, FlattenSeq(q))
                      /\ PlacesOrdered(q, FlattenSeq(q))
           S == {n \in Nat : \A q \in Seq(Seq(E)) : Len(q) = n => Good(q)}
<1>1. 0 \in S
  <2>1. ASSUME NEW q \in Seq(Seq(E)), Len(q) = 0 PROVE Good(q)
    <3>1. q = <<>> /\ FlattenSeq(q) = <<>>
      BY <2>1, EmptySeq, FlattenEmpty
    <3>2. FlattenSeq(q) \in Seq(E) /\ Len(FlattenSeq(q)) = 0 /\ Len(q) = 0
      BY <3>1, EmptySeq
    <3> QED BY <3>2 DEF HasPlaces, PlacesOrdered
  <2> QED BY <2>1
<1>2. ASSUME NEW n \in Nat, n \in S PROVE n + 1 \in S
  <2>1. ASSUME NEW q \in Seq(Seq(E)), Len(q) = n + 1 PROVE Good(q)
    <3>1. /\ q[n + 1] \in Seq(E)
          /\ \E u \in Seq(Seq(E)) : Extends(q, u, n)
      BY <2>1, SplitLast
    <3>2. PICK u \in Seq(Seq(E)) : Len(u) = n /\ q = Append(u, q[n + 1])
      BY <3>1 DEF Extends
    <3>3. Good(u)
      BY <1>2, <3>2
    <3> DEFINE x == q[n + 1]
    <3>4. x \in Seq(E) /\ q = Append(u, x)
      BY <3>1, <3>2
    <3> HIDE DEF x
    <3>5. FlattenSeq(q) = FlattenSeq(u) \o x
      BY <3>4, FlattenAppend
    <3>6. FlattenSeq(q) \in Seq(E)
      BY <3>3, <3>4, <3>5, ConcatProperties
    <3>7. HasPlaces(q, FlattenSeq(u) \o x) /\ PlacesOrdered(q, FlattenSeq(u) \o x)
      BY <3>3, <3>4, PlacesAppend
    <3> QED BY <3>5, <3>6, <3>7
  <2> HIDE DEF Good
  <2> QED BY <2>1
<1> HIDE DEF S
<1>3. Nat \subseteq S
  BY <1>1, <1>2, InductionOverPositions
<1> QED
  BY <1>3, LenProperties DEF S

-----------------------------------------------------------------------------
(* Division of natural numbers.                                            *)

\* A number is its quotient and its remainder.
LEMMA DivMod ==
  ASSUME NEW n \in Nat, NEW d \in Nat \ {0}
  PROVE  n \div d \in Nat /\ n % d \in 0..(d - 1) /\ n = d * (n \div d) + (n % d)
OBVIOUS

\* Multiples of c are c apart.
LEMMA LessTimes ==
  ASSUME NEW a \in Nat, NEW b \in Nat, NEW c \in Nat, a < b
  PROVE  a * c + c <= b * c
<1>1. PICK k \in Nat : b = a + 1 + k
  <2>1. b - a - 1 \in Nat /\ b = a + 1 + (b - a - 1)
    OBVIOUS
  <2> QED BY <2>1
<1>2. b * c = a * c + c + k * c
  BY <1>1
<1>3. k * c \in Nat
  BY <1>1
<1>4. a * c \in Nat
  OBVIOUS
<1> QED BY <1>2, <1>3, <1>4

\* A quotient and a remainder are the only ones.
LEMMA DivUnique ==
  ASSUME NEW d \in Nat \ {0}, NEW t \in Nat, NEW s \in 0..(d - 1), NEW u \in Nat, NEW v \in 0..(d - 1),
         t * d + s = u * d + v
  PROVE  t = u /\ s = v
<1>1. t * d \in Nat /\ u * d \in Nat
  OBVIOUS
<1>2. ASSUME t < u PROVE FALSE
  <2>1. t * d + d <= u * d
    BY <1>2, LessTimes
  <2> QED BY <1>1, <2>1
<1>3. ASSUME u < t PROVE FALSE
  <2>1. u * d + d <= t * d
    BY <1>3, LessTimes
  <2> QED BY <1>1, <2>1
<1>4. t = u
  BY <1>2, <1>3
<1> QED BY <1>4, <1>1

\* The quotient of a number given by a quotient and a remainder.
LEMMA DivIs ==
  ASSUME NEW d \in Nat \ {0}, NEW t \in Nat, NEW s \in 0..(d - 1)
  PROVE  (t * d + s) \div d = t /\ t * d + s \in Nat
<1> DEFINE n == t * d + s
<1>1. t * d \in Nat /\ n \in Nat
  OBVIOUS
<1> HIDE DEF n
<1>2. n \div d \in Nat /\ n % d \in 0..(d - 1) /\ n = d * (n \div d) + (n % d)
  BY <1>1, DivMod
<1> DEFINE q == n \div d
           r == n % d
<1>3. d * (n \div d) = (n \div d) * d
  BY <1>2
<1>4. q \in Nat /\ r \in 0..(d - 1) /\ q * d + r = t * d + s
  BY <1>2, <1>3 DEF n
<1> HIDE DEF q, r
<1>5. q = t
  BY <1>4, DivUnique
<1> QED BY <1>1, <1>5 DEF q, n

\* A number h, and a digit b of the base B to put behind it; the predicates below are
\* for the provers' sake.
Digits(h, B, b) == h \in Nat /\ B \in Nat \ {0} /\ b \in 0..(B - 1)
Scale(D) == D \in Nat \ {0}

\* Dropping the last digit b of the base B, and then what is behind D.
LEMMA DivScaled ==
  ASSUME NEW q, NEW B, NEW b, NEW D, Digits(q, B, b), Scale(D)
  PROVE  (q * B + b) \div (D * B) = q \div D
<1>0. q \in Nat /\ B \in Nat \ {0} /\ b \in 0..(B - 1) /\ D \in Nat \ {0}
  BY DEF Digits, Scale
<1> DEFINE t == q \div D
           r == q % D
           s == r * B + b
           d == D * B
<1>1. t \in Nat /\ r \in 0..(D - 1) /\ q = D * t + r
  BY <1>0, DivMod
<1> HIDE DEF t, r
<1>2. r * B + B <= d
  BY <1>0, <1>1, LessTimes DEF d
<1>3. r * B \in Nat /\ D * B \in Nat /\ D * B # 0
  BY <1>0, <1>1
<1>4. s \in 0..(d - 1) /\ d \in Nat \ {0}
  BY <1>0, <1>2, <1>3
<1>5. q * B + b = t * d + s
  <2>1. q * B = (D * t) * B + r * B
    BY <1>0, <1>1
  <2>2. (D * t) * B = t * (D * B)
    BY <1>0, <1>1
  <2>3. q * B \in Nat /\ (D * t) * B \in Nat /\ t * (D * B) \in Nat
    BY <1>0, <1>1
  <2>4. q * B + b = t * (D * B) + (r * B + b)
    <3> DEFINE qb == q * B
               db == (D * t) * B
               td == t * (D * B)
               rb == r * B
    <3>1. qb = db + rb /\ db = td /\ qb \in Nat /\ td \in Nat /\ rb \in Nat /\ b \in Nat
      BY <1>0, <1>3, <2>1, <2>2, <2>3
    <3> HIDE DEF qb, db, td, rb
    <3>2. qb + b = td + (rb + b)
      BY <3>1
    <3> QED BY <3>2 DEF qb, td, rb
  <2> QED BY <2>4
<1> HIDE DEF d, s
<1>6. (t * d + s) \div d = t
  BY <1>1, <1>4, DivIs
<1> QED BY <1>5, <1>6 DEF t, d

\* Of a digit b of the base E * F behind h, what is left before E.
LEMMA DivFactor ==
  ASSUME NEW h, NEW b, NEW E, NEW F, NEW B, B = E * F, Digits(h, B, b), Scale(E), Scale(F)
  PROVE  (h * B + b) \div E = h * F + (b \div E)
<1>0. h \in Nat /\ b \in Nat /\ E \in Nat \ {0} /\ F \in Nat \ {0}
  BY DEF Digits, Scale
<1> DEFINE t == b \div E
           r == b % E
           u == h * F + t
<1>1. t \in Nat /\ r \in 0..(E - 1) /\ b = E * t + r
  BY <1>0, DivMod
<1> HIDE DEF t, r
<1>2. u \in Nat
  BY <1>0, <1>1
<1>3. h * B + b = u * E + r
  <2>1. u * E = (h * F) * E + t * E
    BY <1>0, <1>1
  <2>2. (h * F) * E = h * (E * F) /\ t * E = E * t
    BY <1>0, <1>1
  <2>3. h * (E * F) \in Nat /\ E * t \in Nat /\ h * (E * F) = h * B
    BY <1>0, <1>1
  <2> QED BY <1>0, <1>1, <2>1, <2>2, <2>3
<1> HIDE DEF u
<1>4. (u * E + r) \div E = u
  BY <1>0, <1>1, <1>2, DivIs
<1> QED BY <1>3, <1>4 DEF u, t

\* What is left of a digit before E.
LEMMA DivBelow ==
  ASSUME NEW h, NEW b, NEW E, NEW F, NEW B, B = E * F, Digits(h, B, b), Scale(E), Scale(F)
  PROVE  b \div E \in 0..(F - 1)
<1>0. b \in Nat /\ b < B /\ E \in Nat \ {0} /\ F \in Nat \ {0}
  BY DEF Digits, Scale
<1> DEFINE t == b \div E
           r == b % E
<1>1. t \in Nat /\ r \in 0..(E - 1) /\ b = E * t + r
  BY <1>0, DivMod
<1> HIDE DEF t, r
<1>2. ASSUME ~ (t <= F - 1) PROVE FALSE
  <2>1. F - 1 < t /\ F - 1 \in Nat
    BY <1>0, <1>1, <1>2
  <2>2. (F - 1) * E + E <= t * E
    BY <1>0, <1>1, <2>1, LessTimes
  <2>3. (F - 1) * E + E = E * F /\ t * E = E * t /\ E * F \in Nat /\ E * t \in Nat
    BY <1>0, <1>1
  <2> QED BY <1>0, <1>1, <2>2, <2>3
<1> QED BY <1>0, <1>1, <1>2 DEF t

\* Two numbers agree before E exactly when their upper digits and what is left of the last do.
LEMMA AgreeBefore ==
  ASSUME NEW E, NEW F, NEW B, B = E * F, Scale(E), Scale(F),
         NEW h, NEW b, Digits(h, B, b), NEW g, NEW c, Digits(g, B, c)
  PROVE  (h * B + b) \div E = (g * B + c) \div E <=> h = g /\ b \div E = c \div E
<1>1. (h * B + b) \div E = h * F + (b \div E) /\ (g * B + c) \div E = g * F + (c \div E)
  BY DivFactor
<1> DEFINE s == b \div E
           v == c \div E
<1>2. s \in 0..(F - 1) /\ v \in 0..(F - 1)
  BY DivBelow
<1> HIDE DEF s, v
<1>3. h \in Nat /\ g \in Nat /\ F \in Nat \ {0}
  BY DEF Digits, Scale
<1>4. h * F + s = g * F + v => h = g /\ s = v
  BY <1>2, <1>3, DivUnique
<1> QED BY <1>1, <1>4 DEF s, v
=============================================================================
