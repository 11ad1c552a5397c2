----------------------------- MODULE LpmProofs -----------------------------
(***************************************************************************)
(* For every size of table: the trie of Lpm stays well typed and well      *)
(* formed and loses no memory, whatever calls are made on it and wherever  *)
(* they are cut short; what a set call does to what lookups find; and,     *)
(* without allocation failures, that the trie implements the set of prefix *)
(* rules of LpmRules and prints what it finds.                             *)
(***************************************************************************)
EXTENDS LpmPrint, SequenceLemmas, FiniteSetTheorems, FunctionTheorems

(***************************************************************************)
(* Lists.                                                                  *)
(***************************************************************************)

Unique(s) == \A i, j \in 1..Len(s) : s[i].mask = s[j].mask => i = j

Carries(s, e) == \E i \in 1..Len(s) : s[i] = e

\* The list t is the list s with its entry of mask m added, replaced, removed or
\* left alone: every other mask in t was in s, and the other way round.
Edited(s, t, m) ==
  /\ t \in Seq(Entry)
  /\ Unique(t)
  /\ \A i \in 1..Len(t) : t[i].mask = m \/ \E j \in 1..Len(s) : t[i] = s[j]
  /\ \A j \in 1..Len(s) : s[j].mask = m \/ \E i \in 1..Len(t) : t[i] = s[j]

\* The position PosOf returns is one that has the mask.
LEMMA PosOfHasMask ==
  ASSUME NEW s \in Seq(Entry), NEW m, HasMask(s, m)
  PROVE  PosOf(s, m) \in 1..Len(s) /\ s[PosOf(s, m)].mask = m
<1> DEFINE I == {i \in 1..Len(s) : s[i].mask = m}
<1>1. I # {} /\ I \subseteq Nat
  BY LenProperties DEF HasMask
<1>2. PosOf(s, m) = Min(I)
  BY <1>1 DEF PosOf, SelectInSeq
<1>3. Min(I) \in I
  BY <1>1, LeastPosition
<1> QED
  BY <1>2, <1>3

\* OP_ADD on one list.
LEMMA AddEntryEdits ==
  ASSUME NEW s \in Seq(Entry), Unique(s), NEW e \in Entry
  PROVE  /\ Edited(s, AddEntry(s, e), e.mask)
         /\ HasMask(AddEntry(s, e), e.mask)
         /\ Carries(AddEntry(s, e), e)
<1>0. Len(s) \in Nat
  BY LenProperties
<1>1. CASE HasMask(s, e.mask)
  <2> DEFINE q == PosOf(s, e.mask)
             t == [s EXCEPT ![q] = e]
  <2>1. q \in 1..Len(s) /\ s[q].mask = e.mask
    BY <1>1, PosOfHasMask
  <2> HIDE DEF q
  <2>2. /\ t \in Seq(Entry) /\ Len(t) = Len(s)
        /\ \A j \in 1..Len(s) : t[j] = IF j = q THEN e ELSE s[j]
    BY <2>1, ExceptSeq
  <2> HIDE DEF t
  <2>3. \A j \in 1..Len(s) : t[j].mask = s[j].mask
    BY <2>1, <2>2
  <2>4. Unique(t)
    BY <2>2, <2>3 DEF Unique
  <2>5. \A i \in 1..Len(t) : t[i].mask = e.mask \/ \E j \in 1..Len(s) : t[i] = s[j]
    BY <2>2
  <2>6. AddEntry(s, e) = t
    BY <1>1 DEF AddEntry, ReplaceAt, q, t
  <2>7. \A j \in 1..Len(s) : s[j].mask = e.mask \/ \E i \in 1..Len(t) : t[i] = s[j]
    BY <2>1, <2>2
  <2>8. HasMask(t, e.mask) /\ Carries(t, e)
    BY <2>1, <2>2 DEF HasMask, Carries
  <2> QED BY <2>2, <2>4, <2>5, <2>6, <2>7, <2>8 DEF Edited
<1>2. CASE ~ HasMask(s, e.mask)
  <2> DEFINE I == {i \in 1..Len(s) : e.mask > s[i].mask}
             q == SelectInSeq(s, LAMBDA x : e.mask > x.mask) + 1
             t == InsertAt(s, q, e)
  <2>1. q \in 1..(Len(s) + 1)
    <3>1. CASE I = {}
      BY <1>0, <3>1 DEF SelectInSeq
    <3>2. CASE I # {}
      <4>1. q = Min(I) + 1
        BY <3>2 DEF SelectInSeq
      <4>2. I \subseteq Nat /\ I \subseteq 1..Len(s)
        BY <1>0
      <4> HIDE DEF I
      <4>3. Min(I) \in I
        BY <3>2, <4>2, LeastPosition
      <4> QED BY <1>0, <4>1, <4>2, <4>3
    <3> QED BY <3>1, <3>2
  <2> HIDE DEF q
  <2>2. /\ t \in Seq(Entry) /\ Len(t) = Len(s) + 1
        /\ \A k \in 1..(Len(s) + 1) :
             t[k] = IF k < q THEN s[k] ELSE IF k = q THEN e ELSE s[k - 1]
    BY <2>1, InsertAtProperties
  <2> HIDE DEF t
  <2>3. \A k \in 1..Len(s) : s[k].mask # e.mask
    BY <1>2 DEF HasMask
  <2> DEFINE old(k) == IF k < q THEN k ELSE k - 1
  <2>4. ASSUME NEW k \in 1..(Len(s) + 1), k # q
        PROVE  old(k) \in 1..Len(s) /\ t[k] = s[old(k)]
    <3>1. CASE k < q
      BY <1>0, <2>1, <2>2, <3>1
    <3>2. CASE k > q
      <4>1. k - 1 \in 1..Len(s) /\ ~ (k < q)
        BY <1>0, <2>1, <3>2
      <4> QED BY <2>2, <2>4, <4>1
    <3>3. k < q \/ k > q
      BY <1>0, <2>1, <2>4
    <3> QED BY <3>1, <3>2, <3>3
  <2>5. t[q] = e
    BY <1>0, <2>1, <2>2
  <2>6. Unique(t)
    <3> SUFFICES ASSUME NEW i \in 1..(Len(s) + 1), NEW j \in 1..(Len(s) + 1),
                        t[i].mask = t[j].mask
                 PROVE  i = j
      BY <2>2 DEF Unique
    <3>1. CASE i = q /\ j # q
      BY <2>3, <2>4, <2>5, <3>1
    <3>2. CASE i # q /\ j = q
      BY <2>3, <2>4, <2>5, <3>2
    <3>3. CASE i # q /\ j # q
      <4>1. old(i) = old(j)
        BY <2>4, <3>3 DEF Unique
      <4> QED BY <1>0, <2>1, <3>3, <4>1
    <3> QED BY <3>1, <3>2, <3>3
  <2>7. \A i \in 1..Len(t) : t[i].mask = e.mask \/ \E j \in 1..Len(s) : t[i] = s[j]
    BY <2>2, <2>4, <2>5
  <2>8. AddEntry(s, e) = t
    BY <1>2 DEF AddEntry, InsertEntry, q, t
  <2>9. ASSUME NEW j \in 1..Len(s) PROVE \E i \in 1..Len(t) : t[i] = s[j]
    <3>1. CASE j < q
      BY <1>0, <2>1, <2>2, <3>1
    <3>2. CASE ~ (j < q)
      <4>1. /\ j + 1 \in 1..(Len(s) + 1) /\ ~ (j + 1 < q) /\ j + 1 # q
            /\ (j + 1) - 1 = j
        BY <1>0, <2>1, <3>2
      <4>2. t[j + 1] = s[(j + 1) - 1]
        BY <2>2, <4>1
      <4> QED BY <2>2, <4>1, <4>2
    <3> QED BY <3>1, <3>2
  <2>10. HasMask(t, e.mask) /\ Carries(t, e)
    BY <2>1, <2>2, <2>5 DEF HasMask, Carries
  <2> QED BY <2>2, <2>6, <2>7, <2>8, <2>9, <2>10 DEF Edited
<1> QED
  BY <1>1, <1>2

\* OP_DEL on one list.
LEMMA DelEntryEdits ==
  ASSUME NEW s \in Seq(Entry), Unique(s), NEW m
  PROVE  Edited(s, DelEntry(s, m), m) /\ ~ HasMask(DelEntry(s, m), m)
<1>0. Len(s) \in Nat
  BY LenProperties
<1>1. CASE ~ HasMask(s, m)
  <2>1. DelEntry(s, m) = s
    BY <1>1 DEF DelEntry
  <2> QED BY <1>0, <1>1, <2>1 DEF Edited
<1>2. CASE HasMask(s, m)
  <2> DEFINE q == PosOf(s, m)
             t == RemoveAt(s, q)
             old(k) == IF k < q THEN k ELSE k + 1
  <2>1. q \in 1..Len(s) /\ s[q].mask = m
    BY <1>2, PosOfHasMask
  <2> HIDE DEF q
  <2>2. /\ t \in Seq(Entry) /\ Len(t) = Len(s) - 1
        /\ \A k \in 1..(Len(s) - 1) : t[k] = IF k < q THEN s[k] ELSE s[k + 1]
    BY <2>1, RemoveAtProperties
  <2> HIDE DEF t
  <2>3. \A k \in 1..(Len(s) - 1) : old(k) \in 1..Len(s) /\ t[k] = s[old(k)]
    BY <1>0, <2>1, <2>2
  <2>4. Unique(t)
    <3> SUFFICES ASSUME NEW i \in 1..(Len(s) - 1), NEW j \in 1..(Len(s) - 1),
                        t[i].mask = t[j].mask
                 PROVE  i = j
      BY <2>2 DEF Unique
    <3>1. old(i) = old(j)
      BY <2>3 DEF Unique
    <3> QED BY <1>0, <2>1, <3>1
  <2>5. \A i \in 1..Len(t) : \E j \in 1..Len(s) : t[i] = s[j]
    BY <2>2, <2>3
  <2>6. DelEntry(s, m) = t
    BY <1>2 DEF DelEntry, q, t
  <2>7. ASSUME NEW j \in 1..Len(s), j # q PROVE \E i \in 1..Len(t) : t[i] = s[j]
    <3>1. CASE j < q
      BY <1>0, <2>1, <2>2, <3>1
    <3>2. CASE j > q
      <4>1. j - 1 \in 1..(Len(s) - 1) /\ ~ (j - 1 < q) /\ (j - 1) + 1 = j
        BY <1>0, <2>1, <3>2
      <4>2. t[j - 1] = s[(j - 1) + 1]
        BY <2>2, <4>1
      <4> QED BY <2>2, <4>1, <4>2
    <3>3. j < q \/ j > q
      BY <1>0, <2>1, <2>7
    <3> QED BY <3>1, <3>2, <3>3
  <2>8. ~ HasMask(t, m)
    <3> SUFFICES ASSUME NEW i \in 1..(Len(s) - 1), t[i].mask = m PROVE FALSE
      BY <2>2 DEF HasMask
    <3>1. old(i) = q
      BY <2>1, <2>3 DEF Unique
    <3> QED BY <1>0, <2>1, <3>1
  <2> QED BY <2>1, <2>2, <2>4, <2>5, <2>6, <2>7, <2>8 DEF Edited
<1> QED
  BY <1>1, <1>2

(***************************************************************************)
(* Addresses and paths.                                                    *)
(***************************************************************************)

\* A remainder is no larger than the number.
LEMMA ModuloBound ==
  ASSUME NEW b \in Nat, NEW d \in Nat \ {0}
  PROVE  b % d \in 0..b
OBVIOUS

\* Recalculating an address gives an address.
LEMMA RecalcIsAddr ==
  ASSUME NEW f \in Family, NEW a \in Addr(f), NEW m \in Mask(f)
  PROVE  PrefixRecalc(a, m) \in Addr(f)
<1>1. MaxLevel(f) \in Nat /\ m \in Nat /\ STRIDE \in Nat \ {0}
  BY SizesAssumption DEF MaxLevel, Mask
<1>2. MAX_INDEX \in Nat
  BY PowersAssumption, SizesAssumption
<1>3. ASSUME NEW i \in 1..MaxLevel(f), ~ (i * STRIDE <= m), ~ ((i - 1) * STRIDE >= m)
      PROVE  a[i] - (a[i] % 2^(i * STRIDE - m)) \in Byte
  <2>1. i * STRIDE - m \in 0..STRIDE
    BY <1>1, <1>3
  <2>2. 2^(i * STRIDE - m) \in Nat \ {0}
    BY <1>2, <2>1, PowersAssumption
  <2>3. a[i] \in 0..MAX_INDEX
    BY DEF Addr, Byte
  <2>4. a[i] % 2^(i * STRIDE - m) \in 0..a[i]
    BY <1>2, <2>2, <2>3, ModuloBound
  <2> QED BY <1>2, <2>3, <2>4 DEF Byte
<1>4. 0 \in Byte
  BY <1>2 DEF Byte
<1> QED
  BY <1>3, <1>4 DEF PrefixRecalc, Addr

\* No family has more levels than IPv6.
LEMMA Levels ==
  ASSUME NEW f \in Family
  PROVE  /\ MaxLevel(f) \in Nat \ {0}
         /\ MaxLevel(f) <= MAX_LEVEL_IPV6
         /\ Mask(f) \subseteq Mask(IS_IPV6)
<1>1. STRIDE \in Nat /\ MAX_LEVEL_IPV4 \in Nat /\ MAX_LEVEL_IPV6 \in Nat
      /\ MAX_LEVEL_IPV4 <= MAX_LEVEL_IPV6
  BY SizesAssumption
<1>2. STRIDE * MAX_LEVEL_IPV4 <= STRIDE * MAX_LEVEL_IPV6
  BY <1>1
<1> QED
  BY <1>1, <1>2, SizesAssumption DEF MaxLevel, Mask, Family, IS_IPV4, IS_IPV6

\* The first i bytes of an address.
LEMMA FirstBytes ==
  ASSUME NEW f \in Family, NEW a \in Addr(f), NEW i \in 0..MaxLevel(f)
  PROVE  /\ SubSeq(a, 1, i) \in Seq(Byte)
         /\ Len(SubSeq(a, 1, i)) = i
         /\ \A j \in 1..i : SubSeq(a, 1, i)[j] = a[j]
         /\ i < MaxLevel(f) => SubSeq(a, 1, i) \in ArrayPath
         /\ \A j \in 0..i : SubSeq(SubSeq(a, 1, i), 1, j) = SubSeq(a, 1, j)
<1>1. MaxLevel(f) \in Nat \ {0} /\ MaxLevel(f) <= MAX_LEVEL_IPV6 /\ MAX_LEVEL_IPV6 \in Nat
  BY Levels, SizesAssumption
<1>2. \A j \in 1..MaxLevel(f) : a[j] \in Byte
  BY DEF Addr
<1>3. \A h \in 0..MaxLevel(f) :
        /\ SubSeq(a, 1, h) \in Seq(Byte)
        /\ Len(SubSeq(a, 1, h)) = h
        /\ \A j \in 1..h : SubSeq(a, 1, h)[j] = a[j]
  <2> TAKE h \in 0..MaxLevel(f)
  <2>1. \A j \in 1..h : a[j] \in Byte
    BY <1>1, <1>2
  <2> QED BY <1>1, <2>1, SubSeqProperties
<1>4. ASSUME i < MaxLevel(f) PROVE SubSeq(a, 1, i) \in ArrayPath
  <2>1. CASE i = 0
    BY <1>3, <2>1, EmptySeq DEF ArrayPath
  <2>2. CASE i # 0
    <3>1. i \in 1..(MAX_LEVEL_IPV6 - 1)
      BY <1>1, <1>4, <2>2
    <3>2. SubSeq(a, 1, i) \in [1..i -> Byte]
      BY <1>3, LenProperties
    <3> QED BY <3>1, <3>2 DEF ArrayPath
  <2> QED BY <2>1, <2>2
<1>5. ASSUME NEW j \in 0..i
      PROVE  SubSeq(SubSeq(a, 1, i), 1, j) = SubSeq(a, 1, j)
  <2> DEFINE u == SubSeq(a, 1, i)
             v == SubSeq(a, 1, j)
             w == SubSeq(u, 1, j)
  <2>1. j \in 0..MaxLevel(f)
    BY <1>1
  <2>2. v \in Seq(Byte) /\ Len(v) = j /\ \A h \in 1..j : v[h] = a[h]
    BY <1>3, <2>1
  <2>3. u \in Seq(Byte) /\ Len(u) = i /\ \A h \in 1..i : u[h] = a[h]
    BY <1>3
  <2> HIDE DEF u, v
  <2>4. \A h \in 1..j : u[h] \in Byte
    BY <2>3, ElementOfSeq
  <2>5. w \in Seq(Byte) /\ Len(w) = j /\ \A h \in 1..j : w[h] = u[h]
    BY <2>4, SubSeqProperties
  <2>6. \A h \in 1..j : w[h] = v[h]
    BY <2>2, <2>3, <2>5
  <2> HIDE DEF w
  <2>7. w = v
    BY <2>2, <2>5, <2>6, SeqEqual
  <2> QED BY <2>7 DEF u, v, w
<1> QED
  BY <1>3, <1>4, <1>5

\* A node of level n hangs from the array the walk to level n ends in.
LEMMA TargetsAreNodes ==
  ASSUME NEW f \in Family, NEW a \in Addr(f), NEW n \in 1..MaxLevel(f), NEW m,
         NEW p \in Targets(n, a, m)
  PROVE  p \in Path /\ Len(p) = n /\ Front(p) = SubSeq(a, 1, n - 1)
<1>1. n - 1 \in 0..MaxLevel(f) /\ n \in 1..MAX_LEVEL_IPV6 /\ n \in Nat
  BY Levels, SizesAssumption
<1> DEFINE u == SubSeq(a, 1, n - 1)
<1>2. u \in Seq(Byte) /\ Len(u) = n - 1
  BY <1>1, FirstBytes
<1>3. PICK x \in Byte : p = Append(u, x)
  BY DEF Targets
<1> HIDE DEF u
<1>4. /\ p \in Seq(Byte) /\ Len(p) = n
      /\ \A j \in 1..(n - 1) : p[j] = u[j]
  BY <1>1, <1>2, <1>3, AppendProperties
<1>5. p \in Path
  <2>1. p \in [1..n -> Byte]
    BY <1>4, LenProperties
  <2> QED BY <1>1, <2>1 DEF Path
<1>6. Front(p) = u
  <2> DEFINE w == SubSeq(p, 1, n - 1)
  <2>1. \A j \in 1..(n - 1) : p[j] \in Byte
    BY <1>1, <1>4, ElementOfSeq
  <2>2. w \in Seq(Byte) /\ Len(w) = n - 1 /\ \A j \in 1..(n - 1) : w[j] = p[j]
    BY <1>1, <2>1, SubSeqProperties
  <2> HIDE DEF w
  <2>3. w = u
    BY <1>2, <1>4, <2>2, SeqEqual
  <2> QED BY <1>4, <2>3 DEF Front, w
<1> QED
  BY <1>4, <1>5, <1>6 DEF u

Closed(A) == \A p \in A : \A i \in 0..Len(p) : SubSeq(p, 1, i) \in A

\* Linking the arrays of a walk, or all but its last, keeps the trie connected.
LEMMA WalkStaysClosed ==
  ASSUME NEW f \in Family, NEW a \in Addr(f), NEW n \in 1..MaxLevel(f),
         NEW A, Closed(A),
         NEW B \in {ArraysTo(n, a), ArraysTo(n, a) \ {SubSeq(a, 1, n - 1)}}
  PROVE  Closed(A \cup B) /\ B \subseteq ArrayPath
<1>0. MaxLevel(f) \in Nat /\ n \in Nat
  BY Levels
<1>1. ASSUME NEW p \in B
      PROVE  p \in ArrayPath /\ \A i \in 0..Len(p) : SubSeq(p, 1, i) \in B
  <2>1. PICK h \in 0..(n - 1) : p = SubSeq(a, 1, h)
    BY DEF ArraysTo
  <2>2. h \in 0..MaxLevel(f) /\ h < MaxLevel(f) /\ n - 1 \in 0..MaxLevel(f)
    BY <1>0
  <2>3. p \in ArrayPath /\ Len(p) = h /\ \A i \in 0..h : SubSeq(p, 1, i) = SubSeq(a, 1, i)
    BY <2>1, <2>2, FirstBytes
  <2>4. ASSUME NEW i \in 0..h PROVE SubSeq(p, 1, i) \in B
    <3>1. SubSeq(p, 1, i) = SubSeq(a, 1, i) /\ i \in 0..(n - 1)
      BY <1>0, <2>3
    <3>2. CASE B = ArraysTo(n, a)
      BY <3>1, <3>2 DEF ArraysTo
    <3>3. CASE B = ArraysTo(n, a) \ {SubSeq(a, 1, n - 1)}
      <4>1. h # n - 1
        BY <2>1, <3>3
      <4>2. i \in 0..MaxLevel(f) /\ i # n - 1
        BY <1>0, <4>1
      <4>3. Len(SubSeq(a, 1, i)) = i /\ Len(SubSeq(a, 1, n - 1)) = n - 1
        BY <2>2, <4>2, FirstBytes
      <4>4. SubSeq(a, 1, i) # SubSeq(a, 1, n - 1)
        BY <4>2, <4>3
      <4> QED BY <3>1, <3>3, <4>4 DEF ArraysTo
    <3> QED BY <3>2, <3>3
  <2> QED BY <2>3, <2>4
<1> QED
  BY <1>1 DEF Closed

(***************************************************************************)
(* The inductive invariant.  None of its parts is inductive alone: an      *)
(* entry stays reachable because the arrays on its way do, a list stays    *)
(* free of duplicates because it is well typed.                            *)
(***************************************************************************)
Structure ==
  OneEntryPerMask /\ EntriesAtTheirLevel /\ EntriesReachable /\ ArraysLinked

IInv == TypeOK /\ Structure

\* The parts of IInv about the lists, for lists c and arrays A.
Lists(c, A) ==
  /\ c \in [Family -> [Path -> Seq(Entry)]]
  /\ \A f \in Family, p \in Path :
       /\ Unique(c[f][p])
       /\ \A i \in 1..Len(c[f][p]) :
            /\ Len(p) <= MaxLevel(f)
            /\ c[f][p][i].mask <= Len(p) * STRIDE
            /\ Len(p) = 1 \/ (Len(p) - 1) * STRIDE < c[f][p][i].mask
       /\ c[f][p] # <<>> => Front(p) \in A

\* The parts of the invariant about the lists are Lists of the state.
LEMMA ListsOfState ==
  Lists(cfg, arrays) <=>
    /\ cfg \in [Family -> [Path -> Seq(Entry)]]
    /\ OneEntryPerMask
    /\ EntriesAtTheirLevel
    /\ EntriesReachable
BY DEF Lists, Unique, OneEntryPerMask, EntriesAtTheirLevel, EntriesReachable

\* Editing the lists of some of a rule's nodes keeps the lists well formed.
LEMMA EditKeepsLists ==
  ASSUME NEW c, NEW A, Lists(c, A),
         NEW f \in Family, NEW a \in Addr(f), NEW n \in 1..MaxLevel(f),
         NEW m \in Mask(f), IsTerminal(n, m),
         NEW D \in SUBSET Targets(n, a, m),
         NEW B, A \subseteq B, D = {} \/ SubSeq(a, 1, n - 1) \in B,
         NEW g, g = [p \in Path |-> g[p]],
         \A p \in D : Edited(c[f][p], g[p], m),
         \A p \in Path \ D : g[p] = c[f][p]
  PROVE  Lists([c EXCEPT ![f] = g], B)
<1> DEFINE d == [c EXCEPT ![f] = g]
<1>1. /\ \A h \in Family, p \in Path : h # f \/ p \notin D => d[h][p] = c[h][p]
      /\ \A p \in D : p \in Path => Edited(c[f][p], d[f][p], m)
  BY DEF Lists
<1>2. \A p \in D : p \in Path /\ Len(p) = n /\ Front(p) = SubSeq(a, 1, n - 1)
  BY TargetsAreNodes
<1>3. d \in [Family -> [Path -> Seq(Entry)]]
  <2>1. ASSUME NEW p \in Path PROVE g[p] \in Seq(Entry)
    <3>1. CASE p \in D
      BY <3>1 DEF Edited
    <3>2. CASE p \notin D
      BY <3>2 DEF Lists
    <3> QED BY <3>1, <3>2
  <2> QED BY <2>1 DEF Lists
<1> HIDE DEF d
<1>4. ASSUME NEW h \in Family, NEW p \in Path
      PROVE  /\ Unique(d[h][p])
             /\ \A i \in 1..Len(d[h][p]) :
                  /\ Len(p) <= MaxLevel(h)
                  /\ d[h][p][i].mask <= Len(p) * STRIDE
                  /\ Len(p) = 1 \/ (Len(p) - 1) * STRIDE < d[h][p][i].mask
             /\ d[h][p] # <<>> => Front(p) \in B
  <2>1. CASE h # f \/ p \notin D
    BY <1>1, <2>1 DEF Lists
  <2>2. CASE h = f /\ p \in D
    <3>1. Edited(c[f][p], d[f][p], m)
      BY <1>1, <2>2
    <3>2. Len(p) = n /\ Len(p) <= MaxLevel(f) /\ Front(p) \in B
      <4>1. Len(p) = n /\ Front(p) = SubSeq(a, 1, n - 1) /\ D # {}
        BY <1>2, <2>2
      <4>2. n <= MaxLevel(f)
        BY Levels
      <4> QED BY <4>1, <4>2
    <3>3. ASSUME NEW i \in 1..Len(d[f][p])
          PROVE  /\ d[f][p][i].mask <= Len(p) * STRIDE
                 /\ Len(p) = 1 \/ (Len(p) - 1) * STRIDE < d[f][p][i].mask
      <4>1. CASE d[f][p][i].mask = m
        BY <3>2, <4>1 DEF IsTerminal
      <4>2. CASE \E j \in 1..Len(c[f][p]) : d[f][p][i] = c[f][p][j]
        BY <4>2 DEF Lists
      <4> QED BY <3>1, <4>1, <4>2 DEF Edited
    <3> QED BY <2>2, <3>1, <3>2, <3>3 DEF Edited
  <2> QED BY <2>1, <2>2
<1> QED
  BY <1>3, <1>4 DEF Lists, d

(***************************************************************************)
(* The actions.                                                            *)
(***************************************************************************)

\* What every set call starts from: a rule, its level, its recalculated address.
LEMMA RuleFacts ==
  ASSUME NEW k \in Rules
  PROVE  /\ k.fam \in Family
         /\ k.addr \in Addr(k.fam)
         /\ k.mask \in Mask(k.fam)
         /\ k.mask \in Mask(IS_IPV6)
         /\ PrefixRecalc(k.addr, k.mask) \in Addr(k.fam)
<1>1. PICK f \in Family : k \in [fam : {f}, addr : Addr(f), mask : Mask(f)]
  BY InputsAssumption DEF IpAny
<1>2. k.fam = f /\ k.addr \in Addr(f) /\ k.mask \in Mask(f)
  BY <1>1
<1> QED
  BY <1>2, Levels, RecalcIsAddr

\* The blocks of a rule's arrays and entries are blocks.
LEMMA BlocksOfRule ==
  ASSUME NEW f \in Family, NEW ps, NEW qs, NEW m \in Mask(IS_IPV6),
         ps \subseteq ArrayPath, qs \subseteq Path
  PROVE  ArrayBlocks(ps) \subseteq Block /\ EntryBlocks(f, qs, m) \subseteq Block
BY DEF Block, ArrayBlocks, EntryBlocks

\* The invariant holds in the beginning.
LEMMA InitIsGood == Init => IInv
<1> SUFFICES ASSUME Init PROVE IInv
  OBVIOUS
<1>1. cfg \in [Family -> [Path -> Seq(Entry)]]
  BY EmptySeq DEF Init, EmptyLists
<1>2. \A f \in Family, p \in Path : cfg[f][p] = <<>>
  BY DEF Init, EmptyLists
<1>3. TypeOK
  BY <1>1 DEF Init, TypeOK
<1>4. Structure
  BY <1>2, EmptySeq DEF Init, Structure, OneEntryPerMask, EntriesAtTheirLevel,
                        EntriesReachable, ArraysLinked
<1> QED
  BY <1>3, <1>4 DEF IInv

\* An add keeps the invariant.
LEMMA AddIsGood ==
  ASSUME IInv, NEW call, NEW k \in Rules, NEW r \in Results, Add(call, k, r)
  PROVE  IInv'
<1> DEFINE f == k.fam
           m == k.mask
           a == PrefixRecalc(k.addr, m)
           e == [mask |-> m, res |-> r]
<1>1. /\ f \in Family /\ a \in Addr(f) /\ m \in Mask(f) /\ m \in Mask(IS_IPV6)
      /\ e \in Entry /\ e.mask = m
  BY RuleFacts DEF Entry
<1> HIDE DEF f, m, a
<1>2. PICK n \in 1..MaxLevel(f) :
        /\ IsTerminal(n, m)
        /\ arrays' = arrays \cup ArraysTo(n, a)
        /\ cfg' = [cfg EXCEPT ![f] = [p \in Path |->
                     IF p \in Targets(n, a, m) THEN AddEntry(cfg[f][p], e) ELSE cfg[f][p]]]
        /\ heap' = heap \cup ArrayBlocks(ArraysTo(n, a)) \cup EntryBlocks(f, Targets(n, a, m), m)
  BY DEF Add, f, m, a
<1> DEFINE D == Targets(n, a, m)
           g == [p \in Path |-> IF p \in D THEN AddEntry(cfg[f][p], e) ELSE cfg[f][p]]
<1>3. Lists(cfg, arrays)
  BY ListsOfState DEF IInv, TypeOK, Structure
<1>4. SubSeq(a, 1, n - 1) \in arrays'
  BY <1>1, <1>2, Levels DEF ArraysTo
<1>5. /\ \A p \in D : Edited(cfg[f][p], g[p], m)
      /\ \A p \in Path \ D : g[p] = cfg[f][p]
  BY <1>1, <1>3, AddEntryEdits, TargetsAreNodes DEF Lists
<1>6. g = [p \in Path |-> g[p]]
  OBVIOUS
<1>7. Lists(cfg', arrays')
  <2>1. cfg' = [cfg EXCEPT ![f] = g]
    BY <1>2
  <2>2. arrays \subseteq arrays'
    BY <1>2
  <2> HIDE DEF g
  <2>3. D \in SUBSET Targets(n, a, m)
    OBVIOUS
  <2> HIDE DEF D
  <2>4. IsTerminal(n, m)
    BY <1>2
  <2>5. Lists([cfg EXCEPT ![f] = g], arrays')
    BY <1>1, <1>3, <1>4, <1>5, <1>6, <2>2, <2>3, <2>4, EditKeepsLists
  <2> QED BY <2>1, <2>5
<1>8. Closed(arrays') /\ ArraysTo(n, a) \subseteq ArrayPath
  BY <1>1, <1>2, WalkStaysClosed DEF IInv, Structure, ArraysLinked, Closed
<1>9. heap' \subseteq Block
  <2>1. Targets(n, a, m) \subseteq Path
    BY <1>1, TargetsAreNodes
  <2> QED BY <1>1, <1>2, <1>8, <2>1, BlocksOfRule DEF IInv, TypeOK
<1>10. table' = table /\ lost' = lost
  BY DEF Add
<1> QED
  BY <1>2, <1>7, <1>8, <1>9, <1>10, ListsOfState
     DEF IInv, TypeOK, Structure, Closed, ArraysLinked, Lists, OneEntryPerMask, Unique,
         EntriesAtTheirLevel, EntriesReachable

\* A delete keeps it.
LEMMA DelIsGood ==
  ASSUME IInv, NEW k \in Rules, Del(k)
  PROVE  IInv'
<1> DEFINE f == k.fam
           m == k.mask
           a == PrefixRecalc(k.addr, m)
<1>1. f \in Family /\ a \in Addr(f) /\ m \in Mask(f) /\ m \in Mask(IS_IPV6)
  BY RuleFacts
<1> HIDE DEF f, m, a
<1>2. PICK n \in 1..MaxLevel(f) :
        /\ IsTerminal(n, m)
        /\ arrays' = arrays \cup ArraysTo(n, a)
        /\ cfg' = [cfg EXCEPT ![f] = [p \in Path |->
                     IF p \in Targets(n, a, m) THEN DelEntry(cfg[f][p], m) ELSE cfg[f][p]]]
        /\ heap' \subseteq heap \cup ArrayBlocks(ArraysTo(n, a))
  BY DEF Del, f, m, a
<1> DEFINE D == Targets(n, a, m)
           g == [p \in Path |-> IF p \in D THEN DelEntry(cfg[f][p], m) ELSE cfg[f][p]]
<1>3. Lists(cfg, arrays)
  BY ListsOfState DEF IInv, TypeOK, Structure
<1>4. SubSeq(a, 1, n - 1) \in arrays'
  BY <1>1, <1>2, Levels DEF ArraysTo
<1>5. /\ \A p \in D : Edited(cfg[f][p], g[p], m)
      /\ \A p \in Path \ D : g[p] = cfg[f][p]
  BY <1>1, <1>3, DelEntryEdits, TargetsAreNodes DEF Lists
<1>6. g = [p \in Path |-> g[p]]
  OBVIOUS
<1>7. Lists(cfg', arrays')
  <2>1. cfg' = [cfg EXCEPT ![f] = g]
    BY <1>2
  <2>2. arrays \subseteq arrays'
    BY <1>2
  <2> HIDE DEF g
  <2>3. D \in SUBSET Targets(n, a, m)
    OBVIOUS
  <2> HIDE DEF D
  <2>4. IsTerminal(n, m)
    BY <1>2
  <2>5. Lists([cfg EXCEPT ![f] = g], arrays')
    BY <1>1, <1>3, <1>4, <1>5, <1>6, <2>2, <2>3, <2>4, EditKeepsLists
  <2> QED BY <2>1, <2>5
<1>8. Closed(arrays') /\ ArraysTo(n, a) \subseteq ArrayPath
  BY <1>1, <1>2, WalkStaysClosed DEF IInv, Structure, ArraysLinked, Closed
<1>9. heap' \subseteq Block
  BY <1>1, <1>2, <1>8, BlocksOfRule DEF IInv, TypeOK
<1>10. table' = table /\ lost' = lost
  BY DEF Del
<1> QED
  BY <1>2, <1>7, <1>8, <1>9, <1>10, ListsOfState
     DEF IInv, TypeOK, Structure, Closed, ArraysLinked, Lists, OneEntryPerMask, Unique,
         EntriesAtTheirLevel, EntriesReachable

\* A call cut short, after it set none or some of its entries: the arrays above
\* the last are linked, and the lists change only in an array that was linked.
LEMMA CutShortIsGood ==
  ASSUME IInv, NEW call, NEW op, NEW k \in Rules, NEW r,
         NEW n \in 1..MaxLevel(k.fam), IsTerminal(n, k.mask),
         NEW D \in SUBSET Targets(n, PrefixRecalc(k.addr, k.mask), k.mask),
         D = {} \/ r \in Results,
         CutShort(call, op, k, r, n, PrefixRecalc(k.addr, k.mask), D)
  PROVE  IInv'
<1> DEFINE f == k.fam
           m == k.mask
           a == PrefixRecalc(k.addr, m)
           e == [mask |-> m, res |-> r]
           last  == SubSeq(a, 1, n - 1)
           above == ArraysTo(n, a) \ {last}
           g == [p \in Path |-> IF p \in D THEN AddEntry(cfg[f][p], e) ELSE cfg[f][p]]
<1>1. /\ f \in Family /\ a \in Addr(f) /\ m \in Mask(f) /\ m \in Mask(IS_IPV6)
      /\ e.mask = m /\ (D = {} \/ e \in Entry)
  BY RuleFacts DEF Entry
<1>2. /\ arrays' = arrays \cup above
      /\ cfg' = IF last \notin arrays THEN cfg ELSE [cfg EXCEPT ![f] = g]
      /\ heap' \subseteq heap \cup ArrayBlocks(above) \cup EntryBlocks(f, D, m)
      /\ lost' \in {lost, lost + 1}
      /\ table' = table
  BY DEF CutShort
<1>3. IsTerminal(n, m) /\ n \in 1..MaxLevel(f) /\ D \in SUBSET Targets(n, a, m)
  OBVIOUS
<1> HIDE DEF f, m, a, e
<1>4. Lists(cfg, arrays)
  BY ListsOfState DEF IInv, TypeOK, Structure
<1>5. Lists(cfg', arrays')
  <2>1. CASE last \notin arrays
    BY <1>2, <1>4, <2>1 DEF Lists
  <2>2. CASE last \in arrays
    <3>1. cfg' = [cfg EXCEPT ![f] = g]
      BY <1>2, <2>2
    <3>2. /\ \A p \in D : Edited(cfg[f][p], g[p], m)
          /\ \A p \in Path \ D : g[p] = cfg[f][p]
      BY <1>1, <1>3, <1>4, AddEntryEdits, TargetsAreNodes DEF Lists
    <3>3. g = [p \in Path |-> g[p]]
      OBVIOUS
    <3>4. arrays \subseteq arrays' /\ SubSeq(a, 1, n - 1) \in arrays'
      BY <1>2, <2>2
    <3> HIDE DEF g
    <3>5. Lists([cfg EXCEPT ![f] = g], arrays')
      BY <1>1, <1>3, <1>4, <3>2, <3>3, <3>4, EditKeepsLists
    <3> QED BY <3>1, <3>5
  <2> QED BY <2>1, <2>2
<1>6. Closed(arrays') /\ above \subseteq ArrayPath
  BY <1>1, <1>2, <1>3, WalkStaysClosed DEF IInv, Structure, ArraysLinked, Closed
<1>7. heap' \subseteq Block
  <2>1. D \subseteq Path
    BY <1>1, <1>3, TargetsAreNodes
  <2> QED BY <1>1, <1>2, <1>6, <2>1, BlocksOfRule DEF IInv, TypeOK
<1>8. lost' \in Nat
  BY <1>2 DEF IInv, TypeOK
<1> QED
  BY <1>2, <1>5, <1>6, <1>7, <1>8, ListsOfState
     DEF IInv, TypeOK, Structure, Closed, ArraysLinked, Lists, OneEntryPerMask, Unique,
         EntriesAtTheirLevel, EntriesReachable

\* A free keeps it.
LEMMA FreeIsGood ==
  ASSUME IInv, TableFree
  PROVE  IInv'
<1>1. cfg' \in [Family -> [Path -> Seq(Entry)]]
  BY EmptySeq DEF TableFree, EmptyLists
<1>2. \A f \in Family, p \in Path : cfg'[f][p] = <<>>
  BY DEF TableFree, EmptyLists
<1>3. TypeOK'
  BY <1>1 DEF TableFree, TypeOK, IInv
<1>4. Structure'
  BY <1>2, EmptySeq DEF TableFree, Structure, OneEntryPerMask, EntriesAtTheirLevel,
                        EntriesReachable, ArraysLinked
<1> QED
  BY <1>3, <1>4 DEF IInv

\* The rest leaves the trie alone.
LEMMA OthersAreGood ==
  ASSUME IInv, UNCHANGED <<arrays, cfg, lost>>, heap' \subseteq Block,
         table' \in {"none", "live", "crashed"}
  PROVE  IInv'
BY DEF IInv, TypeOK, Structure, OneEntryPerMask, EntriesAtTheirLevel, EntriesReachable,
       ArraysLinked

\* Every step keeps it.
LEMMA StepIsGood == IInv /\ [Next]_vars => IInv'
<1> SUFFICES ASSUME IInv, [Next]_vars
               PROVE  IInv'
  OBVIOUS
<1>0. TypeOK
  BY DEF IInv
<1>1. CASE TableCreate
  BY <1>0, <1>1, OthersAreGood DEF TableCreate, TypeOK, Block
<1>2. CASE TableCreateCrashes
  BY <1>0, <1>2, OthersAreGood DEF TableCreateCrashes, TypeOK
<1>3. CASE SetCall
  <2>1. PICK k \in Rules :
          \/ \E r \in Results, call \in Calls : Add(call, k, r) \/ AddEntryFails(call, k, r)
          \/ Del(k)
          \/ \E op \in Ops : BadOp(op, k)
          \/ ArrayCrashes(k)
    BY <1>3 DEF SetCall
  <2>2. ASSUME NEW r \in Results, NEW call \in Calls, Add(call, k, r) PROVE IInv'
    BY <2>2, AddIsGood
  <2>3. ASSUME NEW r \in Results, NEW call \in Calls, AddEntryFails(call, k, r) PROVE IInv'
    <3> DEFINE a == PrefixRecalc(k.addr, k.mask)
    <3>1. PICK n \in 1..MaxLevel(k.fam) : \E q \in Targets(n, a, k.mask) :
            /\ IsTerminal(n, k.mask)
            /\ CutShort(call, "OP_ADD", k, r, n, a, {p \in Targets(n, a, k.mask) : p[n] < q[n]})
      BY <2>3 DEF AddEntryFails
    <3>2. PICK q \in Targets(n, a, k.mask) :
            CutShort(call, "OP_ADD", k, r, n, a, {p \in Targets(n, a, k.mask) : p[n] < q[n]})
      BY <3>1
    <3>3. {p \in Targets(n, a, k.mask) : p[n] < q[n]} \in SUBSET Targets(n, a, k.mask)
      OBVIOUS
    <3> QED BY <3>1, <3>2, <3>3, CutShortIsGood
  <2>4. CASE Del(k)
    BY <2>4, DelIsGood
  <2>5. ASSUME NEW op \in Ops, BadOp(op, k) PROVE IInv'
    <3>1. PICK n \in 1..MaxLevel(k.fam) :
            /\ IsTerminal(n, k.mask)
            /\ CutShort("set_all", op, k, "none", n, PrefixRecalc(k.addr, k.mask), {})
      BY <2>5 DEF BadOp
    <3> QED BY <3>1, CutShortIsGood
  <2>6. CASE ArrayCrashes(k)
    BY <1>0, <2>6, OthersAreGood DEF ArrayCrashes, TypeOK
  <2> QED BY <2>1, <2>2, <2>3, <2>4, <2>5, <2>6
<1>4. ASSUME NEW op \in {0, 1}, UpdateRefused(op) PROVE IInv'
  BY <1>0, <1>4, OthersAreGood DEF UpdateRefused, TypeOK
<1>5. ASSUME NEW q \in Probes, TableMatch(q) PROVE IInv'
  BY <1>0, <1>5, OthersAreGood DEF TableMatch, TypeOK
<1>6. CASE TableFree
  BY <1>6, FreeIsGood
<1>7. CASE UNCHANGED vars
  BY <1>0, <1>7, OthersAreGood DEF vars, TypeOK
<1> QED
  BY <1>1, <1>2, <1>3, <1>4, <1>5, <1>6, <1>7 DEF Next

\* Type correctness, of every behaviour of the table.
THEOREM TypeCorrect == Spec => []TypeOK
<1>1. Init => IInv
  BY InitIsGood
<1>2. IInv /\ [Next]_vars => IInv'
  BY StepIsGood
<1>3. IInv => TypeOK
  BY DEF IInv
<1> QED
  BY <1>1, <1>2, <1>3, PTL DEF Spec

\* The trie stays well formed: no node holds two entries of one mask, entries sit
\* at their mask's level and in linked arrays, and the arrays are one tree.  It
\* holds for every number of levels and stride, through allocation failures and
\* refused ops as well.
THEOREM TrieWellFormed ==
  Spec => [](OneEntryPerMask /\ EntriesAtTheirLevel /\ EntriesReachable /\ ArraysLinked)
<1>1. Init => IInv
  BY InitIsGood
<1>2. IInv /\ [Next]_vars => IInv'
  BY StepIsGood
<1>3. IInv => OneEntryPerMask /\ EntriesAtTheirLevel /\ EntriesReachable /\ ArraysLinked
  BY DEF IInv, Structure
<1> QED
  BY <1>1, <1>2, <1>3, PTL DEF Spec

\* Its parts, each as the runs check it.  Every entry is at the level its mask ends in.
THEOREM LevelsAreKept == Spec => []EntriesAtTheirLevel
  BY TrieWellFormed, PTL

\* No entry is ever in an array that the walk of a lookup cannot come to, even when the
\* call that made it was cut short.
THEOREM NothingIsOutOfReach == Spec => []EntriesReachable
  BY TrieWellFormed, PTL

\* The arrays are one tree: dns_lpm_free, which walks it, comes to all that are linked.
THEOREM ArraysAreOneTree == Spec => []ArraysLinked
  BY TrieWellFormed, PTL

(***************************************************************************)
(* The memory.  A live table's heap is counted block by block: the table,  *)
(* the linked arrays, and one entry per mask on a list.  Of a table that   *)
(* is gone the heap, the arrays and the lists are all empty.               *)
(***************************************************************************)

\* H holds exactly the table, the arrays A and the entries on the lists c.
Accounts(H, A, c) ==
  /\ TableBlock \in H
  /\ \A p : <<"array", p>> \in H <=> p \in A
  /\ \A f \in Family, p \in Path, x \in Mask(IS_IPV6) :
       <<"entry", f, p, x>> \in H <=> HasMask(c[f][p], x)

MemoryKept ==
  /\ table = "live" => Accounts(heap, arrays, cfg)
  /\ table = "none" => heap = {} /\ arrays = {} /\ cfg = EmptyLists

\* The masks on a list after OP_ADD.
LEMMA MasksAfterAdd ==
  ASSUME NEW s \in Seq(Entry), Unique(s), NEW e \in Entry, NEW x
  PROVE  HasMask(AddEntry(s, e), x) <=> HasMask(s, x) \/ x = e.mask
<1>1. Edited(s, AddEntry(s, e), e.mask) /\ HasMask(AddEntry(s, e), e.mask)
  BY AddEntryEdits
<1> QED
  BY <1>1 DEF Edited, HasMask

\* The masks on a list after OP_DEL.
LEMMA MasksAfterDel ==
  ASSUME NEW s \in Seq(Entry), Unique(s), NEW m, NEW x
  PROVE  HasMask(DelEntry(s, m), x) <=> HasMask(s, x) /\ x # m
<1>1. Edited(s, DelEntry(s, m), m) /\ ~ HasMask(DelEntry(s, m), m)
  BY DelEntryEdits
<1> QED
  BY <1>1 DEF Edited, HasMask

\* The blocks of arrays and those of entries do not overlap, nor with the table's.
LEMMA TableKind ==
  ASSUME NEW ps, NEW f, NEW m
  PROVE  /\ TableBlock \notin ArrayBlocks(ps) /\ TableBlock \notin EntryBlocks(f, ps, m)
         /\ \A p : <<"array", p>> # TableBlock
         /\ \A h, p, x : <<"entry", h, p, x>> # TableBlock
BY DEF TableBlock, ArrayBlocks, EntryBlocks

\* Blocks of arrays are no blocks of entries.
LEMMA ArrayKinds ==
  ASSUME NEW ps, NEW f, NEW m, NEW p
  PROVE  /\ <<"array", p>> \in ArrayBlocks(ps) <=> p \in ps
         /\ <<"array", p>> \notin EntryBlocks(f, ps, m)
BY DEF ArrayBlocks, EntryBlocks

\* Blocks of entries are told apart by family, node and mask.
LEMMA EntryKinds ==
  ASSUME NEW ps, NEW f, NEW m, NEW h, NEW p, NEW x
  PROVE  /\ <<"entry", h, p, x>> \notin ArrayBlocks(ps)
         /\ <<"entry", h, p, x>> \in EntryBlocks(f, ps, m) <=> h = f /\ p \in ps /\ x = m
BY DEF ArrayBlocks, EntryBlocks

\* A block is of one of the kinds.
LEMMA KindOfBlock ==
  ASSUME NEW b \in Block
  PROVE  \/ b = TableBlock
         \/ \E p \in ArrayPath : b = <<"array", p>>
         \/ \E f \in Family, p \in Path, x \in Mask(IS_IPV6) : b = <<"entry", f, p, x>>
BY DEF Block, ArrayBlocks, EntryBlocks

\* A well formed trie whose heap is counted so has in its heap what dns_lpm_free
\* walks, and nothing else.
LEMMA AccountsIsWalked ==
  ASSUME IInv, Accounts(heap, arrays, cfg)
  PROVE  heap = Walked
<1>1. Linked = arrays
  BY DEF Linked, IInv, Structure, ArraysLinked
<1> DEFINE at(f, p) == UNION {EntryBlocks(f, {p}, cfg[f][p][i].mask) :
                                i \in 1..Len(cfg[f][p])}
           E == UNION {at(f, p) : f \in Family, p \in {q \in Path : Front(q) \in Linked}}
<1>2. \A f \in Family, p \in Path : \A i \in 1..Len(cfg[f][p]) :
        cfg[f][p][i].mask \in Mask(IS_IPV6)
  <2> TAKE f \in Family, p \in Path
  <2>1. cfg[f][p] \in Seq(Entry)
    BY DEF IInv, TypeOK
  <2>2. \A i \in 1..Len(cfg[f][p]) : cfg[f][p][i] \in Entry
    BY <2>1, ElementOfSeq
  <2> QED BY <2>2 DEF Entry
<1>4. Walked = {TableBlock} \cup ArrayBlocks(arrays) \cup E
  BY <1>1 DEF Walked
<1>3. \A b : b \in E <=> \E f \in Family, p \in {q \in Path : Front(q) \in Linked} :
                          \E i \in 1..Len(cfg[f][p]) : b = <<"entry", f, p, cfg[f][p][i].mask>>
  <2>1. \A f, p, b : b \in at(f, p) <=>
                      \E i \in 1..Len(cfg[f][p]) : b = <<"entry", f, p, cfg[f][p][i].mask>>
    BY DEF EntryBlocks
  <2> HIDE DEF at
  <2>2. \A b : b \in E <=> \E f \in Family, p \in {q \in Path : Front(q) \in Linked} :
                            b \in at(f, p)
    <3> DEFINE Q == {q \in Path : Front(q) \in Linked}
               W == {at(f, p) : f \in Family, p \in Q}
    <3>1. E = UNION W
      OBVIOUS
    <3> HIDE DEF Q
    <3>2. \A w : w \in W <=> \E f \in Family, p \in Q : w = at(f, p)
      OBVIOUS
    <3> HIDE DEF W, E
    <3>3. \A b : b \in E <=> \E w \in W : b \in w
      BY <3>1
    <3>4. \A b : b \in E <=> \E f \in Family, p \in Q : b \in at(f, p)
      BY <3>2, <3>3
    <3> QED BY <3>4 DEF Q
  <2> HIDE DEF E
  <2>3. ASSUME NEW b
        PROVE  b \in E <=> \E f \in Family, p \in {q \in Path : Front(q) \in Linked} :
                             \E i \in 1..Len(cfg[f][p]) :
                               b = <<"entry", f, p, cfg[f][p][i].mask>>
    <3>1. ASSUME b \in E
          PROVE  \E f \in Family, p \in {q \in Path : Front(q) \in Linked} :
                   \E i \in 1..Len(cfg[f][p]) : b = <<"entry", f, p, cfg[f][p][i].mask>>
      <4>1. PICK f \in Family, p \in {q \in Path : Front(q) \in Linked} : b \in at(f, p)
        BY <2>2, <3>1
      <4>2. \E i \in 1..Len(cfg[f][p]) : b = <<"entry", f, p, cfg[f][p][i].mask>>
        BY <2>1, <4>1
      <4> QED BY <4>2
    <3>2. ASSUME NEW f \in Family, NEW p \in {q \in Path : Front(q) \in Linked},
                 NEW i \in 1..Len(cfg[f][p]), b = <<"entry", f, p, cfg[f][p][i].mask>>
          PROVE  b \in E
      <4>1. b \in at(f, p)
        BY <2>1, <3>2
      <4> QED BY <2>2, <4>1
    <3> QED BY <3>1, <3>2
  <2> QED BY <2>3
<1> HIDE DEF at, E
<1>5. ASSUME NEW b \in heap PROVE b \in Walked
  <2>1. b \in Block
    BY DEF IInv, TypeOK
  <2>2. CASE b = TableBlock
    BY <1>4, <2>2
  <2>3. ASSUME NEW p \in ArrayPath, b = <<"array", p>> PROVE b \in Walked
    BY <1>4, <2>3, ArrayKinds DEF Accounts
  <2>4. ASSUME NEW f \in Family, NEW p \in Path, NEW x \in Mask(IS_IPV6),
               b = <<"entry", f, p, x>>
        PROVE  b \in Walked
    <3>1. PICK i \in 1..Len(cfg[f][p]) : cfg[f][p][i].mask = x
      BY <2>4 DEF Accounts, HasMask
    <3>2. Front(p) \in Linked
      <4>1. cfg[f][p] # <<>>
        BY <3>1, EmptySeq
      <4> QED BY <1>1, <4>1 DEF IInv, Structure, EntriesReachable
    <3> QED BY <1>3, <1>4, <2>4, <3>1, <3>2
  <2> QED BY <2>1, <2>2, <2>3, <2>4, KindOfBlock
<1>6. ASSUME NEW b \in Walked PROVE b \in heap
  <2>1. CASE b = TableBlock
    BY <2>1 DEF Accounts
  <2>2. CASE b \in ArrayBlocks(arrays)
    BY <2>2 DEF ArrayBlocks, Accounts
  <2>3. CASE b \in E
    <3>1. PICK f \in Family, p \in Path : \E i \in 1..Len(cfg[f][p]) :
                 b = <<"entry", f, p, cfg[f][p][i].mask>>
      BY <1>3, <2>3
    <3>2. PICK i \in 1..Len(cfg[f][p]) : b = <<"entry", f, p, cfg[f][p][i].mask>>
      BY <3>1
    <3>3. HasMask(cfg[f][p], cfg[f][p][i].mask)
      BY DEF HasMask
    <3> QED BY <1>2, <3>2, <3>3 DEF Accounts
  <2> QED BY <1>4, <2>1, <2>2, <2>3
<1> QED
  BY <1>5, <1>6

\* The lists c with e added at the nodes D of family f.
WithEntry(c, f, D, e) ==
  [c EXCEPT ![f] = [p \in Path |-> IF p \in D THEN AddEntry(c[f][p], e) ELSE c[f][p]]]

\* Arrays linked and entries put on the lists of the nodes D, with their blocks.
LEMMA AccountsAfterAdd ==
  ASSUME NEW H, NEW A, NEW c, Accounts(H, A, c),
         c \in [Family -> [Path -> Seq(Entry)]],
         \A h \in Family, p \in Path : Unique(c[h][p]),
         NEW f \in Family, NEW D \in SUBSET Path, NEW e \in Entry, NEW B
  PROVE  Accounts(H \cup ArrayBlocks(B) \cup EntryBlocks(f, D, e.mask), A \cup B,
                  WithEntry(c, f, D, e))
<1> DEFINE d == WithEntry(c, f, D, e)
           G == H \cup ArrayBlocks(B) \cup EntryBlocks(f, D, e.mask)
<1>1. \A h \in Family, p \in Path :
        d[h][p] = IF h = f /\ p \in D THEN AddEntry(c[h][p], e) ELSE c[h][p]
  BY DEF WithEntry
<1>2. /\ TableBlock \in G
      /\ \A p : <<"array", p>> \in G <=> p \in A \cup B
      /\ \A h \in Family, p \in Path, x \in Mask(IS_IPV6) :
           <<"entry", h, p, x>> \in G
             <=> HasMask(c[h][p], x) \/ (h = f /\ p \in D /\ x = e.mask)
  <2>1. TableBlock \in G
    BY DEF Accounts
  <2>2. \A p : <<"array", p>> \in G <=> p \in A \cup B
    BY ArrayKinds DEF Accounts
  <2>3. \A h \in Family, p \in Path, x \in Mask(IS_IPV6) :
          <<"entry", h, p, x>> \in G
            <=> HasMask(c[h][p], x) \/ (h = f /\ p \in D /\ x = e.mask)
    <3> TAKE h \in Family, p \in Path, x \in Mask(IS_IPV6)
    <3>1. <<"entry", h, p, x>> \notin ArrayBlocks(B)
      BY DEF ArrayBlocks
    <3>2. <<"entry", h, p, x>> \in EntryBlocks(f, D, e.mask) <=> h = f /\ p \in D /\ x = e.mask
      BY DEF EntryBlocks
    <3>3. <<"entry", h, p, x>> \in H <=> HasMask(c[h][p], x)
      BY DEF Accounts
    <3> QED BY <3>1, <3>2, <3>3
  <2> QED BY <2>1, <2>2, <2>3
<1> HIDE DEF d, G
<1>3. \A h \in Family, p \in Path, x \in Mask(IS_IPV6) :
        HasMask(d[h][p], x) <=> HasMask(c[h][p], x) \/ (h = f /\ p \in D /\ x = e.mask)
  <2> TAKE h \in Family, p \in Path, x \in Mask(IS_IPV6)
  <2>1. c[h][p] \in Seq(Entry)
    OBVIOUS
  <2>2. HasMask(AddEntry(c[h][p], e), x) <=> HasMask(c[h][p], x) \/ x = e.mask
    BY <2>1, MasksAfterAdd
  <2> QED BY <1>1, <2>2
<1> QED
  BY <1>2, <1>3 DEF Accounts, d, G

\* OP_ADD counts the arrays it links and the entries it lists.
LEMMA AddIsCounted ==
  ASSUME IInv, MemoryKept, NEW call, NEW k \in Rules, NEW r \in Results, Add(call, k, r)
  PROVE  MemoryKept'
<1> DEFINE f == k.fam
           m == k.mask
           a == PrefixRecalc(k.addr, m)
           e == [mask |-> m, res |-> r]
<1>1. /\ f \in Family /\ a \in Addr(f) /\ e \in Entry /\ e.mask = m
  BY RuleFacts DEF Entry
<1> HIDE DEF f, m, a
<1>2. PICK n \in 1..MaxLevel(f) :
        /\ arrays' = arrays \cup ArraysTo(n, a)
        /\ cfg' = [cfg EXCEPT ![f] = [p \in Path |->
                     IF p \in Targets(n, a, m) THEN AddEntry(cfg[f][p], e) ELSE cfg[f][p]]]
        /\ heap' = heap \cup ArrayBlocks(ArraysTo(n, a)) \cup EntryBlocks(f, Targets(n, a, m), m)
  BY DEF Add, f, m, a
<1>3. Targets(n, a, m) \in SUBSET Path
  BY <1>1, TargetsAreNodes
<1>4. /\ cfg \in [Family -> [Path -> Seq(Entry)]]
      /\ \A h \in Family, p \in Path : Unique(cfg[h][p])
  BY DEF IInv, TypeOK, Structure, OneEntryPerMask, Unique
<1>5. table = "live" /\ table' = "live" /\ Accounts(heap, arrays, cfg)
  BY DEF Add, MemoryKept
<1> HIDE DEF e
<1> DEFINE D == Targets(n, a, m)
<1>6. /\ cfg' = WithEntry(cfg, f, D, e)
      /\ heap' = heap \cup ArrayBlocks(ArraysTo(n, a)) \cup EntryBlocks(f, D, e.mask)
  BY <1>1, <1>2 DEF WithEntry
<1> HIDE DEF D
<1>7. Accounts(heap \cup ArrayBlocks(ArraysTo(n, a)) \cup EntryBlocks(f, D, e.mask),
               arrays \cup ArraysTo(n, a), WithEntry(cfg, f, D, e))
  <2>1. D \in SUBSET Path
    BY <1>3 DEF D
  <2> QED BY <1>1, <1>4, <1>5, <2>1, AccountsAfterAdd
<1>8. Accounts(heap', arrays', cfg')
  BY <1>2, <1>6, <1>7
<1> QED
  BY <1>5, <1>8 DEF MemoryKept

\* OP_DEL takes a rule's entries off the lists and out of the heap alike.
LEMMA DelIsCounted ==
  ASSUME IInv, MemoryKept, NEW k \in Rules, Del(k)
  PROVE  MemoryKept'
<1> DEFINE f == k.fam
           m == k.mask
           a == PrefixRecalc(k.addr, m)
<1>1. f \in Family /\ a \in Addr(f)
  BY RuleFacts
<1> HIDE DEF f, m, a
<1>2. PICK n \in 1..MaxLevel(f) :
        /\ arrays' = arrays \cup ArraysTo(n, a)
        /\ cfg' = [cfg EXCEPT ![f] = [p \in Path |->
                     IF p \in Targets(n, a, m) THEN DelEntry(cfg[f][p], m) ELSE cfg[f][p]]]
        /\ heap' = (heap \cup ArrayBlocks(ArraysTo(n, a)))
                     \ {b \in EntryBlocks(f, Targets(n, a, m), m) : HasMask(cfg[f][b[3]], m)}
  BY DEF Del, f, m, a
<1> DEFINE D == Targets(n, a, m)
           gone == {b \in EntryBlocks(f, D, m) : HasMask(cfg[f][b[3]], m)}
<1>3. D \in SUBSET Path
  BY <1>1, TargetsAreNodes
<1>4. /\ cfg \in [Family -> [Path -> Seq(Entry)]]
      /\ \A h \in Family, p \in Path : Unique(cfg[h][p])
  BY DEF IInv, TypeOK, Structure, OneEntryPerMask, Unique
<1>5. table = "live" /\ table' = "live" /\ Accounts(heap, arrays, cfg)
  BY DEF Del, MemoryKept
<1>6. /\ TableBlock \notin gone
      /\ \A p : <<"array", p>> \notin gone
      /\ \A h, p, x : <<"entry", h, p, x>> \in gone
                        <=> h = f /\ p \in D /\ x = m /\ HasMask(cfg[f][p], m)
  <2>1. \A h, p, x : <<"entry", h, p, x>>[3] = p
    OBVIOUS
  <2> QED BY <2>1, TableKind, ArrayKinds, EntryKinds
<1>7. \A h \in Family, p \in Path :
        cfg'[h][p] = IF h = f /\ p \in D THEN DelEntry(cfg[h][p], m) ELSE cfg[h][p]
  BY <1>2, <1>4
<1>8. heap' = (heap \cup ArrayBlocks(ArraysTo(n, a))) \ gone
  BY <1>2
<1> HIDE DEF D, gone
<1>9. /\ TableBlock \in heap'
      /\ \A p : <<"array", p>> \in heap' <=> p \in arrays'
      /\ \A h \in Family, p \in Path, x \in Mask(IS_IPV6) :
           <<"entry", h, p, x>> \in heap'
             <=> HasMask(cfg[h][p], x) /\ ~ (h = f /\ p \in D /\ x = m)
  <2>1. TableBlock \in heap'
    BY <1>5, <1>6, <1>8 DEF Accounts
  <2>2. \A p : <<"array", p>> \in heap' <=> p \in arrays'
    BY <1>2, <1>5, <1>6, <1>8, ArrayKinds DEF Accounts
  <2>3. \A h \in Family, p \in Path, x \in Mask(IS_IPV6) :
          <<"entry", h, p, x>> \in heap'
            <=> HasMask(cfg[h][p], x) /\ ~ (h = f /\ p \in D /\ x = m)
    <3> TAKE h \in Family, p \in Path, x \in Mask(IS_IPV6)
    <3>1. <<"entry", h, p, x>> \in heap' <=>
            <<"entry", h, p, x>> \in heap /\ <<"entry", h, p, x>> \notin gone
      BY <1>8, EntryKinds
    <3>2. <<"entry", h, p, x>> \in heap <=> HasMask(cfg[h][p], x)
      BY <1>5 DEF Accounts
    <3>3. <<"entry", h, p, x>> \in gone <=> h = f /\ p \in D /\ x = m /\ HasMask(cfg[f][p], m)
      BY <1>6
    <3> QED BY <3>1, <3>2, <3>3
  <2> QED BY <2>1, <2>2, <2>3
<1>10. \A h \in Family, p \in Path, x \in Mask(IS_IPV6) :
        HasMask(cfg'[h][p], x) <=> HasMask(cfg[h][p], x) /\ ~ (h = f /\ p \in D /\ x = m)
  <2> TAKE h \in Family, p \in Path, x \in Mask(IS_IPV6)
  <2>1. cfg[h][p] \in Seq(Entry) /\ Unique(cfg[h][p])
    BY <1>4
  <2>2. HasMask(DelEntry(cfg[h][p], m), x) <=> HasMask(cfg[h][p], x) /\ x # m
    BY <2>1, MasksAfterDel
  <2> QED BY <1>7, <2>2
<1> QED
  BY <1>5, <1>9, <1>10 DEF MemoryKept, Accounts

\* A call cut short: a fresh last array is lost from heap and trie alike, with the
\* entries in it; otherwise what was set is on the lists.
LEMMA CutShortIsCounted ==
  ASSUME IInv, MemoryKept, table = "live",
         NEW call, NEW op, NEW k \in Rules, NEW r, NEW n \in 1..MaxLevel(k.fam),
         NEW D \in SUBSET Targets(n, PrefixRecalc(k.addr, k.mask), k.mask),
         D = {} \/ r \in Results,
         CutShort(call, op, k, r, n, PrefixRecalc(k.addr, k.mask), D)
  PROVE  MemoryKept'
<1> DEFINE f == k.fam
           m == k.mask
           a == PrefixRecalc(k.addr, m)
           e == [mask |-> m, res |-> r]
           last  == SubSeq(a, 1, n - 1)
           above == ArraysTo(n, a) \ {last}
           g == [p \in Path |-> IF p \in D THEN AddEntry(cfg[f][p], e) ELSE cfg[f][p]]
<1>1. f \in Family /\ a \in Addr(f) /\ e.mask = m /\ (D = {} \/ e \in Entry)
  BY RuleFacts DEF Entry
<1>2. /\ arrays' = arrays \cup above
      /\ cfg' = IF last \notin arrays THEN cfg ELSE [cfg EXCEPT ![f] = g]
      /\ heap' = heap \cup ArrayBlocks(above)
                   \cup IF last \notin arrays THEN {} ELSE EntryBlocks(f, D, m)
      /\ table' = table
  BY DEF CutShort
<1>3. D \in SUBSET Path
  BY <1>1, TargetsAreNodes
<1>4. /\ cfg \in [Family -> [Path -> Seq(Entry)]]
      /\ \A h \in Family, p \in Path : Unique(cfg[h][p])
  BY DEF IInv, TypeOK, Structure, OneEntryPerMask, Unique
<1>5. Accounts(heap, arrays, cfg)
  BY DEF MemoryKept
<1> HIDE DEF f, m, a, e, above
<1>6. CASE last \notin arrays
  <2>1. cfg' = cfg /\ heap' = heap \cup ArrayBlocks(above)
    BY <1>2, <1>6
  <2>2. Accounts(heap', arrays', cfg')
    BY <1>2, <1>5, <2>1, ArrayKinds, EntryKinds DEF Accounts
  <2> QED BY <1>2, <2>2 DEF MemoryKept
<1>7. CASE last \in arrays /\ D = {}
  <2>1. \A h \in Family, p \in Path : cfg'[h][p] = cfg[h][p]
    BY <1>2, <1>4, <1>7
  <2>2. heap' = heap \cup ArrayBlocks(above) \cup EntryBlocks(f, {}, m)
    BY <1>2, <1>7
  <2>3. Accounts(heap', arrays', cfg')
    <3>1. TableBlock \in heap'
      BY <1>5, <2>2 DEF Accounts
    <3>2. \A p : <<"array", p>> \in heap' <=> p \in arrays'
      BY <1>2, <1>5, <2>2, ArrayKinds DEF Accounts
    <3>3. \A h \in Family, p \in Path, x \in Mask(IS_IPV6) :
            <<"entry", h, p, x>> \in heap' <=> HasMask(cfg'[h][p], x)
      <4> TAKE h \in Family, p \in Path, x \in Mask(IS_IPV6)
      <4>1. <<"entry", h, p, x>> \in heap' <=> <<"entry", h, p, x>> \in heap
        BY <2>2, EntryKinds
      <4>2. <<"entry", h, p, x>> \in heap <=> HasMask(cfg[h][p], x)
        BY <1>5 DEF Accounts
      <4> QED BY <2>1, <4>1, <4>2
    <3> QED BY <3>1, <3>2, <3>3 DEF Accounts
  <2> QED BY <1>2, <2>3 DEF MemoryKept
<1>8. CASE last \in arrays /\ D # {}
  <2>1. cfg' = WithEntry(cfg, f, D, e)
    BY <1>2, <1>8 DEF WithEntry
  <2>2. heap' = heap \cup ArrayBlocks(above) \cup EntryBlocks(f, D, e.mask)
    BY <1>1, <1>2, <1>8
  <2>3. e \in Entry
    BY <1>1, <1>8
  <2>4. Accounts(heap \cup ArrayBlocks(above) \cup EntryBlocks(f, D, e.mask),
                 arrays \cup above, WithEntry(cfg, f, D, e))
    BY <1>1, <1>3, <1>4, <1>5, <2>3, AccountsAfterAdd
  <2>5. Accounts(heap', arrays', cfg')
    BY <1>2, <2>1, <2>2, <2>4
  <2> QED BY <1>2, <2>5 DEF MemoryKept
<1> QED
  BY <1>6, <1>7, <1>8

\* A new table is its own block, and nothing hangs from it.
LEMMA CreateIsCounted ==
  ASSUME MemoryKept, TableCreate
  PROVE  MemoryKept'
<1>1. heap' = {TableBlock} /\ arrays' = {} /\ cfg' = EmptyLists /\ table' = "live"
  BY DEF MemoryKept, TableCreate
<1>2. \A f \in Family, p \in Path : \A x : ~ HasMask(EmptyLists[f][p], x)
  BY EmptySeq DEF EmptyLists, HasMask
<1>3. \A p : <<"array", p>> # TableBlock
  BY TableKind
<1>4. \A f, p, x : <<"entry", f, p, x>> # TableBlock
  BY TableKind
<1> QED
  BY <1>1, <1>2, <1>3, <1>4 DEF MemoryKept, Accounts

\* The free of a table leaves no block: it walks all that the heap holds.
LEMMA FreeIsCounted ==
  ASSUME IInv, MemoryKept, TableFree
  PROVE  MemoryKept'
<1>1. heap = Walked
  BY AccountsIsWalked DEF MemoryKept, TableFree
<1> QED
  BY <1>1 DEF TableFree, MemoryKept

\* The count survives every step.
LEMMA StepIsCounted == IInv /\ MemoryKept /\ [Next]_vars => MemoryKept'
<1> SUFFICES ASSUME IInv, MemoryKept, [Next]_vars
               PROVE  MemoryKept'
  OBVIOUS
<1>1. CASE TableCreate
  BY <1>1, CreateIsCounted
<1>2. CASE TableCreateCrashes
  BY <1>2 DEF TableCreateCrashes, MemoryKept
<1>3. CASE SetCall
  <2>1. PICK k \in Rules :
          \/ \E r \in Results, call \in Calls : Add(call, k, r) \/ AddEntryFails(call, k, r)
          \/ Del(k)
          \/ \E op \in Ops : BadOp(op, k)
          \/ ArrayCrashes(k)
    BY <1>3 DEF SetCall
  <2>2. ASSUME NEW r \in Results, NEW call \in Calls, Add(call, k, r) PROVE MemoryKept'
    BY <2>2, AddIsCounted
  <2>3. ASSUME NEW r \in Results, NEW call \in Calls, AddEntryFails(call, k, r)
        PROVE  MemoryKept'
    <3> DEFINE a == PrefixRecalc(k.addr, k.mask)
    <3>1. PICK n \in 1..MaxLevel(k.fam) : \E q \in Targets(n, a, k.mask) :
            CutShort(call, "OP_ADD", k, r, n, a, {p \in Targets(n, a, k.mask) : p[n] < q[n]})
      BY <2>3 DEF AddEntryFails
    <3>2. PICK q \in Targets(n, a, k.mask) :
            CutShort(call, "OP_ADD", k, r, n, a, {p \in Targets(n, a, k.mask) : p[n] < q[n]})
      BY <3>1
    <3>3. {p \in Targets(n, a, k.mask) : p[n] < q[n]} \in SUBSET Targets(n, a, k.mask)
      OBVIOUS
    <3>4. table = "live"
      BY <2>3 DEF AddEntryFails
    <3> QED BY <3>2, <3>3, <3>4, CutShortIsCounted
  <2>4. CASE Del(k)
    BY <2>4, DelIsCounted
  <2>5. ASSUME NEW op \in Ops, BadOp(op, k) PROVE MemoryKept'
    <3>1. PICK n \in 1..MaxLevel(k.fam) :
            CutShort("set_all", op, k, "none", n, PrefixRecalc(k.addr, k.mask), {})
      BY <2>5 DEF BadOp
    <3>2. table = "live"
      BY <2>5 DEF BadOp
    <3> QED BY <3>1, <3>2, CutShortIsCounted
  <2>6. CASE ArrayCrashes(k)
    BY <2>6 DEF ArrayCrashes, MemoryKept
  <2> QED BY <2>1, <2>2, <2>3, <2>4, <2>5, <2>6
<1>4. ASSUME NEW op \in {0, 1}, UpdateRefused(op) PROVE MemoryKept'
  BY <1>4 DEF UpdateRefused, MemoryKept
<1>5. ASSUME NEW q \in Probes, TableMatch(q) PROVE MemoryKept'
  BY <1>5 DEF TableMatch, MemoryKept
<1>6. CASE TableFree
  BY <1>6, FreeIsCounted
<1>7. CASE UNCHANGED vars
  BY <1>7 DEF vars, MemoryKept
<1> QED
  BY <1>1, <1>2, <1>3, <1>4, <1>5, <1>6, <1>7 DEF Next

\* Every block in use is one dns_lpm_free reaches from the root, and a table that was
\* freed leaves none: nothing leaks but the arrays `lost` counts, nothing is freed
\* early, and the free frees no block twice.
THEOREM NothingLeaks == Spec => []MemoryAccounted
<1>1. Init => IInv /\ MemoryKept
  BY InitIsGood DEF Init, MemoryKept
<1>2. (IInv /\ MemoryKept) /\ [Next]_vars => (IInv /\ MemoryKept)'
  BY StepIsGood, StepIsCounted
<1>3. IInv /\ MemoryKept => MemoryAccounted
  BY AccountsIsWalked DEF MemoryKept, MemoryAccounted
<1> QED
  BY <1>1, <1>2, <1>3, PTL DEF Spec

(***************************************************************************)
(* Leaving out the entries of one mask.                                    *)
(***************************************************************************)

Kept(e, m) == IF e.mask = m THEN <<>> ELSE <<e>>

\* What is kept of one entry.
LEMMA KeptIsSeq ==
  ASSUME NEW E, NEW e \in E, NEW m
  PROVE  Kept(e, m) \in Seq(E)
BY EmptySeq DEF Kept

\* Of no entries none are left.
LEMMA WithoutEmpty == ASSUME NEW m PROVE Without(<<>>, m) = <<>>
<1> DEFINE r == [i \in 1..Len(<<>>) |-> IF <<>>[i].mask = m THEN <<>> ELSE << <<>>[i] >>]
<1>1. r \in Seq({}) /\ Len(r) = 0
  BY EmptySeq
<1>2. r = <<>>
  BY <1>1, EmptySeq
<1> QED BY <1>2, FlattenEmpty DEF Without

\* Without joins what is kept of each entry.
LEMMA WithoutIsFlat ==
  ASSUME NEW E, NEW s \in Seq(E), NEW m
  PROVE  /\ [i \in 1..Len(s) |-> Kept(s[i], m)] \in Seq(Seq(E))
         /\ Len([i \in 1..Len(s) |-> Kept(s[i], m)]) = Len(s)
         /\ Without(s, m) = FlattenSeq([i \in 1..Len(s) |-> Kept(s[i], m)])
         /\ Without(s, m) \in Seq(E)
<1> DEFINE n == Len(s)
           r == [i \in 1..n |-> Kept(s[i], m)]
<1>1. n \in Nat /\ \A i \in 1..n : s[i] \in E
  BY LenProperties, ElementOfSeq
<1>2. \A i \in 1..n : Kept(s[i], m) \in Seq(E)
  BY <1>1, KeptIsSeq
<1>3. r \in Seq(Seq(E)) /\ Len(r) = n
  BY <1>1, <1>2
<1>4. Without(s, m) = FlattenSeq(r)
  BY DEF Without, Kept
<1> QED BY <1>3, <1>4, FlattenPlaces

\* One entry more.
LEMMA WithoutAppend ==
  ASSUME NEW E, NEW s \in Seq(E), NEW e \in E, NEW m
  PROVE  Without(Append(s, e), m) = Without(s, m) \o Kept(e, m)
<1> DEFINE t == Append(s, e)
           r == [i \in 1..Len(s) |-> Kept(s[i], m)]
           q == [i \in 1..Len(t) |-> Kept(t[i], m)]
<1>1. /\ t \in Seq(E) /\ Len(s) \in Nat /\ Len(t) = Len(s) + 1 /\ t[Len(s) + 1] = e
      /\ \A i \in 1..Len(s) : t[i] = s[i]
  BY AppendProperties, LenProperties
<1> HIDE DEF t
<1>2. r \in Seq(Seq(E)) /\ Len(r) = Len(s) /\ Without(s, m) = FlattenSeq(r)
  BY WithoutIsFlat
<1>3. q \in Seq(Seq(E)) /\ Len(q) = Len(t) /\ Without(t, m) = FlattenSeq(q)
  BY <1>1, WithoutIsFlat
<1>4. \A i \in 1..Len(s) : q[i] = r[i]
  BY <1>1
<1>5. q[Len(s) + 1] = Kept(e, m)
  BY <1>1
<1> HIDE DEF r, q
<1> DEFINE x == Kept(e, m)
           v == Append(r, x)
<1>6. x \in Seq(E)
  BY KeptIsSeq
<1> HIDE DEF x
<1>7. /\ v \in Seq(Seq(E)) /\ Len(v) = Len(s) + 1 /\ v[Len(s) + 1] = x
      /\ \A i \in 1..Len(s) : v[i] = r[i]
  BY <1>1, <1>2, <1>6, AppendProperties
<1>8. FlattenSeq(v) = FlattenSeq(r) \o x
  BY <1>2, <1>6, FlattenAppend
<1> HIDE DEF v
<1>9. ASSUME NEW i \in 1..Len(q) PROVE q[i] = v[i]
  <2>1. i \in 1..Len(s) \/ i = Len(s) + 1
    BY <1>1, <1>3
  <2> QED BY <1>4, <1>5, <1>7, <2>1 DEF x
<1>10. q = v
  <2>1. Len(q) = Len(v)
    BY <1>1, <1>3, <1>7
  <2> QED BY <1>3, <1>7, <1>9, <2>1, SeqEqual
<1> QED BY <1>2, <1>3, <1>8, <1>10 DEF x, t

BothSeqs(E, s, t) == s \in Seq(E) /\ t \in Seq(E)

\* Without, of two sequences behind each other.
LEMMA WithoutConcat ==
  ASSUME NEW E, NEW s, NEW t, NEW m, BothSeqs(E, s, t)
  PROVE  Without(s \o t, m) = Without(s, m) \o Without(t, m)
<1> DEFINE S == {n \in Nat : \A u \in Seq(E) : Len(u) = n =>
                   Without(s \o u, m) = Without(s, m) \o Without(u, m)}
<1>0. s \in Seq(E) /\ t \in Seq(E) /\ Without(s, m) \in Seq(E)
  BY WithoutIsFlat DEF BothSeqs
<1>1. 0 \in S
  <2>1. ASSUME NEW u \in Seq(E), Len(u) = 0
        PROVE  Without(s \o u, m) = Without(s, m) \o Without(u, m)
    <3>1. u = <<>> /\ s \o <<>> = s /\ Without(s, m) \o <<>> = Without(s, m)
      BY <1>0, <2>1, EmptySeq, ConcatEmptySeq
    <3> QED BY <3>1, WithoutEmpty
  <2> QED BY <2>1
<1>2. ASSUME NEW n \in Nat, n \in S PROVE n + 1 \in S
  <2>1. ASSUME NEW u \in Seq(E), Len(u) = n + 1
        PROVE  Without(s \o u, m) = Without(s, m) \o Without(u, m)
    <3>1. u[n + 1] \in E /\ \E v \in Seq(E) : Extends(u, v, n)
      BY <2>1, SplitLast
    <3> DEFINE e == u[n + 1]
    <3>2. PICK v \in Seq(E) : Len(v) = n /\ u = Append(v, e)
      BY <3>1 DEF Extends
    <3>3. e \in E
      BY <3>1
    <3> HIDE DEF e
    <3>4. Without(s \o v, m) = Without(s, m) \o Without(v, m)
      BY <1>2, <3>2
    <3>5. Without(u, m) = Without(v, m) \o Kept(e, m)
      BY <3>2, <3>3, WithoutAppend
    <3>6. s \o v \in Seq(E)
      BY <1>0, ConcatProperties
    <3>7. s \o u = Append(s \o v, e)
      <4> DEFINE x == s \o u
                 y == s \o v
                 z == Append(y, e)
      <4>1. /\ x \in Seq(E) /\ Len(x) = Len(s) + Len(u)
            /\ \A i \in 1..(Len(s) + Len(u)) : x[i] = IF i <= Len(s) THEN s[i] ELSE u[i - Len(s)]
        BY <1>0, ConcatProperties
      <4>2. /\ y \in Seq(E) /\ Len(y) = Len(s) + Len(v)
            /\ \A i \in 1..(Len(s) + Len(v)) : y[i] = IF i <= Len(s) THEN s[i] ELSE v[i - Len(s)]
        BY <1>0, ConcatProperties
      <4>3. /\ z \in Seq(E) /\ Len(z) = Len(y) + 1 /\ z[Len(y) + 1] = e
            /\ \A i \in 1..Len(y) : z[i] = y[i]
        BY <3>3, <3>6, AppendProperties
      <4>4. /\ u[n + 1] = e
            /\ \A i \in 1..n : u[i] = v[i]
        BY <3>2, <3>3, AppendProperties
      <4>5. Len(s) \in Nat /\ Len(u) = n + 1 /\ Len(v) = n
        BY <1>0, <2>1, <3>2, LenProperties
      <4> HIDE DEF x, y, z
      <4>6. Len(x) = Len(s) + n + 1 /\ Len(y) = Len(s) + n /\ Len(z) = Len(s) + n + 1
        BY <4>1, <4>2, <4>3, <4>5
      <4>7. ASSUME NEW i \in 1..Len(x) PROVE x[i] = z[i]
        <5>0. i \in Nat /\ i \in 1..(Len(s) + Len(u)) /\ i <= Len(s) + n + 1
          BY <4>5, <4>6
        <5>1. CASE i <= Len(s)
          <6>1. i \in 1..(Len(s) + Len(v)) /\ i \in 1..Len(y)
            BY <4>5, <4>6, <5>0, <5>1
          <6> QED BY <4>1, <4>2, <4>3, <5>0, <5>1, <6>1
        <5>2. CASE i > Len(s) /\ i <= Len(s) + n
          <6>1. i - Len(s) \in 1..n /\ i \in 1..(Len(s) + Len(v)) /\ i \in 1..Len(y) /\ ~ (i <= Len(s))
            BY <4>5, <4>6, <5>0, <5>2
          <6>2. x[i] = u[i - Len(s)] /\ y[i] = v[i - Len(s)] /\ z[i] = y[i]
            BY <4>1, <4>2, <4>3, <5>0, <6>1
          <6> QED BY <4>4, <6>1, <6>2
        <5>3. CASE i = Len(s) + n + 1
          <6>1. i - Len(s) = n + 1 /\ i = Len(y) + 1 /\ ~ (i <= Len(s))
            BY <4>5, <4>6, <5>3
          <6>2. x[i] = u[n + 1]
            BY <4>1, <5>0, <6>1
          <6> QED BY <4>3, <4>4, <6>1, <6>2
        <5>4. i <= Len(s) \/ (i > Len(s) /\ i <= Len(s) + n) \/ i = Len(s) + n + 1
          BY <4>5, <5>0
        <5> QED BY <5>1, <5>2, <5>3, <5>4
      <4>8. x = z
        BY <4>1, <4>3, <4>6, <4>7, SeqEqual
      <4> QED BY <4>8 DEF x, y, z
    <3>8. Without(s \o u, m) = Without(s \o v, m) \o Kept(e, m)
      BY <3>3, <3>6, <3>7, WithoutAppend
    <3>9. Without(v, m) \in Seq(E) /\ Kept(e, m) \in Seq(E)
      BY <3>2, <3>3, WithoutIsFlat, KeptIsSeq
    <3>10. (Without(s, m) \o Without(v, m)) \o Kept(e, m) = Without(s, m) \o (Without(v, m) \o Kept(e, m))
      <4>1. AllSeqs(E, Without(s, m), Without(v, m), Kept(e, m))
        BY <1>0, <3>9 DEF AllSeqs
      <4> QED BY <4>1, ConcatThree
    <3> QED BY <3>4, <3>5, <3>8, <3>10
  <2> QED BY <2>1
<1> HIDE DEF S
<1>3. Nat \subseteq S
  BY <1>1, <1>2, InductionOverPositions
<1> QED BY <1>0, <1>3, LenProperties DEF S

\* Rows that differ in entries of mask m only.
AgreeBut(r, q, m) == Len(r) = Len(q) /\ \A i \in 1..Len(r) : Without(r[i], m) = Without(q[i], m)

\* What a lookup finds under other masks than m is the same for such rows.
LEMMA WithoutRows ==
  ASSUME NEW E, NEW m
  PROVE  \A r, q \in Seq(Seq(E)) : AgreeBut(r, q, m) =>
           Without(FlattenSeq(r), m) = Without(FlattenSeq(q), m)
<1> DEFINE Same(r, q) == Without(FlattenSeq(r), m) = Without(FlattenSeq(q), m)
           S == {n \in Nat : \A r, q \in Seq(Seq(E)) : Len(r) = n /\ AgreeBut(r, q, m) => Same(r, q)}
<1>1. 0 \in S
  <2>1. ASSUME NEW r \in Seq(Seq(E)), NEW q \in Seq(Seq(E)), Len(r) = 0, AgreeBut(r, q, m)
        PROVE  Same(r, q)
    <3>1. r = <<>> /\ q = <<>>
      BY <2>1, EmptySeq DEF AgreeBut
    <3> QED BY <3>1
  <2> QED BY <2>1
<1>2. ASSUME NEW n \in Nat, n \in S PROVE n + 1 \in S
  <2>1. ASSUME NEW r \in Seq(Seq(E)), NEW q \in Seq(Seq(E)), Len(r) = n + 1, AgreeBut(r, q, m)
        PROVE  Same(r, q)
    <3> DEFINE x == r[n + 1]
               y == q[n + 1]
    <3>0. Len(q) = n + 1
      BY <2>1 DEF AgreeBut
    <3>1. x \in Seq(E) /\ \E u \in Seq(Seq(E)) : Extends(r, u, n)
      BY <2>1, SplitLast
    <3>2. y \in Seq(E) /\ \E u \in Seq(Seq(E)) : Extends(q, u, n)
      BY <3>0, SplitLast
    <3>3. PICK u \in Seq(Seq(E)) : Len(u) = n /\ r = Append(u, x) /\ \A i \in 1..n : u[i] = r[i]
      BY <3>1 DEF Extends, SameRows
    <3>4. PICK v \in Seq(Seq(E)) : Len(v) = n /\ q = Append(v, y) /\ \A i \in 1..n : v[i] = q[i]
      BY <3>2 DEF Extends, SameRows
    <3>5. Without(x, m) = Without(y, m)
      BY <2>1 DEF AgreeBut
    <3>6. AgreeBut(u, v, m)
      BY <2>1, <3>3, <3>4 DEF AgreeBut
    <3>7. Same(u, v)
      BY <1>2, <3>3, <3>4, <3>6
    <3>8. x \in Seq(E) /\ y \in Seq(E)
      BY <3>1, <3>2
    <3> HIDE DEF x, y
    <3>9. FlattenSeq(r) = FlattenSeq(u) \o x /\ FlattenSeq(q) = FlattenSeq(v) \o y
      BY <3>3, <3>4, <3>8, FlattenAppend
    <3>10. FlattenSeq(u) \in Seq(E) /\ FlattenSeq(v) \in Seq(E)
      BY FlattenPlaces
    <3>11. BothSeqs(E, FlattenSeq(u), x) /\ BothSeqs(E, FlattenSeq(v), y)
      BY <3>8, <3>10 DEF BothSeqs
    <3>12. Without(FlattenSeq(u) \o x, m) = Without(FlattenSeq(u), m) \o Without(x, m)
      BY <3>11, WithoutConcat
    <3>13. Without(FlattenSeq(v) \o y, m) = Without(FlattenSeq(v), m) \o Without(y, m)
      BY <3>11, WithoutConcat
    <3> QED BY <3>5, <3>7, <3>9, <3>12, <3>13
  <2> HIDE DEF Same
  <2> QED BY <2>1
<1> HIDE DEF S
<1>3. Nat \subseteq S
  BY <1>1, <1>2, InductionOverPositions
<1> QED
  BY <1>3, LenProperties DEF S

\* An entry of mask m in the middle does not count.
LEMMA WithoutMiddle ==
  ASSUME NEW E, NEW u \in Seq(E), NEW v \in Seq(E), NEW x \in E, NEW m, x.mask = m
  PROVE  Without((u \o <<x>>) \o v, m) = Without(u \o v, m)
<1>1. <<x>> \in Seq(E) /\ <<x>> = Append(<<>>, x) /\ <<>> \in Seq(E)
  BY EmptySeq
<1>2. u \o <<x>> \in Seq(E) /\ Without(u, m) \in Seq(E)
  BY <1>1, ConcatProperties, WithoutIsFlat
<1>3. Without(Append(<<>>, x), m) = Without(<<>>, m) \o Kept(x, m)
  BY <1>1, WithoutAppend
<1>4. Without(<<>>, m) = <<>> /\ Kept(x, m) = <<>> /\ <<>> \o <<>> = <<>>
  BY <1>1, WithoutEmpty, ConcatEmptySeq DEF Kept
<1>5. Without(<<x>>, m) = <<>>
  BY <1>1, <1>3, <1>4
<1>10. BothSeqs(E, u, <<x>>) /\ BothSeqs(E, u \o <<x>>, v) /\ BothSeqs(E, u, v)
  BY <1>1, <1>2 DEF BothSeqs
<1>6. Without(u \o <<x>>, m) = Without(u, m) \o Without(<<x>>, m)
  BY <1>10, WithoutConcat
<1>7. Without(u \o <<x>>, m) = Without(u, m)
  <2>1. Without(u, m) \o <<>> = Without(u, m)
    BY <1>2, ConcatEmptySeq
  <2> QED BY <1>5, <1>6, <2>1
<1>8. Without((u \o <<x>>) \o v, m) = Without(u \o <<x>>, m) \o Without(v, m)
  <2> DEFINE w == u \o <<x>>
  <2>1. BothSeqs(E, w, v)
    BY <1>10
  <2> HIDE DEF w
  <2>2. Without(w \o v, m) = Without(w, m) \o Without(v, m)
    BY <2>1, WithoutConcat
  <2> QED BY <2>2 DEF w
<1>9. Without(u \o v, m) = Without(u, m) \o Without(v, m)
  BY <1>10, WithoutConcat
<1> QED BY <1>7, <1>8, <1>9

\* A sequence cut before and behind its i-th element.
LEMMA CutAt ==
  ASSUME NEW E, NEW s \in Seq(E), NEW i \in 1..Len(s)
  PROVE  /\ SubSeq(s, 1, i - 1) \in Seq(E) /\ SubSeq(s, i + 1, Len(s)) \in Seq(E)
         /\ s = (SubSeq(s, 1, i - 1) \o <<s[i]>>) \o SubSeq(s, i + 1, Len(s))
<1>1. Len(s) \in Nat /\ \A j \in 1..Len(s) : s[j] \in E
  BY LenProperties, ElementOfSeq
<1>2. SubSeq(s, 1, i - 1) \in Seq(E) /\ SubSeq(s, i + 1, Len(s)) \in Seq(E)
  BY <1>1, SubSeqProperties
<1>3. SubSeq(s, 1, i) = SubSeq(s, 1, i - 1) \o <<s[i]>>
  BY <1>1, SubSeqRecursiveSecond
<1>4. SubSeq(s, 1, i) \o SubSeq(s, i + 1, Len(s)) = SubSeq(s, 1, Len(s))
  BY <1>1, ConcatAdjacentSubSeq
<1>5. SubSeq(s, 1, Len(s)) = s
  BY SubSeqFull
<1> QED BY <1>2, <1>3, <1>4, <1>5

\* Adding and deleting change nothing of the entries of other masks.
LEMMA AddKeepsOthers ==
  ASSUME NEW s \in Seq(Entry), NEW e \in Entry
  PROVE  Without(AddEntry(s, e), e.mask) = Without(s, e.mask)
<1>0. Len(s) \in Nat /\ \A j \in 1..Len(s) : s[j] \in Entry
  BY LenProperties, ElementOfSeq
<1>1. CASE HasMask(s, e.mask)
  <2> DEFINE q == PosOf(s, e.mask)
             u == SubSeq(s, 1, q - 1)
             v == SubSeq(s, q + 1, Len(s))
             t == [s EXCEPT ![q] = e]
  <2>1. q \in 1..Len(s) /\ s[q].mask = e.mask
    BY <1>1, PosOfHasMask
  <2> HIDE DEF q
  <2>2. u \in Seq(Entry) /\ v \in Seq(Entry) /\ s = (u \o <<s[q]>>) \o v
    BY <2>1, CutAt
  <2>3. t \in Seq(Entry) /\ Len(t) = Len(s) /\ \A j \in 1..Len(s) : t[j] = IF j = q THEN e ELSE s[j]
    BY <2>1, ExceptSeq
  <2>4. t = (SubSeq(t, 1, q - 1) \o <<t[q]>>) \o SubSeq(t, q + 1, Len(t))
    BY <2>1, <2>3, CutAt
  <2>5. SubSeq(t, 1, q - 1) = u /\ SubSeq(t, q + 1, Len(t)) = v /\ t[q] = e
    <3> DEFINE x == SubSeq(t, 1, q - 1)
               y == SubSeq(t, q + 1, Len(s))
    <3>1. q - 1 \in Int /\ q + 1 \in Int /\ \A j \in 1..(q - 1) : t[j] \in Entry /\ s[j] \in Entry /\ t[j] = s[j]
      BY <1>0, <2>1, <2>3
    <3>2. \A j \in (q + 1)..Len(s) : t[j] \in Entry /\ s[j] \in Entry /\ t[j] = s[j]
      BY <1>0, <2>1, <2>3
    <3> HIDE DEF t
    <3>3. /\ x \in Seq(Entry) /\ Len(x) = IF 1 <= q - 1 THEN (q - 1) - 1 + 1 ELSE 0
          /\ \A i \in 1..((q - 1) - 1 + 1) : x[i] = t[1 + i - 1]
      BY <3>1, SubSeqProperties
    <3>4. /\ u \in Seq(Entry) /\ Len(u) = IF 1 <= q - 1 THEN (q - 1) - 1 + 1 ELSE 0
          /\ \A i \in 1..((q - 1) - 1 + 1) : u[i] = s[1 + i - 1]
      BY <3>1, SubSeqProperties
    <3>5. /\ y \in Seq(Entry) /\ Len(y) = IF q + 1 <= Len(s) THEN Len(s) - (q + 1) + 1 ELSE 0
          /\ \A i \in 1..(Len(s) - (q + 1) + 1) : y[i] = t[(q + 1) + i - 1]
      BY <1>0, <3>1, <3>2, SubSeqProperties
    <3>6. /\ v \in Seq(Entry) /\ Len(v) = IF q + 1 <= Len(s) THEN Len(s) - (q + 1) + 1 ELSE 0
          /\ \A i \in 1..(Len(s) - (q + 1) + 1) : v[i] = s[(q + 1) + i - 1]
      BY <1>0, <3>1, <3>2, SubSeqProperties
    <3> HIDE DEF x, y, u, v
    <3>7. \A i \in 1..Len(x) : x[i] = u[i]
      BY <2>1, <3>1, <3>3, <3>4
    <3>8. \A i \in 1..Len(y) : y[i] = v[i]
      BY <1>0, <2>1, <3>2, <3>5, <3>6
    <3>9. x = u
      BY <3>3, <3>4, <3>7, SeqEqual
    <3>10. y = v
      BY <3>5, <3>6, <3>8, SeqEqual
    <3> QED BY <2>1, <2>3, <3>9, <3>10 DEF x, y
  <2>6. AddEntry(s, e) = t
    BY <1>1 DEF AddEntry, ReplaceAt, q, t
  <2>7. s[q] \in Entry
    BY <1>0, <2>1
  <2> HIDE DEF t, u, v
  <2>8. Without((u \o <<s[q]>>) \o v, e.mask) = Without(u \o v, e.mask)
    BY <2>1, <2>2, <2>7, WithoutMiddle
  <2>9. Without((u \o <<e>>) \o v, e.mask) = Without(u \o v, e.mask)
    BY <2>2, WithoutMiddle
  <2>10. Without(s, e.mask) = Without(u \o v, e.mask)
    BY <2>2, <2>8
  <2>11. Without(t, e.mask) = Without(u \o v, e.mask)
    BY <2>4, <2>5, <2>9
  <2> QED BY <2>6, <2>10, <2>11
<1>2. CASE ~ HasMask(s, e.mask)
  <2> DEFINE I == {i \in 1..Len(s) : e.mask > s[i].mask}
             p == SelectInSeq(s, LAMBDA x : e.mask > x.mask)
             u == SubSeq(s, 1, p)
             v == SubSeq(s, p + 1, Len(s))
  <2>1. p = IF I # {} THEN Min(I) ELSE 0
    BY DEF SelectInSeq
  <2>2. I # {} => Min(I) \in I
    <3>1. I \subseteq Nat
      BY <1>0
    <3> HIDE DEF I
    <3> QED BY <3>1, LeastPosition
  <2>3. p \in 0..Len(s)
    <3> HIDE DEF p
    <3> QED BY <1>0, <2>1, <2>2
  <2>4. AddEntry(s, e) = SubSeq(s, 1, (p + 1) - 1) \o <<e>> \o SubSeq(s, p + 1, Len(s))
    BY <1>2 DEF AddEntry, InsertEntry, InsertAt
  <2> HIDE DEF p
  <2>5. (p + 1) - 1 = p
    BY <2>3
  <2>6. u \in Seq(Entry) /\ v \in Seq(Entry)
    BY <1>0, <2>3, SubSeqProperties
  <2>7. u \o v = SubSeq(s, 1, Len(s))
    <3>1. 1 \in 1..(Len(s) + 1) /\ p \in (1 - 1)..Len(s) /\ Len(s) \in p..Len(s)
      BY <1>0, <2>3
    <3> QED BY <3>1, ConcatAdjacentSubSeq
  <2>8. SubSeq(s, 1, Len(s)) = s
    BY SubSeqFull
  <2>9. AddEntry(s, e) = (u \o <<e>>) \o v
    BY <2>4, <2>5
  <2> HIDE DEF u, v
  <2>10. Without((u \o <<e>>) \o v, e.mask) = Without(u \o v, e.mask)
    BY <2>6, WithoutMiddle
  <2> QED BY <2>7, <2>8, <2>9, <2>10
<1> QED BY <1>1, <1>2

\* The same of a delete.
LEMMA DelKeepsOthers ==
  ASSUME NEW s \in Seq(Entry), NEW m
  PROVE  Without(DelEntry(s, m), m) = Without(s, m)
<1>1. CASE HasMask(s, m)
  <2> DEFINE q == PosOf(s, m)
             u == SubSeq(s, 1, q - 1)
             v == SubSeq(s, q + 1, Len(s))
  <2>1. q \in 1..Len(s) /\ s[q].mask = m
    BY <1>1, PosOfHasMask
  <2>2. DelEntry(s, m) = u \o v
    BY <1>1 DEF DelEntry, RemoveAt
  <2> HIDE DEF q
  <2>3. u \in Seq(Entry) /\ v \in Seq(Entry) /\ s = (u \o <<s[q]>>) \o v
    BY <2>1, CutAt
  <2>4. s[q] \in Entry
    BY <2>1, ElementOfSeq
  <2> HIDE DEF u, v
  <2>5. Without((u \o <<s[q]>>) \o v, m) = Without(u \o v, m)
    BY <2>1, <2>3, <2>4, WithoutMiddle
  <2> QED BY <2>2, <2>3, <2>5
<1>2. CASE ~ HasMask(s, m)
  BY <1>2 DEF DelEntry
<1> QED BY <1>1, <1>2

(***************************************************************************)
(* What a lookup finds.                                                    *)
(***************************************************************************)

\* The nodes of an address.
LEMMA NodeOfAddr ==
  ASSUME NEW f \in Family, NEW x \in Addr(f), NEW i \in 1..MaxLevel(f)
  PROVE  /\ SubSeq(x, 1, i) \in Path
         /\ Len(SubSeq(x, 1, i)) = i
         /\ \A j \in 1..i : SubSeq(x, 1, i)[j] = x[j]
         /\ Front(SubSeq(x, 1, i)) = SubSeq(x, 1, i - 1)
         /\ SubSeq(x, 1, i) = Append(SubSeq(x, 1, i - 1), x[i])
<1> DEFINE p == SubSeq(x, 1, i)
           u == SubSeq(x, 1, i - 1)
           v == Append(u, x[i])
<1>1. i \in 0..MaxLevel(f) /\ i - 1 \in 0..MaxLevel(f) /\ i \in 1..MAX_LEVEL_IPV6 /\ i - 1 \in 0..i
  BY Levels, SizesAssumption
<1>2. p \in Seq(Byte) /\ Len(p) = i /\ \A j \in 1..i : p[j] = x[j]
  BY <1>1, FirstBytes
<1>3. u \in Seq(Byte) /\ Len(u) = i - 1 /\ \A j \in 1..(i - 1) : u[j] = x[j]
  BY <1>1, FirstBytes
<1>4. SubSeq(p, 1, i - 1) = u
  BY <1>1, FirstBytes
<1>5. x[i] \in Byte
  BY DEF Addr
<1> HIDE DEF p, u
<1>6. p \in Path
  <2>1. p \in [1..i -> Byte]
    BY <1>2, LenProperties
  <2> QED BY <1>1, <2>1 DEF Path
<1>7. Front(p) = u
  BY <1>2, <1>4 DEF Front
<1>8. /\ v \in Seq(Byte) /\ Len(v) = i /\ v[i] = x[i]
      /\ \A j \in 1..(i - 1) : v[j] = u[j]
  BY <1>1, <1>3, <1>5, AppendProperties
<1> HIDE DEF v
<1>9. \A j \in 1..i : p[j] = v[j]
  BY <1>1, <1>2, <1>3, <1>8
<1>10. p = v
  BY <1>2, <1>8, <1>9, SeqEqual
<1> QED BY <1>2, <1>6, <1>7, <1>10 DEF p, u, v

\* Found, of any lists and arrays; and the lists of all nodes of the address, linked or not.
FoundIn(c, A, f, a) ==
  FlattenSeq([i \in 1..MaxLevel(f) |->
    IF \A j \in 0..(i - 1) : SubSeq(a, 1, j) \in A THEN c[f][SubSeq(a, 1, i)] ELSE <<>>])
Rows(c, f, x) == [i \in 1..MaxLevel(f) |-> c[f][SubSeq(x, 1, i)]]

WellFormed(c, A) == Lists(c, A) /\ Closed(A)

\* The rows are lists of entries, one for each level.
LEMMA RowsAreLists ==
  ASSUME NEW c, NEW A, WellFormed(c, A), NEW f \in Family, NEW x \in Addr(f)
  PROVE  /\ Rows(c, f, x) \in Seq(Seq(Entry))
         /\ Len(Rows(c, f, x)) = MaxLevel(f)
         /\ \A i \in 1..MaxLevel(f) : Rows(c, f, x)[i] = c[f][SubSeq(x, 1, i)]
<1>1. MaxLevel(f) \in Nat
  BY Levels
<1>2. \A i \in 1..MaxLevel(f) : c[f][SubSeq(x, 1, i)] \in Seq(Entry)
  BY NodeOfAddr DEF WellFormed, Lists
<1> QED BY <1>1, <1>2 DEF Rows

\* An array that is not linked has no entries: a lookup finds all there is at the
\* nodes of its address.
LEMMA FoundIsRows ==
  ASSUME NEW c, NEW A, WellFormed(c, A), NEW f \in Family, NEW x \in Addr(f)
  PROVE  FoundIn(c, A, f, x) = FlattenSeq(Rows(c, f, x))
<1> DEFINE r == [i \in 1..MaxLevel(f) |->
                   IF \A j \in 0..(i - 1) : SubSeq(x, 1, j) \in A THEN c[f][SubSeq(x, 1, i)] ELSE <<>>]
<1>1. ASSUME NEW i \in 1..MaxLevel(f), ~ \A j \in 0..(i - 1) : SubSeq(x, 1, j) \in A
      PROVE  c[f][SubSeq(x, 1, i)] = <<>>
  <2> SUFFICES ASSUME c[f][SubSeq(x, 1, i)] # <<>> PROVE FALSE
    OBVIOUS
  <2>1. SubSeq(x, 1, i) \in Path /\ Front(SubSeq(x, 1, i)) = SubSeq(x, 1, i - 1)
    BY NodeOfAddr
  <2>2. SubSeq(x, 1, i - 1) \in A
    BY <2>1 DEF WellFormed, Lists
  <2>3. i - 1 \in 0..MaxLevel(f)
    BY Levels
  <2>4. /\ Len(SubSeq(x, 1, i - 1)) = i - 1
        /\ \A j \in 0..(i - 1) : SubSeq(SubSeq(x, 1, i - 1), 1, j) = SubSeq(x, 1, j)
    BY <2>3, FirstBytes
  <2>5. \A j \in 0..(i - 1) : SubSeq(x, 1, j) \in A
    BY <2>2, <2>4 DEF WellFormed, Closed
  <2> QED BY <1>1, <2>5
<1>2. \A i \in 1..MaxLevel(f) : r[i] = Rows(c, f, x)[i]
  BY <1>1 DEF Rows
<1>3. r = Rows(c, f, x)
  BY <1>2 DEF Rows
<1> QED BY <1>3 DEF FoundIn

\* Found in this state and in the next.
LEMMA FoundNow ==
  /\ \A f, x : Found(f, x) = FoundIn(cfg, arrays, f, x)
  /\ \A f, x : Found(f, x)' = FoundIn(cfg', arrays', f, x)
BY DEF Found, FoundIn

\* The inductive invariant, in terms of lists and arrays.
LEMMA GoodState == IInv => WellFormed(cfg, arrays)
BY ListsOfState DEF IInv, TypeOK, Structure, WellFormed, Closed, ArraysLinked

\* The same in the next state.
LEMMA GoodStateNext == IInv' => WellFormed(cfg', arrays')
BY DEF IInv, TypeOK, Structure, WellFormed, Closed, ArraysLinked, Lists, OneEntryPerMask, Unique,
         EntriesAtTheirLevel, EntriesReachable

(***************************************************************************)
(* Addresses as numbers.                                                   *)
(***************************************************************************)

\* g is the function Num recurs over: the first i bytes of a as a number.
Numbers(g, a, n) ==
  g = [i \in 0..n |-> IF i = 0 THEN 0 ELSE g[i - 1] * (MAX_INDEX + 1) + a[i]]

\* What g is, at each of its places.
LEMMA NumbersReads ==
  ASSUME NEW a, NEW n \in Nat, NEW g, Numbers(g, a, n), NEW i \in 0..n
  PROVE  g[i] = IF i = 0 THEN 0 ELSE g[i - 1] * (MAX_INDEX + 1) + a[i]
BY Zenon DEF Numbers

\* Its first value.
LEMMA NumbersStart ==
  ASSUME NEW a, NEW n \in Nat, NEW g, Numbers(g, a, n)
  PROVE  g[0] = 0
<1>1. 0 \in 0..n
  OBVIOUS
<1> QED BY <1>1, NumbersReads

\* There is such a function, for every number of bytes.
LEMMA NumbersExists ==
  ASSUME NEW a
  PROVE  \A n \in Nat : \E g : Numbers(g, a, n)
<1> DEFINE S == {n \in Nat : \E g : Numbers(g, a, n)}
           Step(v, i) == v * (MAX_INDEX + 1) + a[i]
<1>1. 0 \in S
  <2>1. [i \in 0..0 |-> 0] = [i \in 0..0 |-> IF i = 0 THEN 0 ELSE [j \in 0..0 |-> 0][i - 1] * (MAX_INDEX + 1) + a[i]]
    OBVIOUS
  <2>2. Numbers([i \in 0..0 |-> 0], a, 0)
    BY <2>1, Zenon DEF Numbers
  <2> QED BY <2>2
<1>2. ASSUME NEW n \in Nat, n \in S PROVE n + 1 \in S
  <2>1. PICK f : Numbers(f, a, n)
    BY <1>2
  <2> HIDE DEF Step
  <2> DEFINE g == [i \in 0..(n + 1) |-> IF i <= n THEN f[i] ELSE Step(f[i - 1], i)]
             k == [i \in 0..(n + 1) |-> IF i = 0 THEN 0 ELSE Step(g[i - 1], i)]
  <2>2. ASSUME NEW i \in 0..(n + 1) PROVE g[i] = k[i]
    <3>0. ASSUME i # 0, i <= n PROVE f[i] = Step(f[i - 1], i)
      <4>1. f[i] = IF i = 0 THEN 0 ELSE f[i - 1] * (MAX_INDEX + 1) + a[i]
        BY <2>1, <3>0, NumbersReads
      <4> QED BY <3>0, <4>1 DEF Step
    <3>1. CASE i = 0
      <4>1. f[0] = 0
        BY <2>1, NumbersReads
      <4> QED BY <3>1, <4>1
    <3>2. CASE i \in 1..n
      <4>1. g[i] = f[i] /\ g[i - 1] = f[i - 1] /\ i # 0 /\ i <= n /\ k[i] = Step(g[i - 1], i)
        BY <3>2
      <4> HIDE DEF g, k
      <4> QED BY <3>0, <4>1
    <3>3. CASE i = n + 1
      <4>1. g[i - 1] = f[i - 1] /\ g[i] = Step(f[i - 1], i) /\ k[i] = Step(g[i - 1], i)
        BY <3>3
      <4> HIDE DEF g, k
      <4> QED BY <4>1
    <3> QED BY <3>1, <3>2, <3>3
  <2>3. g = [i \in 0..(n + 1) |-> g[i]] /\ k = [i \in 0..(n + 1) |-> k[i]]
    OBVIOUS
  <2>4. g = k
    <3> HIDE DEF g, k
    <3> QED BY <2>2, <2>3
  <2>5. Numbers(g, a, n + 1)
    <3> HIDE DEF g
    <3> QED BY <2>4, Zenon DEF Numbers, Step
  <2> HIDE DEF g
  <2> QED BY <2>5
<1> HIDE DEF S
<1>3. Nat \subseteq S
  BY <1>1, <1>2, InductionOverPositions
<1> QED BY <1>3 DEF S

\* Bytes that agree make the same numbers.
LEMMA NumbersAgree ==
  ASSUME NEW a, NEW b, NEW n \in Nat, NEW f, NEW g,
         Numbers(f, a, n), Numbers(g, b, n + 1), SameRows(a, b, n)
  PROVE  SameRows(f, g, n) /\ f[0] = 0 /\ g[0] = 0
<1> DEFINE S == {i \in Nat : i \in 0..n => f[i] = g[i]}
<1>0. f[0] = 0 /\ g[0] = 0
  BY NumbersStart
<1>1. 0 \in S
  BY <1>0
<1>2. ASSUME NEW i \in Nat, i \in S PROVE i + 1 \in S
  <2> SUFFICES ASSUME i + 1 \in 0..n PROVE f[i + 1] = g[i + 1]
    OBVIOUS
  <2>1. i + 1 \in 0..n /\ i + 1 \in 1..n /\ i + 1 \in 0..(n + 1) /\ (i + 1) - 1 = i /\ i + 1 # 0 /\ i \in 0..n
    OBVIOUS
  <2>2. f[i + 1] = IF i + 1 = 0 THEN 0 ELSE f[(i + 1) - 1] * (MAX_INDEX + 1) + a[i + 1]
    BY <2>1, NumbersReads
  <2>3. g[i + 1] = IF i + 1 = 0 THEN 0 ELSE g[(i + 1) - 1] * (MAX_INDEX + 1) + b[i + 1]
    BY <2>1, NumbersReads
  <2>4. a[i + 1] = b[i + 1] /\ f[(i + 1) - 1] = g[(i + 1) - 1]
    BY <1>2, <2>1 DEF SameRows
  <2> QED BY <2>1, <2>2, <2>3, <2>4
<1> HIDE DEF S
<1>3. Nat \subseteq S
  BY <1>1, <1>2, InductionOverPositions
<1> QED BY <1>0, <1>3 DEF S, SameRows

\* Num is the last value of such a function.
LEMMA NumIsNumbers ==
  ASSUME NEW a, Len(a) \in Nat
  PROVE  \E g : Numbers(g, a, Len(a)) /\ Num(a) = g[Len(a)]
<1>1. \E g : Numbers(g, a, Len(a))
  BY NumbersExists
<1> DEFINE f == CHOOSE g : g = [i \in 0..Len(a) |-> IF i = 0 THEN 0 ELSE g[i - 1] * (MAX_INDEX + 1) + a[i]]
<1>2. Numbers(f, a, Len(a))
  BY <1>1, Zenon DEF Numbers
<1>3. Num(a) = f[Len(a)]
  BY DEF Num
<1> QED BY <1>2, <1>3

\* The number of no bytes.
LEMMA NumEmpty == Num(<<>>) = 0
<1>1. Len(<<>>) = 0 /\ 0 \in Nat
  BY EmptySeq
<1>2. PICK g : Numbers(g, <<>>, 0) /\ Num(<<>>) = g[0]
  BY <1>1, NumIsNumbers
<1> QED BY <1>2, NumbersReads

\* One byte more.
LEMMA NumAppend ==
  ASSUME NEW p \in Seq(Byte), NEW b \in Byte
  PROVE  Num(Append(p, b)) = Num(p) * (MAX_INDEX + 1) + b
<1> DEFINE q == Append(p, b)
           n == Len(p)
<1>1. n \in Nat /\ Len(q) = n + 1 /\ q[n + 1] = b /\ \A i \in 1..n : q[i] = p[i]
  BY AppendProperties, LenProperties
<1> HIDE DEF q
<1>2. PICK f : Numbers(f, p, n) /\ Num(p) = f[n]
  BY <1>1, NumIsNumbers
<1>3. PICK g : Numbers(g, q, Len(q)) /\ Num(q) = g[Len(q)]
  BY <1>1, NumIsNumbers
<1>4. Numbers(g, q, n + 1) /\ Num(q) = g[n + 1]
  BY <1>1, <1>3
<1> HIDE DEF n
<1>5. SameRows(p, q, n)
  BY <1>1 DEF SameRows
<1>6. SameRows(f, g, n) /\ f[0] = 0 /\ g[0] = 0
  BY <1>1, <1>2, <1>4, <1>5, NumbersAgree
<1>7. f[n] = g[n]
  <2>1. n = 0 \/ n \in 1..n
    BY <1>1
  <2> QED BY <1>6, <2>1 DEF SameRows
<1>8. g[n + 1] = IF n + 1 = 0 THEN 0 ELSE g[(n + 1) - 1] * (MAX_INDEX + 1) + q[n + 1]
  BY <1>1, <1>4, NumbersReads
<1>9. n + 1 # 0 /\ (n + 1) - 1 = n
  BY <1>1
<1> QED BY <1>1, <1>2, <1>4, <1>7, <1>8, <1>9 DEF q

Base == MAX_INDEX + 1

\* The first i bytes of x as a number.
High(x, i) == Num(SubSeq(x, 1, i))

\* The base is a power of two that fits an address.
LEMMA BaseIsPower ==
  /\ Base \in Nat \ {0} /\ Base = 2^STRIDE
  /\ MAX_INDEX \in Nat
  /\ 0..STRIDE \subseteq 0..(STRIDE * MAX_LEVEL_IPV6) /\ STRIDE \in 0..STRIDE /\ 0 \in 0..STRIDE
<1>1. STRIDE \in Nat \ {0} /\ MAX_LEVEL_IPV6 \in Nat \ {0}
  BY SizesAssumption
<1>2. 0..STRIDE \subseteq 0..(STRIDE * MAX_LEVEL_IPV6) /\ STRIDE \in 0..STRIDE /\ 0 \in 0..STRIDE
  <2>1. STRIDE * MAX_LEVEL_IPV6 = STRIDE + STRIDE * (MAX_LEVEL_IPV6 - 1)
    BY <1>1
  <2>2. STRIDE * (MAX_LEVEL_IPV6 - 1) \in Nat
    BY <1>1
  <2> QED BY <1>1, <2>1, <2>2
<1>3. 2^STRIDE \in Nat \ {0}
  BY <1>2, PowerLawAssumption
<1>4. MAX_INDEX = 2^STRIDE - 1
  BY SizesAssumption
<1> QED BY <1>2, <1>3, <1>4 DEF Base

\* The first bytes make a number byte by byte.
LEMMA HighStep ==
  ASSUME NEW f \in Family, NEW x \in Addr(f)
  PROVE  /\ High(x, 0) = 0
         /\ \A i \in 1..MaxLevel(f) : High(x, i) = High(x, i - 1) * Base + x[i]
         /\ \A i \in 1..MaxLevel(f) : x[i] \in 0..(Base - 1)
         /\ Num(x) = High(x, MaxLevel(f))
<1>1. MaxLevel(f) \in Nat \ {0}
  BY Levels
<1>2. x \in Seq(Byte) /\ Len(x) = MaxLevel(f)
  BY <1>1 DEF Addr
<1>3. High(x, 0) = 0
  <2>1. SubSeq(x, 1, 0) = <<>>
    BY SubSeqEmpty
  <2> QED BY <2>1, NumEmpty DEF High
<1>4. ASSUME NEW i \in 1..MaxLevel(f) PROVE High(x, i) = High(x, i - 1) * Base + x[i]
  <2>1. SubSeq(x, 1, i) = Append(SubSeq(x, 1, i - 1), x[i])
    BY NodeOfAddr
  <2>2. i - 1 \in 0..MaxLevel(f)
    BY <1>1
  <2>3. SubSeq(x, 1, i - 1) \in Seq(Byte) /\ x[i] \in Byte
    BY <2>2, FirstBytes DEF Addr
  <2> QED BY <2>1, <2>3, NumAppend DEF High, Base
<1>5. SubSeq(x, 1, MaxLevel(f)) = x
  BY <1>2, SubSeqFull
<1>6. \A i \in 1..MaxLevel(f) : x[i] \in 0..(Base - 1)
  BY BaseIsPower DEF Addr, Byte, Base
<1> QED BY <1>3, <1>4, <1>5, <1>6 DEF High

\* And it is a number.
LEMMA HighIsNat ==
  ASSUME NEW f \in Family, NEW x \in Addr(f)
  PROVE  \A i \in 0..MaxLevel(f) : High(x, i) \in Nat
<1> DEFINE S == {i \in Nat : i \in 0..MaxLevel(f) => High(x, i) \in Nat}
<1>1. 0 \in S
  BY HighStep
<1>2. ASSUME NEW n \in Nat, n \in S PROVE n + 1 \in S
  <2> SUFFICES ASSUME n + 1 \in 0..MaxLevel(f) PROVE High(x, n + 1) \in Nat
    OBVIOUS
  <2>1. n + 1 \in 1..MaxLevel(f) /\ n \in 0..MaxLevel(f) /\ (n + 1) - 1 = n
    BY Levels
  <2>2. High(x, n) \in Nat
    BY <1>2, <2>1
  <2>3. High(x, n + 1) = High(x, (n + 1) - 1) * Base + x[n + 1] /\ x[n + 1] \in 0..(Base - 1)
    BY <2>1, HighStep
  <2>4. High(x, n) * Base \in Nat
    BY <2>2, BaseIsPower
  <2> QED BY <2>1, <2>3, <2>4
<1> HIDE DEF S
<1>3. Nat \subseteq S
  BY <1>1, <1>2, InductionOverPositions
<1> QED BY <1>3 DEF S

\* Numbers of as many bytes are equal when the bytes are.
LEMMA HighEqual ==
  ASSUME NEW f \in Family, NEW x \in Addr(f), NEW y \in Addr(f)
  PROVE  \A i \in 0..MaxLevel(f) : High(x, i) = High(y, i) <=> SubSeq(x, 1, i) = SubSeq(y, 1, i)
<1> DEFINE S == {i \in Nat : i \in 0..MaxLevel(f) =>
                   (High(x, i) = High(y, i) => SubSeq(x, 1, i) = SubSeq(y, 1, i))}
<1>1. 0 \in S
  <2>1. SubSeq(x, 1, 0) = <<>> /\ SubSeq(y, 1, 0) = <<>>
    BY SubSeqEmpty
  <2> QED BY <2>1
<1>2. ASSUME NEW n \in Nat, n \in S PROVE n + 1 \in S
  <2> SUFFICES ASSUME n + 1 \in 0..MaxLevel(f), High(x, n + 1) = High(y, n + 1)
               PROVE  SubSeq(x, 1, n + 1) = SubSeq(y, 1, n + 1)
    OBVIOUS
  <2>1. n + 1 \in 1..MaxLevel(f) /\ n \in 0..MaxLevel(f) /\ (n + 1) - 1 = n
    BY Levels
  <2>2. High(x, n) \in Nat /\ High(y, n) \in Nat
    BY <2>1, HighIsNat
  <2>3. High(x, n + 1) = High(x, (n + 1) - 1) * Base + x[n + 1] /\ x[n + 1] \in 0..(Base - 1)
    BY <2>1, HighStep
  <2>4. High(y, n + 1) = High(y, (n + 1) - 1) * Base + y[n + 1] /\ y[n + 1] \in 0..(Base - 1)
    BY <2>1, HighStep
  <2>5. High(x, n) * Base + x[n + 1] = High(y, n) * Base + y[n + 1]
    BY <2>1, <2>3, <2>4
  <2>6. High(x, n) = High(y, n) /\ x[n + 1] = y[n + 1]
    <3> DEFINE h == High(x, n)
               g == High(y, n)
               b == x[n + 1]
               c == y[n + 1]
    <3>1. Base \in Nat \ {0} /\ h \in Nat /\ g \in Nat /\ b \in 0..(Base - 1) /\ c \in 0..(Base - 1)
      BY <2>2, <2>3, <2>4, BaseIsPower
    <3>2. h * Base + b = g * Base + c
      BY <2>5
    <3> HIDE DEF h, g, b, c
    <3>3. h = g /\ b = c
      BY <3>1, <3>2, DivUnique
    <3> QED BY <3>3 DEF h, g, b, c
  <2>7. SubSeq(x, 1, n) = SubSeq(y, 1, n)
    BY <1>2, <2>1, <2>6
  <2>8. SubSeq(x, 1, n + 1) = Append(SubSeq(x, 1, (n + 1) - 1), x[n + 1])
    BY <2>1, NodeOfAddr
  <2>9. SubSeq(y, 1, n + 1) = Append(SubSeq(y, 1, (n + 1) - 1), y[n + 1])
    BY <2>1, NodeOfAddr
  <2> QED BY <2>1, <2>6, <2>7, <2>8, <2>9
<1> HIDE DEF S
<1>3. Nat \subseteq S
  BY <1>1, <1>2, InductionOverPositions
<1>4. \A i \in 0..MaxLevel(f) : High(x, i) = High(y, i) => SubSeq(x, 1, i) = SubSeq(y, 1, i)
  BY <1>3 DEF S
<1>5. \A i \in 0..MaxLevel(f) : SubSeq(x, 1, i) = SubSeq(y, 1, i) => High(x, i) = High(y, i)
  BY DEF High
<1> QED BY <1>4, <1>5

\* What is left of an address before a bit of byte n is what is left of its first n bytes.
LEMMA HighShifted ==
  ASSUME NEW f \in Family, NEW x \in Addr(f), NEW n \in 1..MaxLevel(f), NEW e \in 0..STRIDE
  PROVE  Num(x) \div 2^(STRIDE * (MaxLevel(f) - n) + e) = High(x, n) \div 2^e
<1>0. MaxLevel(f) \in Nat /\ n \in Nat /\ STRIDE \in Nat /\ MAX_LEVEL_IPV6 \in Nat /\ MaxLevel(f) <= MAX_LEVEL_IPV6
  BY Levels, SizesAssumption
<1> DEFINE S == {j \in Nat : n + j <= MaxLevel(f) =>
                   High(x, n + j) \div 2^(STRIDE * j + e) = High(x, n) \div 2^e}
<1>1. 0 \in S
  <2>1. n + 0 = n /\ STRIDE * 0 + e = e
    BY <1>0
  <2> QED BY <2>1
<1>2. ASSUME NEW j \in Nat, j \in S PROVE j + 1 \in S
  <2> SUFFICES ASSUME n + (j + 1) <= MaxLevel(f)
               PROVE  High(x, n + (j + 1)) \div 2^(STRIDE * (j + 1) + e) = High(x, n) \div 2^e
    OBVIOUS
  <2> DEFINE u == STRIDE * j + e
             q == High(x, n + j)
             D == 2^u
             i == n + (j + 1)
  <2>1. n + j <= MaxLevel(f) /\ n + j \in 0..MaxLevel(f) /\ i \in 1..MaxLevel(f) /\ i - 1 = n + j
    BY <1>0
  <2>2. q \div D = High(x, n) \div 2^e
    BY <1>2, <2>1
  <2>3. q \in Nat
    BY <2>1, HighIsNat
  <2>4. High(x, i) = High(x, i - 1) * Base + x[i] /\ x[i] \in 0..(Base - 1)
    BY <2>1, HighStep
  <2>5. u \in 0..(STRIDE * MAX_LEVEL_IPV6) /\ STRIDE * (j + 1) + e = u + STRIDE
    <3>1. STRIDE * (j + 1) = STRIDE * j + STRIDE /\ STRIDE * j \in Nat
      BY <1>0
    <3>2. j + 1 <= MAX_LEVEL_IPV6
      BY <1>0
    <3>3. STRIDE * (j + 1) <= STRIDE * MAX_LEVEL_IPV6
      BY <1>0, <3>2
    <3>4. STRIDE * MAX_LEVEL_IPV6 \in Nat
      BY <1>0
    <3> QED BY <1>0, <3>1, <3>3, <3>4
  <2>6. D \in Nat \ {0} /\ 2^(u + STRIDE) = D * Base
    <3>1. STRIDE \in 0..(STRIDE * MAX_LEVEL_IPV6)
      BY BaseIsPower
    <3>2. Base = 2^STRIDE
      BY BaseIsPower
    <3>3. u \in 0..(STRIDE * MAX_LEVEL_IPV6)
      BY <2>5
    <3> HIDE DEF u
    <3>4. 2^u \in Nat \ {0} /\ 2^(u + STRIDE) = 2^u * 2^STRIDE
      BY <3>1, <3>3, PowerLawAssumption
    <3> QED BY <3>2, <3>4
  <2> HIDE DEF u, q, D, i
  <2>7. (q * Base + x[i]) \div (D * Base) = q \div D
    <3>1. Digits(q, Base, x[i]) /\ Scale(D)
      BY <2>3, <2>4, <2>6, BaseIsPower DEF Digits, Scale
    <3> QED BY <3>1, DivScaled
  <2>8. High(x, i) = q * Base + x[i]
    BY <2>1, <2>4 DEF q
  <2> QED BY <2>2, <2>5, <2>6, <2>7, <2>8 DEF i
<1> HIDE DEF S
<1>3. Nat \subseteq S
  BY <1>1, <1>2, InductionOverPositions
<1>4. MaxLevel(f) - n \in Nat /\ n + (MaxLevel(f) - n) = MaxLevel(f)
  BY <1>0
<1>5. MaxLevel(f) - n \in S
  BY <1>3, <1>4
<1>6. High(x, n + (MaxLevel(f) - n)) \div 2^(STRIDE * (MaxLevel(f) - n) + e) = High(x, n) \div 2^e
  BY <1>4, <1>5 DEF S
<1> QED BY <1>4, <1>6, HighStep

\* The bits of byte n behind the mask, and the sizes of the two parts of the byte.
Behind(n, m) == n * STRIDE - m

\* The powers of two the mask cuts a byte and an address at.
LEMMA PartsOfByte ==
  ASSUME NEW f \in Family, NEW n \in 1..MaxLevel(f), NEW m \in Mask(f), IsTerminal(n, m)
  PROVE  /\ Behind(n, m) \in 0..STRIDE
         /\ 2^Behind(n, m) \in Nat \ {0} /\ 2^(STRIDE - Behind(n, m)) \in Nat \ {0}
         /\ 2^Behind(n, m) * 2^(STRIDE - Behind(n, m)) = Base
         /\ Width[f] - m = STRIDE * (MaxLevel(f) - n) + Behind(n, m)
<1> DEFINE s == Behind(n, m)
<1>0. STRIDE \in Nat \ {0} /\ n \in Nat \ {0} /\ m \in Nat /\ MaxLevel(f) \in Nat /\ n * STRIDE \in Nat
  BY SizesAssumption, Levels DEF Mask
<1>1. s \in 0..STRIDE
  <2>1. (n - 1) * STRIDE = n * STRIDE - STRIDE
    BY <1>0
  <2>2. n = 1 => n * STRIDE = STRIDE
    BY <1>0
  <2> QED BY <1>0, <2>1, <2>2 DEF IsTerminal, Behind
<1>2. Width[f] - m = STRIDE * (MaxLevel(f) - n) + s
  <2>1. Width[f] = STRIDE * MaxLevel(f)
    BY DEF Width
  <2>2. STRIDE * (MaxLevel(f) - n) = STRIDE * MaxLevel(f) - n * STRIDE /\ STRIDE * MaxLevel(f) \in Nat
    BY <1>0
  <2> QED BY <1>0, <2>1, <2>2 DEF Behind
<1> HIDE DEF s
<1>3. s \in 0..(STRIDE * MAX_LEVEL_IPV6) /\ STRIDE - s \in 0..(STRIDE * MAX_LEVEL_IPV6) /\ s + (STRIDE - s) = STRIDE
  <2>1. s \in 0..STRIDE /\ STRIDE - s \in 0..STRIDE /\ s + (STRIDE - s) = STRIDE
    BY <1>0, <1>1
  <2> QED BY <2>1, BaseIsPower
<1>4. 2^s \in Nat \ {0} /\ 2^(STRIDE - s) \in Nat \ {0} /\ 2^(s + (STRIDE - s)) = 2^s * 2^(STRIDE - s)
  BY <1>3, PowerLawAssumption
<1>5. 2^s * 2^(STRIDE - s) = Base
  <2>1. 2^(s + (STRIDE - s)) = 2^STRIDE
    BY <1>3
  <2> QED BY <1>4, <2>1, BaseIsPower
<1>6. /\ s \in 0..STRIDE /\ 2^s \in Nat \ {0} /\ 2^(STRIDE - s) \in Nat \ {0}
      /\ 2^s * 2^(STRIDE - s) = Base /\ Width[f] - m = STRIDE * (MaxLevel(f) - n) + s
  BY <1>1, <1>2, <1>4, <1>5
<1> QED BY <1>6 DEF s

\* x and a share their first n - 1 bytes and the bits of byte n before the mask.
SharePrefix(x, a, n, m) ==
  /\ SubSeq(x, 1, n - 1) = SubSeq(a, 1, n - 1)
  /\ x[n] \div 2^Behind(n, m) = a[n] \div 2^Behind(n, m)

\* What it means for numbers to agree before the mask.
LEMMA CoveredDigits ==
  ASSUME NEW f \in Family, NEW x \in Addr(f), NEW a \in Addr(f),
         NEW n \in 1..MaxLevel(f), NEW m \in Mask(f), IsTerminal(n, m)
  PROVE  Num(x) \div 2^(Width[f] - m) = Num(a) \div 2^(Width[f] - m) <=> SharePrefix(x, a, n, m)
<1> DEFINE s == Behind(n, m)
           E == 2^s
           F == 2^(STRIDE - s)
           h == High(x, n - 1)
           g == High(a, n - 1)
<1>1. /\ s \in 0..STRIDE /\ E \in Nat \ {0} /\ F \in Nat \ {0} /\ E * F = Base
      /\ Width[f] - m = STRIDE * (MaxLevel(f) - n) + s
  BY PartsOfByte
<1>2. n - 1 \in 0..MaxLevel(f)
  BY Levels
<1>3. h \in Nat /\ g \in Nat
  BY <1>2, HighIsNat
<1>4. h = g <=> SubSeq(x, 1, n - 1) = SubSeq(a, 1, n - 1)
  BY <1>2, HighEqual
<1>5. High(x, n) = h * Base + x[n] /\ x[n] \in 0..(Base - 1)
  BY HighStep
<1>6. High(a, n) = g * Base + a[n] /\ a[n] \in 0..(Base - 1)
  BY HighStep
<1> HIDE DEF s
<1>7. Num(x) \div 2^(STRIDE * (MaxLevel(f) - n) + s) = High(x, n) \div 2^s
  BY <1>1, HighShifted
<1>8. Num(a) \div 2^(STRIDE * (MaxLevel(f) - n) + s) = High(a, n) \div 2^s
  BY <1>1, HighShifted
<1> HIDE DEF E, F, h, g
<1>9. Scale(E) /\ Scale(F) /\ Base = E * F /\ Digits(h, Base, x[n]) /\ Digits(g, Base, a[n])
  BY <1>1, <1>3, <1>5, <1>6, BaseIsPower DEF Digits, Scale
<1>11. (h * Base + x[n]) \div E = (g * Base + a[n]) \div E <=> h = g /\ x[n] \div E = a[n] \div E
  BY <1>9, AgreeBefore
<1>12. High(x, n) \div E = High(a, n) \div E <=> h = g /\ x[n] \div E = a[n] \div E
  BY <1>5, <1>6, <1>11
<1>13. Num(x) \div 2^(Width[f] - m) = High(x, n) \div E /\ Num(a) \div 2^(Width[f] - m) = High(a, n) \div E
  BY <1>1, <1>7, <1>8 DEF E
<1> QED BY <1>4, <1>12, <1>13 DEF SharePrefix, s, E

\* 2^0.
LEMMA PowerOfZero == 2^0 = 1
<1>1. 0 \in 0..(STRIDE * MAX_LEVEL_IPV6)
  BY BaseIsPower
<1> DEFINE z == 2^0
<1>2. z \in Nat \ {0} /\ 2^(0 + 0) = z * z
  BY <1>1, PowerLawAssumption
<1>3. 0 + 0 = 0
  OBVIOUS
<1>4. z = z * z
  BY <1>2, <1>3
<1> HIDE DEF z
<1>5. ASSUME 1 < z PROVE FALSE
  <2>1. 1 * z + z <= z * z
    BY <1>2, <1>5, LessTimes
  <2> QED BY <1>2, <1>4, <2>1
<1> QED BY <1>2, <1>5 DEF z

\* The digits n of a block of E values that begins at a multiple.
LEMMA InBlock ==
  ASSUME NEW E \in Nat \ {0}, NEW t \in Nat, NEW v \in Nat
  PROVE  v \in (E * t)..(E * t + (E - 1)) <=> v \div E = t
<1> DEFINE q == v \div E
           r == v % E
<1>1. q \in Nat /\ r \in 0..(E - 1) /\ v = E * q + r
  BY DivMod
<1> HIDE DEF q, r
<1>2. E * t \in Nat /\ E * q \in Nat
  BY <1>1
<1>3. ASSUME q = t PROVE v \in (E * t)..(E * t + (E - 1))
  BY <1>1, <1>2, <1>3
<1>4. ASSUME v \in (E * t)..(E * t + (E - 1)) PROVE q = t
  <2> DEFINE s == v - E * t
  <2>1. s \in 0..(E - 1) /\ v = E * t + s
    BY <1>2, <1>4
  <2> HIDE DEF s
  <2>2. E * t = t * E /\ E * q = q * E
    BY <1>1
  <2>3. t * E + s = q * E + r
    BY <1>1, <2>1, <2>2
  <2> QED BY <1>1, <2>1, <2>3, DivUnique
<1> QED BY <1>3, <1>4 DEF q

\* What recalculating leaves of an address at the mask's level and above it.
LEMMA RecalcDigits ==
  ASSUME NEW f \in Family, NEW a \in Addr(f), NEW n \in 1..MaxLevel(f), NEW m \in Mask(f), IsTerminal(n, m)
  PROVE  /\ \A i \in 1..(n - 1) : PrefixRecalc(a, m)[i] = a[i]
         /\ PrefixRecalc(a, m)[n] = 2^Behind(n, m) * (a[n] \div 2^Behind(n, m))
<1> DEFINE b == PrefixRecalc(a, m)
           s == Behind(n, m)
           E == 2^s
<1>0. STRIDE \in Nat \ {0} /\ n \in Nat \ {0} /\ m \in Nat /\ MaxLevel(f) \in Nat /\ n * STRIDE \in Nat
  BY SizesAssumption, Levels DEF Mask
<1>1. s \in 0..STRIDE /\ E \in Nat \ {0} /\ s = n * STRIDE - m
  BY PartsOfByte DEF Behind
<1>2. a[n] \in 0..(Base - 1) /\ Base \in Nat \ {0}
  BY HighStep, BaseIsPower
<1>3. ASSUME NEW i \in 1..MaxLevel(f)
      PROVE  b[i] = IF i * STRIDE <= m THEN a[i]
                    ELSE IF (i - 1) * STRIDE >= m THEN 0
                    ELSE a[i] - (a[i] % 2^(i * STRIDE - m))
  <2>1. i \in DOMAIN a
    BY DEF Addr
  <2> QED BY <2>1 DEF PrefixRecalc
<1> HIDE DEF b
<1>4. ASSUME NEW i \in 1..(n - 1) PROVE b[i] = a[i]
  <2>1. i \in 1..MaxLevel(f) /\ n # 1 /\ i <= n - 1 /\ i \in Nat /\ n - 1 \in Nat
    BY <1>0
  <2>2. (n - 1) * STRIDE < m
    BY <2>1 DEF IsTerminal
  <2>3. i * STRIDE <= (n - 1) * STRIDE
    <3>1. i < n - 1 => i * STRIDE + STRIDE <= (n - 1) * STRIDE
      BY <1>0, <2>1, LessTimes
    <3>2. i * STRIDE \in Nat /\ (n - 1) * STRIDE \in Nat
      BY <1>0, <2>1
    <3>3. i < n - 1 \/ i = n - 1
      BY <2>1
    <3> QED BY <1>0, <3>1, <3>2, <3>3
  <2>4. i * STRIDE <= m
    <3>1. i * STRIDE \in Nat /\ (n - 1) * STRIDE \in Nat
      BY <1>0, <2>1
    <3> QED BY <1>0, <2>2, <2>3, <3>1
  <2> QED BY <1>3, <2>1, <2>4
<1>5. b[n] = IF n * STRIDE <= m THEN a[n]
             ELSE IF (n - 1) * STRIDE >= m THEN 0
             ELSE a[n] - (a[n] % 2^(n * STRIDE - m))
  BY <1>3
<1>6. a[n] \in Nat
  BY <1>2
<1> DEFINE t == a[n] \div E
           r == a[n] % E
<1>7. t \in Nat /\ r \in 0..(E - 1) /\ a[n] = E * t + r
  BY <1>1, <1>6, DivMod
<1>8. CASE n * STRIDE <= m
  <2>1. s = 0
    BY <1>0, <1>1, <1>8
  <2>2. E = 1
    BY <2>1, PowerOfZero
  <2> HIDE DEF s, E
  <2>3. a[n] = E * t
    BY <1>7, <2>2
  <2> QED BY <1>4, <1>5, <1>8, <2>3 DEF b, E, s
<1>9. CASE ~ (n * STRIDE <= m) /\ (n - 1) * STRIDE >= m
  <2>1. n = 1
    <3>1. (n - 1) * STRIDE \in Nat
      BY <1>0
    <3> QED BY <1>0, <1>9, <3>1 DEF IsTerminal
  <2>2. m = 0 /\ s = STRIDE
    BY <1>0, <1>1, <1>9, <2>1
  <2>3. E = Base
    BY <2>2, BaseIsPower
  <2> HIDE DEF s, E
  <2>4. 0 * E + a[n] = a[n] /\ a[n] \in 0..(E - 1)
    BY <1>2, <2>3
  <2>5. (0 * E + a[n]) \div E = 0
    BY <1>1, <2>4, DivIs
  <2>6. E * (a[n] \div E) = 0
    BY <1>1, <2>4, <2>5
  <2> QED BY <1>4, <1>5, <1>9, <2>6 DEF b, E, s
<1>10. CASE ~ (n * STRIDE <= m) /\ ~ ((n - 1) * STRIDE >= m)
  <2>1. b[n] = a[n] - r
    BY <1>1, <1>5, <1>10
  <2> HIDE DEF t, r, s, E
  <2>2. E * t \in Nat
    BY <1>1, <1>7
  <2>3. a[n] - r = E * t
    BY <1>1, <1>7, <2>2
  <2> QED BY <1>4, <2>1, <2>3 DEF b, E, s, t
<1> QED BY <1>8, <1>9, <1>10

\* The nodes of a rule are those of the addresses that share its prefix.
LEMMA TargetDigits ==
  ASSUME NEW f \in Family, NEW x \in Addr(f), NEW a \in Addr(f),
         NEW n \in 1..MaxLevel(f), NEW m \in Mask(f), IsTerminal(n, m)
  PROVE  SubSeq(x, 1, n) \in Targets(n, PrefixRecalc(a, m), m) <=> SharePrefix(x, a, n, m)
<1> DEFINE b == PrefixRecalc(a, m)
           E == 2^Behind(n, m)
           t == a[n] \div E
           u == SubSeq(a, 1, n - 1)
           w == SubSeq(x, 1, n - 1)
<1>1. E \in Nat \ {0} /\ Extra(n, m) = E - 1
  BY PartsOfByte DEF Extra, Behind
<1>2. b \in Addr(f)
  BY RecalcIsAddr
<1>3. n - 1 \in 0..MaxLevel(f)
  BY Levels
<1>4. a[n] \in Nat /\ x[n] \in Nat /\ x[n] \in Byte /\ Byte \subseteq Nat
  BY HighStep, BaseIsPower DEF Base, Byte
<1>5. t \in Nat
  BY <1>1, <1>4, DivMod
<1>6. (\A i \in 1..(n - 1) : b[i] = a[i]) /\ b[n] = E * t
  BY RecalcDigits
<1>7. SubSeq(b, 1, n - 1) = u
  <2> DEFINE v == SubSeq(b, 1, n - 1)
  <2>1. v \in Seq(Byte) /\ Len(v) = n - 1 /\ \A j \in 1..(n - 1) : v[j] = b[j]
    BY <1>2, <1>3, FirstBytes
  <2>2. u \in Seq(Byte) /\ Len(u) = n - 1 /\ \A j \in 1..(n - 1) : u[j] = a[j]
    BY <1>3, FirstBytes
  <2> HIDE DEF v, u, b
  <2>3. \A j \in 1..Len(v) : v[j] = u[j]
    BY <1>6, <2>1, <2>2
  <2>4. v = u
    BY <2>1, <2>2, <2>3, SeqEqual
  <2> QED BY <2>4 DEF v
<1>8. Targets(n, b, m) = {Append(u, y) : y \in ((E * t)..(E * t + (E - 1))) \cap Byte}
  BY <1>1, <1>6, <1>7 DEF Targets
<1>9. SubSeq(x, 1, n) = Append(w, x[n])
  BY NodeOfAddr
<1>10. w \in Seq(Byte) /\ u \in Seq(Byte)
  BY <1>3, FirstBytes
<1> HIDE DEF b, w, u, E, t
<1>11. ASSUME NEW y \in Byte, Append(w, x[n]) = Append(u, y)
       PROVE  w = u /\ x[n] = y
  BY <1>4, <1>10, <1>11, AppendInjective
<1>12. x[n] \in (E * t)..(E * t + (E - 1)) <=> x[n] \div E = t
  BY <1>1, <1>4, <1>5, InBlock
<1>13. Append(w, x[n]) \in {Append(u, y) : y \in ((E * t)..(E * t + (E - 1))) \cap Byte}
         <=> w = u /\ x[n] \in (E * t)..(E * t + (E - 1))
  BY <1>4, <1>11
<1>14. SubSeq(x, 1, n) \in Targets(n, b, m) <=> w = u /\ x[n] \div E = t
  BY <1>8, <1>9, <1>12, <1>13
<1> QED BY <1>14 DEF SharePrefix, b, E, t, w, u

\* No mask ends in two levels.
LEMMA OneLevel ==
  ASSUME NEW n \in Nat \ {0}, NEW i \in Nat \ {0}, NEW m \in Nat, IsTerminal(n, m), IsTerminal(i, m)
  PROVE  n = i
<1>0. STRIDE \in Nat
  BY SizesAssumption
<1>1. ASSUME NEW j \in Nat \ {0}, NEW h \in Nat \ {0}, IsTerminal(j, m), IsTerminal(h, m), j < h
      PROVE  FALSE
  <2>1. h # 1 /\ h - 1 \in Nat /\ (j < h - 1 \/ j = h - 1)
    BY <1>1
  <2>2. (h - 1) * STRIDE < m /\ m <= j * STRIDE
    BY <1>1, <2>1 DEF IsTerminal
  <2>3. j < h - 1 => j * STRIDE + STRIDE <= (h - 1) * STRIDE
    BY <1>0, <2>1, LessTimes
  <2> DEFINE x == j * STRIDE
             y == (h - 1) * STRIDE
  <2>4. x \in Nat /\ y \in Nat /\ (j = h - 1 => x = y)
    BY <1>0, <2>1
  <2>5. y < m /\ m <= x /\ (j < h - 1 => x + STRIDE <= y)
    BY <2>2, <2>3
  <2> HIDE DEF x, y
  <2> QED BY <1>0, <2>1, <2>4, <2>5
<1> QED BY <1>1

\* An entry of a mask that ends in level n is at a node of level n.
LEMMA EntryLevel ==
  ASSUME NEW c, NEW A, WellFormed(c, A), NEW f \in Family, NEW p \in Path,
         NEW n \in 1..MaxLevel(f), NEW m \in Mask(f), IsTerminal(n, m),
         NEW j \in 1..Len(c[f][p]), c[f][p][j].mask = m
  PROVE  Len(p) = n
<1>1. /\ m <= Len(p) * STRIDE
      /\ Len(p) = 1 \/ (Len(p) - 1) * STRIDE < m
  BY DEF WellFormed, Lists
<1>2. PICK i \in 1..MAX_LEVEL_IPV6 : p \in [1..i -> Byte]
  BY DEF Path
<1>3. Len(p) = i /\ i \in Nat \ {0} /\ n \in Nat \ {0} /\ m \in Nat
  BY <1>2, SizesAssumption, Levels DEF Mask
<1>4. IsTerminal(i, m)
  BY <1>1, <1>3 DEF IsTerminal
<1> QED BY <1>3, <1>4, OneLevel

\* At most one entry of a mask is found.
LEMMA FoundOnce ==
  ASSUME NEW c, NEW A, WellFormed(c, A), NEW f \in Family, NEW x \in Addr(f),
         NEW n \in 1..MaxLevel(f), NEW m \in Mask(f), IsTerminal(n, m)
  PROVE  LET F == FlattenSeq(Rows(c, f, x))
             s == c[f][SubSeq(x, 1, n)]
         IN  /\ F \in Seq(Entry)
             /\ \A k \in 1..Len(F) : F[k].mask = m => Carries(s, F[k]) 
             /\ \A e : Carries(s, e) => Carries(F, e)
             /\ \A k, l \in 1..Len(F) : F[k].mask = m /\ F[l].mask = m => k = l
<1> DEFINE r == Rows(c, f, x)
           F == FlattenSeq(r)
           s == c[f][SubSeq(x, 1, n)]
<1>1. r \in Seq(Seq(Entry)) /\ Len(r) = MaxLevel(f) /\ \A i \in 1..MaxLevel(f) : r[i] = c[f][SubSeq(x, 1, i)]
  BY RowsAreLists
<1> HIDE DEF r
<1>2. F \in Seq(Entry) /\ HasPlaces(r, F) /\ PlacesOrdered(r, F)
  BY <1>1, FlattenPlaces
<1> HIDE DEF F
<1>3. ASSUME NEW e, NEW i, NEW j, ComesFrom(r, e, i, j), e.mask = m
      PROVE  i = n /\ j \in 1..Len(s) /\ e = s[j]
  <2>1. i \in 1..MaxLevel(f) /\ j \in 1..Len(r[i]) /\ e = r[i][j]
    BY <1>1, <1>3 DEF ComesFrom
  <2>2. SubSeq(x, 1, i) \in Path /\ Len(SubSeq(x, 1, i)) = i
    BY <2>1, NodeOfAddr
  <2>3. r[i] = c[f][SubSeq(x, 1, i)]
    BY <1>1, <2>1
  <2>4. i = n
    BY <1>3, <2>1, <2>2, <2>3, EntryLevel
  <2> QED BY <2>1, <2>3, <2>4
<1>4. ASSUME NEW k \in 1..Len(F), F[k].mask = m PROVE Carries(s, F[k])
  <2>1. PICK i, j : ComesFrom(r, F[k], i, j)
    BY <1>2 DEF PlacesOrdered
  <2> QED BY <1>3, <1>4, <2>1 DEF Carries
<1>5. ASSUME NEW e, Carries(s, e) PROVE Carries(F, e)
  <2>1. n \in 1..Len(r) /\ r[n] = s
    BY <1>1
  <2> HIDE DEF s
  <2>2. PICK j \in 1..Len(r[n]) : r[n][j] = e
    BY <1>5, <2>1 DEF Carries
  <2> QED BY <1>2, <2>1, <2>2 DEF HasPlaces, Carries
<1>6. ASSUME NEW k \in 1..Len(F), NEW l \in 1..Len(F), F[k].mask = m, F[l].mask = m, k < l
      PROVE  FALSE
  <2>1. PICK i, j, h, g : ComesFrom(r, F[k], i, j) /\ ComesFrom(r, F[l], h, g) /\ RowOrder(i, j, h, g)
    BY <1>2, <1>6 DEF PlacesOrdered
  <2>2. i = n /\ j \in 1..Len(s) /\ F[k] = s[j]
    BY <1>3, <1>6, <2>1
  <2>3. h = n /\ g \in 1..Len(s) /\ F[l] = s[g]
    BY <1>3, <1>6, <2>1
  <2>4. j < g
    BY <2>1, <2>2, <2>3 DEF RowOrder
  <2>5. Unique(s)
    BY NodeOfAddr DEF WellFormed, Lists
  <2>6. j = g
    BY <1>6, <2>2, <2>3, <2>5 DEF Unique
  <2>7. Len(s) \in Nat
    BY NodeOfAddr, LenProperties DEF WellFormed, Lists
  <2> QED BY <2>2, <2>4, <2>6, <2>7
<1>7. \A k, l \in 1..Len(F) : F[k].mask = m /\ F[l].mask = m => k = l
  <2>1. Len(F) \in Nat
    BY <1>2, LenProperties
  <2> QED BY <1>6, <2>1
<1> QED BY <1>2, <1>4, <1>5, <1>7 DEF F, r

(***************************************************************************)
(* What a set call, cut short or not, does to the lists.                   *)
(***************************************************************************)

\* The call changed only entries of k's mask, at some of k's nodes.
Touches(k, n, D) ==
  /\ IsTerminal(n, k.mask)
  /\ D \subseteq Targets(n, PrefixRecalc(k.addr, k.mask), k.mask)
  /\ \A f \in Family, p \in Path : f # k.fam \/ p \notin D => cfg'[f][p] = cfg[f][p]
  /\ \A p \in D : Without(cfg'[k.fam][p], k.mask) = Without(cfg[k.fam][p], k.mask)

\* An add touches the nodes of its rule.
LEMMA AddTouches ==
  ASSUME IInv, NEW call, NEW k \in Rules, NEW r \in Results, Add(call, k, r)
  PROVE  \E n \in 1..MaxLevel(k.fam) : \E D : Touches(k, n, D)
<1> DEFINE f == k.fam
           m == k.mask
           a == PrefixRecalc(k.addr, m)
           e == [mask |-> m, res |-> r]
<1>1. f \in Family /\ a \in Addr(f) /\ e \in Entry /\ e.mask = m
  BY RuleFacts DEF Entry
<1>2. PICK n \in 1..MaxLevel(f) :
        /\ IsTerminal(n, m)
        /\ cfg' = [cfg EXCEPT ![f] = [p \in Path |->
                     IF p \in Targets(n, a, m) THEN AddEntry(cfg[f][p], e) ELSE cfg[f][p]]]
  BY DEF Add
<1> DEFINE D == Targets(n, a, m)
<1>3. cfg \in [Family -> [Path -> Seq(Entry)]]
  BY DEF IInv, TypeOK
<1>4. D \subseteq Path
  BY <1>1, TargetsAreNodes
<1> HIDE DEF e, a
<1>5. \A h \in Family, p \in Path : h # f \/ p \notin D => cfg'[h][p] = cfg[h][p]
  BY <1>1, <1>2, <1>3
<1>6. \A p \in D : cfg'[f][p] = AddEntry(cfg[f][p], e) /\ cfg[f][p] \in Seq(Entry)
  BY <1>1, <1>2, <1>3, <1>4
<1>7. \A p \in D : Without(cfg'[f][p], m) = Without(cfg[f][p], m)
  BY <1>1, <1>6, AddKeepsOthers
<1>8. Touches(k, n, D)
  BY <1>2, <1>5, <1>7 DEF Touches, a
<1> QED BY <1>8

\* A delete does.
LEMMA DelTouches ==
  ASSUME IInv, NEW k \in Rules, Del(k)
  PROVE  \E n \in 1..MaxLevel(k.fam) : \E D : Touches(k, n, D)
<1> DEFINE f == k.fam
           m == k.mask
           a == PrefixRecalc(k.addr, m)
<1>1. f \in Family /\ a \in Addr(f)
  BY RuleFacts
<1>2. PICK n \in 1..MaxLevel(f) :
        /\ IsTerminal(n, m)
        /\ cfg' = [cfg EXCEPT ![f] = [p \in Path |->
                     IF p \in Targets(n, a, m) THEN DelEntry(cfg[f][p], m) ELSE cfg[f][p]]]
  BY DEF Del
<1> DEFINE D == Targets(n, a, m)
<1>3. cfg \in [Family -> [Path -> Seq(Entry)]]
  BY DEF IInv, TypeOK
<1>4. D \subseteq Path
  BY <1>1, TargetsAreNodes
<1> HIDE DEF a
<1>5. \A h \in Family, p \in Path : h # f \/ p \notin D => cfg'[h][p] = cfg[h][p]
  BY <1>1, <1>2, <1>3
<1>6. \A p \in D : cfg'[f][p] = DelEntry(cfg[f][p], m) /\ cfg[f][p] \in Seq(Entry)
  BY <1>1, <1>2, <1>3, <1>4
<1>7. \A p \in D : Without(cfg'[f][p], m) = Without(cfg[f][p], m)
  BY <1>6, DelKeepsOthers
<1>8. Touches(k, n, D)
  BY <1>2, <1>5, <1>7 DEF Touches, a
<1> QED BY <1>8

\* A call cut short touches some of them.
LEMMA CutShortTouches ==
  ASSUME IInv, NEW call, NEW op, NEW k \in Rules, NEW r,
         NEW n \in 1..MaxLevel(k.fam), IsTerminal(n, k.mask),
         NEW D \in SUBSET Targets(n, PrefixRecalc(k.addr, k.mask), k.mask),
         D = {} \/ r \in Results,
         CutShort(call, op, k, r, n, PrefixRecalc(k.addr, k.mask), D)
  PROVE  \E C : Touches(k, n, C)
<1> DEFINE f == k.fam
           m == k.mask
           a == PrefixRecalc(k.addr, m)
           e == [mask |-> m, res |-> r]
<1>1. f \in Family /\ a \in Addr(f) /\ (D = {} \/ e \in Entry) /\ e.mask = m
  BY RuleFacts DEF Entry
<1>2. \/ cfg' = cfg
      \/ cfg' = [cfg EXCEPT ![f] = [p \in Path |->
                   IF p \in D THEN AddEntry(cfg[f][p], e) ELSE cfg[f][p]]]
  BY DEF CutShort
<1>3. cfg \in [Family -> [Path -> Seq(Entry)]]
  BY DEF IInv, TypeOK
<1>4. D \subseteq Path
  BY <1>1, TargetsAreNodes
<1> HIDE DEF e, a
<1>5. CASE cfg' = cfg
  BY <1>5 DEF Touches
<1>6. CASE cfg' = [cfg EXCEPT ![f] = [p \in Path |->
                     IF p \in D THEN AddEntry(cfg[f][p], e) ELSE cfg[f][p]]]
  <2>1. \A h \in Family, p \in Path : h # f \/ p \notin D => cfg'[h][p] = cfg[h][p]
    BY <1>1, <1>3, <1>6
  <2>2. \A p \in D : cfg'[f][p] = AddEntry(cfg[f][p], e) /\ cfg[f][p] \in Seq(Entry)
    BY <1>1, <1>3, <1>4, <1>6
  <2>3. \A p \in D : Without(cfg'[f][p], m) = Without(cfg[f][p], m)
    BY <1>1, <2>2, AddKeepsOthers
  <2>4. Touches(k, n, D)
    BY <2>1, <2>3 DEF Touches, a
  <2> QED BY <2>4
<1> QED BY <1>2, <1>5, <1>6

\* Every step that returns from a set call.
LEMMA SetStepTouches ==
  ASSUME IInv, Next, resp'.call \in Calls, NEW k \in Rules, k = resp'.rule
  PROVE  /\ \E n \in 1..MaxLevel(k.fam) : \E D : Touches(k, n, D)
         /\ resp'.op = "OP_ADD" => resp'.res \in Results
<1>0. Calls \subseteq {"set_all", "update"}
  BY InputsAssumption
<1>1. SetCall
  <2>1. ~ TableCreate /\ ~ TableCreateCrashes
    BY <1>0 DEF TableCreate, TableCreateCrashes, NoResp
  <2>2. ASSUME NEW op, UpdateRefused(op) PROVE FALSE
    BY <1>0, <2>2 DEF UpdateRefused
  <2>3. ASSUME NEW q, TableMatch(q) PROVE FALSE
    BY <1>0, <2>3 DEF TableMatch
  <2>4. ~ TableFree
    BY <1>0 DEF TableFree
  <2> QED BY <2>1, <2>2, <2>3, <2>4 DEF Next
<1>2. PICK j \in Rules :
        \/ \E r \in Results, call \in Calls : Add(call, j, r) \/ AddEntryFails(call, j, r)
        \/ Del(j)
        \/ \E op \in Ops : BadOp(op, j)
        \/ ArrayCrashes(j)
  BY <1>1 DEF SetCall
<1>3. ASSUME NEW r \in Results, NEW call \in Calls, Add(call, j, r)
      PROVE  /\ \E n \in 1..MaxLevel(k.fam) : \E D : Touches(k, n, D)
             /\ resp'.res \in Results
  <2>1. resp' = Answered(call, "OP_ADD", j, r, 0)
    BY <1>3 DEF Add
  <2>2. j = k /\ resp'.res = r
    BY <2>1 DEF Answered
  <2> QED BY <1>3, <2>2, AddTouches
<1>4. ASSUME NEW r \in Results, NEW call \in Calls, AddEntryFails(call, j, r)
      PROVE  /\ \E n \in 1..MaxLevel(k.fam) : \E D : Touches(k, n, D)
             /\ resp'.res \in Results
  <2> DEFINE a == PrefixRecalc(j.addr, j.mask)
             D(n, q) == {p \in Targets(n, a, j.mask) : p[n] < q[n]}
  <2>0. PICK n \in 1..MaxLevel(j.fam) : \E q \in Targets(n, a, j.mask) :
          IsTerminal(n, j.mask) /\ CutShort(call, "OP_ADD", j, r, n, a, D(n, q))
    BY <1>4 DEF AddEntryFails
  <2>1. PICK q \in Targets(n, a, j.mask) :
          IsTerminal(n, j.mask) /\ CutShort(call, "OP_ADD", j, r, n, a, D(n, q))
    BY <2>0
  <2>2. D(n, q) \in SUBSET Targets(n, a, j.mask)
    OBVIOUS
  <2>3. \E C : Touches(j, n, C)
    BY <2>1, <2>2, CutShortTouches
  <2>4. \E v : resp' = Answered(call, "OP_ADD", j, r, v)
    BY <2>1 DEF CutShort
  <2>5. j = k /\ resp'.res = r
    BY <2>4 DEF Answered
  <2> QED BY <2>3, <2>5
<1>5. CASE Del(j)
  <2>1. resp' = Answered("set_all", "OP_DEL", j, "none", 0)
    BY <1>5 DEF Del
  <2>2. j = k /\ resp'.op = "OP_DEL"
    BY <2>1 DEF Answered
  <2> QED BY <1>5, <2>2, DelTouches
<1>6. ASSUME NEW op \in Ops, BadOp(op, j)
      PROVE  /\ \E n \in 1..MaxLevel(k.fam) : \E D : Touches(k, n, D)
             /\ resp'.op # "OP_ADD"
  <2>1. PICK n \in 1..MaxLevel(j.fam) :
          /\ IsTerminal(n, j.mask)
          /\ CutShort("set_all", op, j, "none", n, PrefixRecalc(j.addr, j.mask), {})
    BY <1>6 DEF BadOp
  <2>2. \E C : Touches(j, n, C)
    BY <2>1, CutShortTouches
  <2>3. \E v : resp' = Answered("set_all", op, j, "none", v)
    BY <2>1 DEF CutShort
  <2>4. j = k /\ resp'.op = op
    BY <2>3 DEF Answered
  <2> QED BY <1>6, <2>2, <2>4 DEF BadOp
<1>7. ~ ArrayCrashes(j)
  BY <1>0 DEF ArrayCrashes, NoResp
<1> QED BY <1>2, <1>3, <1>4, <1>5, <1>6, <1>7

\* The nodes of a rule are those of the addresses it covers.
LEMMA CoveredNodes ==
  ASSUME NEW k \in Rules, NEW x \in Addr(k.fam), NEW n \in 1..MaxLevel(k.fam), IsTerminal(n, k.mask)
  PROVE  SubSeq(x, 1, n) \in Targets(n, PrefixRecalc(k.addr, k.mask), k.mask) <=> Covered(k, x)
<1>1. k.fam \in Family /\ k.addr \in Addr(k.fam) /\ k.mask \in Mask(k.fam)
  BY RuleFacts
<1>2. SubSeq(x, 1, n) \in Targets(n, PrefixRecalc(k.addr, k.mask), k.mask)
        <=> SharePrefix(x, k.addr, n, k.mask)
  BY <1>1, TargetDigits
<1>3. Num(x) \div 2^(Width[k.fam] - k.mask) = Num(k.addr) \div 2^(Width[k.fam] - k.mask)
        <=> SharePrefix(x, k.addr, n, k.mask)
  BY <1>1, CoveredDigits
<1> QED BY <1>2, <1>3 DEF Covered

\* A step that touches the nodes of a rule shows in what its addresses find, under its
\* mask, and nowhere else.
LEMMA StepKeepsOthers ==
  ASSUME IInv, IInv', NEW k \in Rules, NEW n \in 1..MaxLevel(k.fam), NEW D, Touches(k, n, D),
         NEW f \in Family, NEW x \in Addr(f)
  PROVE  IF f = k.fam /\ Covered(k, x)
         THEN Without(Found(f, x)', k.mask) = Without(Found(f, x), k.mask)
         ELSE Found(f, x)' = Found(f, x)
<1> DEFINE T == Targets(n, PrefixRecalc(k.addr, k.mask), k.mask)
           m == k.mask
           r == Rows(cfg, f, x)
           q == Rows(cfg', f, x)
<1>0. k.fam \in Family /\ k.mask \in Mask(k.fam) /\ PrefixRecalc(k.addr, k.mask) \in Addr(k.fam)
  BY RuleFacts
<1>1. WellFormed(cfg, arrays) /\ WellFormed(cfg', arrays')
  BY GoodState, GoodStateNext
<1>2. Found(f, x) = FlattenSeq(r) /\ Found(f, x)' = FlattenSeq(q)
  BY <1>1, FoundIsRows, FoundNow
<1>3. r \in Seq(Seq(Entry)) /\ Len(r) = MaxLevel(f) /\ \A i \in 1..MaxLevel(f) : r[i] = cfg[f][SubSeq(x, 1, i)]
  BY <1>1, RowsAreLists
<1>4. q \in Seq(Seq(Entry)) /\ Len(q) = MaxLevel(f) /\ \A i \in 1..MaxLevel(f) : q[i] = cfg'[f][SubSeq(x, 1, i)]
  BY <1>1, RowsAreLists
<1> HIDE DEF r, q
<1>5. \A i \in 1..MaxLevel(f) : SubSeq(x, 1, i) \in Path /\ Len(SubSeq(x, 1, i)) = i
  BY NodeOfAddr
<1>6. CASE f = k.fam /\ Covered(k, x)
  <2>1. ASSUME NEW i \in 1..MaxLevel(f) PROVE Without(r[i], m) = Without(q[i], m)
    <3> DEFINE p == SubSeq(x, 1, i)
    <3>1. p \in Path /\ r[i] = cfg[f][p] /\ q[i] = cfg'[f][p]
      BY <1>3, <1>4, <1>5
    <3> HIDE DEF p
    <3>2. CASE p \in D
      BY <1>6, <3>1, <3>2 DEF Touches
    <3>3. CASE p \notin D
      BY <3>1, <3>3 DEF Touches
    <3> QED BY <3>2, <3>3
  <2>2. AgreeBut(r, q, m)
    BY <1>3, <1>4, <2>1 DEF AgreeBut
  <2>3. Without(FlattenSeq(r), m) = Without(FlattenSeq(q), m)
    BY <1>3, <1>4, <2>2, WithoutRows
  <2> QED BY <1>2, <1>6, <2>3
<1>7. CASE ~ (f = k.fam /\ Covered(k, x))
  <2>1. ASSUME NEW i \in 1..MaxLevel(f) PROVE r[i] = q[i]
    <3> DEFINE p == SubSeq(x, 1, i)
    <3>1. p \in Path /\ Len(p) = i /\ r[i] = cfg[f][p] /\ q[i] = cfg'[f][p]
      BY <1>3, <1>4, <1>5
    <3>2. f # k.fam \/ p \notin D
      <4> SUFFICES ASSUME f = k.fam, p \in D PROVE FALSE
        OBVIOUS
      <4>1. p \in T /\ IsTerminal(n, m)
        BY DEF Touches
      <4>2. Len(p) = n
        <5> HIDE DEF p
        <5>1. p \in Targets(n, PrefixRecalc(k.addr, k.mask), k.mask)
          BY <4>1
        <5> QED BY <1>0, <5>1, TargetsAreNodes
      <4>3. i = n
        BY <3>1, <4>2
      <4>4. Covered(k, x)
        BY <4>1, <4>3, CoveredNodes
      <4> QED BY <1>7, <4>4
    <3> HIDE DEF p
    <3> QED BY <3>1, <3>2 DEF Touches
  <2>2. r = q
    <3>1. \A i \in 1..Len(r) : r[i] = q[i]
      BY <1>3, <2>1
    <3>2. Len(r) = Len(q)
      BY <1>3, <1>4
    <3> QED BY <1>3, <1>4, <3>1, <3>2, SeqEqual
  <2> QED BY <1>2, <1>7, <2>2
<1> QED BY <1>6, <1>7

\* A set call on a rule, also one that an allocation failure or a refused op cuts short,
\* changes nothing of what is found by an address outside its prefix, and nothing of what
\* any address finds under another mask or in the other family: dns_lpm_set_all writes to
\* the nodes of its prefix only, and moves no other entry of a list.  It holds for every
\* number of levels, stride and set of rules.
THEOREM OthersAreUntouched == Spec => OthersUntouched
<1> DEFINE A == resp'.call \in Calls => \A k \in {k \in Rules : k = resp'.rule} :
                  \A f \in Family : \A x \in Addr(f) :
                    IF f = k.fam /\ Covered(k, x)
                    THEN Without(Found(f, x)', k.mask) = Without(Found(f, x), k.mask)
                    ELSE Found(f, x)' = Found(f, x)
<1>1. Init => IInv
  BY InitIsGood
<1>2. IInv /\ [Next]_vars => IInv'
  BY StepIsGood
<1>3. IInv /\ IInv' /\ Next => A
  <2> SUFFICES ASSUME IInv, IInv', Next, resp'.call \in Calls,
                      NEW k \in Rules, k = resp'.rule, NEW f \in Family, NEW x \in Addr(f)
               PROVE  IF f = k.fam /\ Covered(k, x)
                      THEN Without(Found(f, x)', k.mask) = Without(Found(f, x), k.mask)
                      ELSE Found(f, x)' = Found(f, x)
    OBVIOUS
  <2>1. PICK n \in 1..MaxLevel(k.fam) : \E D : Touches(k, n, D)
    BY SetStepTouches
  <2> QED BY <2>1, StepKeepsOthers
<1> HIDE DEF A
<1>4. IInv /\ [Next]_vars => [A]_vars
  BY <1>2, <1>3
<1>5. IInv /\ [Next]_vars =>
        [resp'.call \in Calls => \A k \in {k \in Rules : k = resp'.rule} :
           \A f \in Family : \A x \in Addr(f) :
             IF f = k.fam /\ Covered(k, x)
             THEN Without(Found(f, x)', k.mask) = Without(Found(f, x), k.mask)
             ELSE Found(f, x)' = Found(f, x)]_vars
  BY <1>4 DEF A
<1> QED BY <1>1, <1>2, <1>5, PTL DEF Spec, OthersUntouched

\* After an add that runs to its end, every address the rule covers finds it once.
LEMMA AddInForce ==
  ASSUME IInv, IInv', NEW call, NEW k \in Rules, NEW r \in Results, Add(call, k, r),
         NEW x \in Addr(k.fam), Covered(k, x)
  PROVE  \E i \in 1..Len(Found(k.fam, x)') :
           Find(k.fam, x, k.mask)' = {i} /\ Found(k.fam, x)'[i].res = r
<1> DEFINE f == k.fam
           m == k.mask
           a == PrefixRecalc(k.addr, m)
           e == [mask |-> m, res |-> r]
           F == FlattenSeq(Rows(cfg', f, x))
<1>1. f \in Family /\ m \in Mask(f) /\ a \in Addr(f) /\ e \in Entry /\ e.mask = m /\ e.res = r
  BY RuleFacts DEF Entry
<1>2. PICK n \in 1..MaxLevel(f) :
        /\ IsTerminal(n, m)
        /\ cfg' = [cfg EXCEPT ![f] = [p \in Path |->
                     IF p \in Targets(n, a, m) THEN AddEntry(cfg[f][p], e) ELSE cfg[f][p]]]
  BY DEF Add
<1> DEFINE p == SubSeq(x, 1, n)
<1>3. p \in Targets(n, a, m) /\ p \in Path
  BY <1>1, <1>2, CoveredNodes, NodeOfAddr
<1>4. WellFormed(cfg, arrays) /\ WellFormed(cfg', arrays')
  BY GoodState, GoodStateNext
<1>5. Found(f, x)' = F
  BY <1>1, <1>4, FoundIsRows, FoundNow
<1> HIDE DEF e, a, p
<1>6. cfg'[f][p] = AddEntry(cfg[f][p], e) /\ cfg[f][p] \in Seq(Entry) /\ Unique(cfg[f][p])
  BY <1>1, <1>2, <1>3, <1>4 DEF WellFormed, Lists
<1>7. Carries(cfg'[f][p], e)
  BY <1>1, <1>6, AddEntryEdits
<1> HIDE DEF f, m
<1>8. /\ F \in Seq(Entry)
      /\ Carries(cfg'[f][p], e) => Carries(F, e)
      /\ \A i, j \in 1..Len(F) : F[i].mask = m /\ F[j].mask = m => i = j
  <2>1. x \in Addr(f) /\ n \in 1..MaxLevel(f) /\ IsTerminal(n, m)
    BY <1>2 DEF f
  <2> DEFINE c == cfg'
  <2>2. WellFormed(c, arrays')
    BY <1>4
  <2> HIDE DEF c
  <2>3. LET G == FlattenSeq(Rows(c, f, x))
            s == c[f][SubSeq(x, 1, n)]
        IN  /\ G \in Seq(Entry)
            /\ Carries(s, e) => Carries(G, e)
            /\ \A i, j \in 1..Len(G) : G[i].mask = m /\ G[j].mask = m => i = j
    BY <1>1, <2>1, <2>2, FoundOnce
  <2> QED BY <2>3 DEF c, p
<1>9. PICK i \in 1..Len(F) : F[i] = e
  BY <1>7, <1>8 DEF Carries
<1> HIDE DEF F
<1>10. Find(f, x, m)' = {j \in 1..Len(F) : F[j].mask = m}
  BY <1>5 DEF Find, f, m
<1>11. {j \in 1..Len(F) : F[j].mask = m} = {i}
  BY <1>1, <1>8, <1>9
<1> QED BY <1>1, <1>5, <1>9, <1>10, <1>11 DEF f, m

\* After a delete, none finds it.
LEMMA DelGone ==
  ASSUME IInv, IInv', NEW k \in Rules, Del(k), NEW x \in Addr(k.fam), Covered(k, x)
  PROVE  Find(k.fam, x, k.mask)' = {}
<1> DEFINE f == k.fam
           m == k.mask
           a == PrefixRecalc(k.addr, m)
           F == FlattenSeq(Rows(cfg', f, x))
<1>1. f \in Family /\ m \in Mask(f) /\ a \in Addr(f)
  BY RuleFacts
<1>2. PICK n \in 1..MaxLevel(f) :
        /\ IsTerminal(n, m)
        /\ cfg' = [cfg EXCEPT ![f] = [p \in Path |->
                     IF p \in Targets(n, a, m) THEN DelEntry(cfg[f][p], m) ELSE cfg[f][p]]]
  BY DEF Del
<1> DEFINE p == SubSeq(x, 1, n)
<1>3. p \in Targets(n, a, m) /\ p \in Path
  BY <1>1, <1>2, CoveredNodes, NodeOfAddr
<1>4. WellFormed(cfg, arrays) /\ WellFormed(cfg', arrays')
  BY GoodState, GoodStateNext
<1>5. Found(f, x)' = F
  BY <1>1, <1>4, FoundIsRows, FoundNow
<1> HIDE DEF a, p
<1>6. cfg'[f][p] = DelEntry(cfg[f][p], m) /\ cfg[f][p] \in Seq(Entry) /\ Unique(cfg[f][p])
  BY <1>1, <1>2, <1>3, <1>4 DEF WellFormed, Lists
<1>7. ~ HasMask(cfg'[f][p], m)
  BY <1>6, DelEntryEdits
<1> HIDE DEF f, m
<1>8. \A j \in 1..Len(F) : F[j].mask = m => Carries(cfg'[f][p], F[j])
  BY <1>1, <1>2, <1>4, FoundOnce DEF f, p
<1> HIDE DEF F
<1>9. Find(f, x, m)' = {j \in 1..Len(F) : F[j].mask = m}
  BY <1>5 DEF Find, f, m
<1>10. {j \in 1..Len(F) : F[j].mask = m} = {}
  BY <1>7, <1>8 DEF Carries, HasMask
<1> QED BY <1>9, <1>10 DEF f, m

\* A set call that runs to its end takes full effect, whatever calls were cut short before
\* it: after an add every address the rule covers finds the new result under its mask, and
\* only once, after a delete none finds it.
THEOREM CompletedCallsTakeEffect == Spec => CompletedCallTakesEffect
<1> DEFINE A == resp'.call \in Calls => \A k \in {k \in Rules : k = resp'.rule} :
                  /\ Add(resp'.call, k, resp'.res) => InForce(k, resp.res)'
                  /\ Del(k) => Gone(k)'
<1>1. Init => IInv
  BY InitIsGood
<1>2. IInv /\ [Next]_vars => IInv'
  BY StepIsGood
<1>3. IInv /\ IInv' /\ Next => A
  <2> SUFFICES ASSUME IInv, IInv', Next, resp'.call \in Calls, NEW k \in Rules, k = resp'.rule
               PROVE  /\ Add(resp'.call, k, resp'.res) => InForce(k, resp.res)'
                      /\ Del(k) => Gone(k)'
    OBVIOUS
  <2>1. ASSUME Add(resp'.call, k, resp'.res) PROVE InForce(k, resp.res)'
    <3>1. resp' = Answered(resp'.call, "OP_ADD", k, resp'.res, 0)
      BY <2>1 DEF Add
    <3>2. resp'.op = "OP_ADD"
      BY <3>1 DEF Answered
    <3>3. resp'.res \in Results
      BY <3>2, SetStepTouches
    <3> DEFINE r == resp'.res
    <3>4. r \in Results /\ Add(resp'.call, k, r)
      BY <2>1, <3>3
    <3> HIDE DEF r
    <3>5. \A x \in Addr(k.fam) : Covered(k, x) =>
            \E i \in 1..Len(Found(k.fam, x)') :
              Find(k.fam, x, k.mask)' = {i} /\ Found(k.fam, x)'[i].res = r
      BY <3>4, AddInForce
    <3> QED BY <3>5 DEF InForce, r
  <2>2. ASSUME Del(k) PROVE Gone(k)'
    BY <2>2, DelGone DEF Gone
  <2> QED BY <2>1, <2>2
<1> HIDE DEF A
<1>4. IInv /\ [Next]_vars => [A]_vars
  BY <1>2, <1>3
<1>5. IInv /\ [Next]_vars =>
        [resp'.call \in Calls => \A k \in {k \in Rules : k = resp'.rule} :
           /\ Add(resp'.call, k, resp'.res) => InForce(k, resp.res)'
           /\ Del(k) => Gone(k)']_vars
  BY <1>4 DEF A
<1> QED BY <1>1, <1>2, <1>5, PTL DEF Spec, CompletedCallTakesEffect

(***************************************************************************)
(* The rules the nodes hold.                                               *)
(***************************************************************************)

\* The prefix of mask m that the node q stands for, as RulesHeld computes it.
NetOf(q, m) == Num(q) \div 2^(STRIDE * Len(q) - m)
NetOfAddr(f, x, m) == Num(x) \div 2^(Width[f] - m)

\* The node of an address has the address's prefix.
LEMMA NetOfNode ==
  ASSUME NEW f \in Family, NEW x \in Addr(f), NEW n \in 1..MaxLevel(f), NEW m \in Mask(f), IsTerminal(n, m)
  PROVE  NetOf(SubSeq(x, 1, n), m) = NetOfAddr(f, x, m)
<1> DEFINE e == Behind(n, m)
<1>1. e \in 0..STRIDE /\ Width[f] - m = STRIDE * (MaxLevel(f) - n) + e
  BY PartsOfByte
<1>2. Len(SubSeq(x, 1, n)) = n
  BY NodeOfAddr
<1>3. STRIDE * n - m = e
  <2>1. STRIDE \in Nat /\ n \in Nat
    BY SizesAssumption, Levels
  <2> QED BY <2>1 DEF Behind
<1> HIDE DEF e
<1>4. Num(x) \div 2^(STRIDE * (MaxLevel(f) - n) + e) = High(x, n) \div 2^e
  BY <1>1, HighShifted
<1>5. NetOfAddr(f, x, m) = High(x, n) \div 2^e
  BY <1>1, <1>4 DEF NetOfAddr
<1>6. NetOf(SubSeq(x, 1, n), m) = High(x, n) \div 2^e
  BY <1>2, <1>3 DEF NetOf, High
<1> QED BY <1>5, <1>6

\* Every node is a node of an address.
LEMMA AddrOfNode ==
  ASSUME NEW f \in Family, NEW q \in Path, Len(q) <= MaxLevel(f)
  PROVE  \E x \in Addr(f) : SubSeq(x, 1, Len(q)) = q
<1>1. PICK n \in 1..MAX_LEVEL_IPV6 : q \in [1..n -> Byte]
  BY DEF Path
<1>2. n \in Nat /\ MaxLevel(f) \in Nat /\ 0 \in Byte
  BY SizesAssumption, Levels, BaseIsPower DEF Byte
<1>3. Len(q) = n /\ q \in Seq(Byte)
  BY <1>1, <1>2
<1> DEFINE x == [i \in 1..MaxLevel(f) |-> IF i <= n THEN q[i] ELSE 0]
           p == SubSeq(x, 1, n)
<1>4. x \in Addr(f)
  <2>1. ASSUME NEW i \in 1..MaxLevel(f) PROVE (IF i <= n THEN q[i] ELSE 0) \in Byte
    BY <1>1, <1>2
  <2> QED BY <2>1 DEF Addr
<1>5. n \in 0..MaxLevel(f) /\ \A i \in 1..n : x[i] = q[i]
  BY <1>2, <1>3
<1> HIDE DEF x
<1>6. p \in Seq(Byte) /\ Len(p) = n /\ \A j \in 1..n : p[j] = x[j]
  BY <1>4, <1>5, FirstBytes
<1> HIDE DEF p
<1>7. \A i \in 1..Len(p) : p[i] = q[i]
  BY <1>5, <1>6
<1>8. p = q
  BY <1>3, <1>6, <1>7, SeqEqual
<1> QED BY <1>3, <1>4, <1>8 DEF p

\* The nodes of a rule are those of its level that have its prefix.
LEMMA NodesOfRule ==
  ASSUME NEW f \in Family, NEW a \in Addr(f), NEW n \in 1..MaxLevel(f), NEW m \in Mask(f), IsTerminal(n, m),
         NEW q \in Path
  PROVE  q \in Targets(n, PrefixRecalc(a, m), m) <=> Len(q) = n /\ NetOf(q, m) = NetOfAddr(f, a, m)
<1> DEFINE T == Targets(n, PrefixRecalc(a, m), m)
<1>1. ASSUME q \in T PROVE Len(q) = n
  <2>1. PrefixRecalc(a, m) \in Addr(f)
    BY RecalcIsAddr
  <2> QED BY <1>1, <2>1, TargetsAreNodes
<1>2. ASSUME Len(q) = n PROVE q \in T <=> NetOf(q, m) = NetOfAddr(f, a, m)
  <2>1. Len(q) <= MaxLevel(f)
    BY <1>2, Levels
  <2>2. PICK x \in Addr(f) : SubSeq(x, 1, n) = q
    BY <1>2, <2>1, AddrOfNode
  <2>3. SubSeq(x, 1, n) \in T <=> SharePrefix(x, a, n, m)
    BY TargetDigits
  <2>4. NetOfAddr(f, x, m) = NetOfAddr(f, a, m) <=> SharePrefix(x, a, n, m)
    BY CoveredDigits DEF NetOfAddr
  <2>5. NetOf(SubSeq(x, 1, n), m) = NetOfAddr(f, x, m)
    BY NetOfNode
  <2> QED BY <2>2, <2>3, <2>4, <2>5
<1> QED BY <1>1, <1>2

\* A node's entry, the rule it is of, and the rules of the lists c.
RuleOf(f, q, e) == [fam |-> f, len |-> e.mask, net |-> NetOf(q, e.mask), res |-> e.res]
HeldIn(c, R) == \E f \in Family, q \in Path : \E e : Carries(c[f][q], e) /\ R = RuleOf(f, q, e)

\* RulesHeld, in this state and in the next.
LEMMA RulesAreHeld ==
  /\ \A R : R \in RulesHeld <=> HeldIn(cfg, R)
  /\ \A R : R \in RulesHeld' <=> HeldIn(cfg', R)
<1>1. \A R : R \in RulesHeld <=>
        \E f \in Family, q \in Path : \E i \in 1..Len(cfg[f][q]) : R = RuleOf(f, q, cfg[f][q][i])
  BY DEF RulesHeld, RuleOf, NetOf
<1>2. \A R : R \in RulesHeld' <=>
        \E f \in Family, q \in Path : \E i \in 1..Len(cfg'[f][q]) : R = RuleOf(f, q, cfg'[f][q][i])
  BY DEF RulesHeld, RuleOf, NetOf
<1> QED BY <1>1, <1>2 DEF HeldIn, Carries

\* All nodes of a level with the same prefix carry the same entries of it: what an add
\* writes to one it writes to all, with the same result.
Uniform(c) ==
  \A f \in Family, p, q \in Path : \A e :
    Len(p) = Len(q) /\ NetOf(p, e.mask) = NetOf(q, e.mask) /\ Carries(c[f][p], e)
      => Carries(c[f][q], e)

\* A node that carries an entry: its entry is of the type, at its level.
LEMMA CarriedEntry ==
  ASSUME NEW c, NEW A, WellFormed(c, A), NEW f \in Family, NEW q \in Path, NEW e, Carries(c[f][q], e)
  PROVE  /\ e \in Entry /\ e.mask \in Mask(f)
         /\ Len(q) \in 1..MaxLevel(f) /\ IsTerminal(Len(q), e.mask)
<1>1. PICK i \in 1..Len(c[f][q]) : c[f][q][i] = e
  BY DEF Carries
<1>2. c[f][q] \in Seq(Entry)
  BY DEF WellFormed, Lists
<1>3. e \in Entry
  BY <1>1, <1>2, ElementOfSeq
<1>4. PICK n \in 1..MAX_LEVEL_IPV6 : q \in [1..n -> Byte]
  BY DEF Path
<1>5. Len(q) = n /\ n \in Nat \ {0} /\ MaxLevel(f) \in Nat /\ STRIDE \in Nat
  BY <1>4, SizesAssumption, Levels
<1>6. /\ Len(q) <= MaxLevel(f)
      /\ e.mask <= Len(q) * STRIDE
      /\ Len(q) = 1 \/ (Len(q) - 1) * STRIDE < e.mask
  BY <1>1 DEF WellFormed, Lists
<1>7. e.mask \in Mask(f)
  <2>1. e.mask \in Nat
    BY <1>3, SizesAssumption DEF Entry, Mask
  <2>2. n < MaxLevel(f) => n * STRIDE + STRIDE <= MaxLevel(f) * STRIDE
    BY <1>5, LessTimes
  <2>3. n * STRIDE <= STRIDE * MaxLevel(f)
    <3>1. n * STRIDE \in Nat /\ MaxLevel(f) * STRIDE \in Nat /\ MaxLevel(f) * STRIDE = STRIDE * MaxLevel(f)
      BY <1>5
    <3> QED BY <1>5, <1>6, <2>2, <3>1
  <2> DEFINE u == n * STRIDE
             v == STRIDE * MaxLevel(f)
  <2>4. u \in Nat /\ v \in Nat /\ e.mask <= u /\ u <= v
    BY <1>5, <1>6, <2>3
  <2> HIDE DEF u, v
  <2>5. e.mask \in 0..v
    BY <2>1, <2>4
  <2> QED BY <2>5 DEF v, Mask
<1>8. Len(q) \in 1..MaxLevel(f) /\ IsTerminal(Len(q), e.mask)
  BY <1>5, <1>6 DEF IsTerminal
<1> QED BY <1>3, <1>7, <1>8

\* What an add makes of a list.
LEMMA AddCarries ==
  ASSUME NEW s \in Seq(Entry), Unique(s), NEW e \in Entry
  PROVE  \A d : Carries(AddEntry(s, e), d) <=> d = e \/ (d.mask # e.mask /\ Carries(s, d))
<1> DEFINE t == AddEntry(s, e)
<1>1. Edited(s, t, e.mask) /\ Carries(t, e)
  BY AddEntryEdits
<1> HIDE DEF t
<1>2. PICK h \in 1..Len(t) : t[h] = e
  BY <1>1 DEF Carries
<1>3. ASSUME NEW d, Carries(t, d) PROVE d = e \/ (d.mask # e.mask /\ Carries(s, d))
  <2>1. PICK i \in 1..Len(t) : t[i] = d
    BY <1>3 DEF Carries
  <2>2. CASE d.mask = e.mask
    <3>1. i = h
      BY <1>1, <1>2, <2>1, <2>2 DEF Edited, Unique
    <3> QED BY <1>2, <2>1, <3>1
  <2>3. CASE d.mask # e.mask
    BY <1>1, <2>1, <2>3 DEF Edited, Carries
  <2> QED BY <2>2, <2>3
<1>4. ASSUME NEW d, d.mask # e.mask, Carries(s, d) PROVE Carries(t, d)
  BY <1>1, <1>4 DEF Edited, Carries
<1> QED BY <1>1, <1>3, <1>4 DEF t

\* What a delete makes of a list.
LEMMA DelCarries ==
  ASSUME NEW s \in Seq(Entry), Unique(s), NEW m
  PROVE  \A d : Carries(DelEntry(s, m), d) <=> d.mask # m /\ Carries(s, d)
<1> DEFINE t == DelEntry(s, m)
<1>1. Edited(s, t, m) /\ ~ HasMask(t, m)
  BY DelEntryEdits
<1> HIDE DEF t
<1>2. ASSUME NEW d, Carries(t, d) PROVE d.mask # m /\ Carries(s, d)
  <2>1. PICK i \in 1..Len(t) : t[i] = d
    BY <1>2 DEF Carries
  <2>2. d.mask # m
    BY <1>1, <2>1 DEF HasMask
  <2> QED BY <1>1, <2>1, <2>2 DEF Edited, Carries
<1>3. ASSUME NEW d, d.mask # m, Carries(s, d) PROVE Carries(t, d)
  BY <1>1, <1>3 DEF Edited, Carries
<1> QED BY <1>2, <1>3 DEF t

\* The nodes of the rule k.
Nodes(f, n, k) == {q \in Path : Len(q) = n /\ NetOf(q, k.mask) = NetOfAddr(f, k.addr, k.mask)}

\* What a call on k makes of the lists: of the entries of k's mask at k's nodes the set E,
\* everything else as it was.
Replaces(k, n, c, d, E) ==
  /\ IsTerminal(n, k.mask)
  /\ \A e \in E : e \in Entry /\ e.mask = k.mask
  /\ \A f \in Family, q \in Path : f # k.fam \/ q \notin Nodes(k.fam, n, k) => d[f][q] = c[f][q]
  /\ \A q \in Nodes(k.fam, n, k) : \A e :
       Carries(d[k.fam][q], e) <=> e \in E \/ (e.mask # k.mask /\ Carries(c[k.fam][q], e))

\* An add replaces what its nodes carry of its mask by the new entry.
LEMMA AddReplaces ==
  ASSUME IInv, NEW call, NEW k \in Rules, NEW r \in Results, Add(call, k, r)
  PROVE  \E n \in 1..MaxLevel(k.fam) : Replaces(k, n, cfg, cfg', {[mask |-> k.mask, res |-> r]})
<1> DEFINE f == k.fam
           m == k.mask
           a == PrefixRecalc(k.addr, m)
           e == [mask |-> m, res |-> r]
<1>1. f \in Family /\ m \in Mask(f) /\ k.addr \in Addr(f) /\ a \in Addr(f) /\ e \in Entry /\ e.mask = m
  BY RuleFacts DEF Entry
<1>2. PICK n \in 1..MaxLevel(f) :
        /\ IsTerminal(n, m)
        /\ cfg' = [cfg EXCEPT ![f] = [p \in Path |->
                     IF p \in Targets(n, a, m) THEN AddEntry(cfg[f][p], e) ELSE cfg[f][p]]]
  BY DEF Add
<1> DEFINE D == Targets(n, a, m)
           N == Nodes(f, n, k)
<1>3. Lists(cfg, arrays)
  BY GoodState DEF WellFormed
<1>4. \A q \in Path : q \in D <=> q \in N
  BY <1>1, <1>2, NodesOfRule DEF Nodes
<1>5. N \subseteq Path
  BY DEF Nodes
<1> HIDE DEF e, D, N
<1>6. \A h \in Family, p \in Path : h # f \/ p \notin N => cfg'[h][p] = cfg[h][p]
  BY <1>1, <1>2, <1>3, <1>4 DEF Lists, D
<1>7. ASSUME NEW q \in N
      PROVE  cfg'[f][q] = AddEntry(cfg[f][q], e) /\ cfg[f][q] \in Seq(Entry) /\ Unique(cfg[f][q])
  BY <1>1, <1>2, <1>3, <1>4, <1>5 DEF Lists, D
<1>8. \A q \in N : \A d : Carries(cfg'[f][q], d) <=> d = e \/ (d.mask # m /\ Carries(cfg[f][q], d))
  BY <1>1, <1>7, AddCarries
<1>9. Replaces(k, n, cfg, cfg', {e})
  BY <1>1, <1>2, <1>6, <1>8 DEF Replaces, N
<1> QED BY <1>9 DEF e

\* A delete removes it.
LEMMA DelReplaces ==
  ASSUME IInv, NEW k \in Rules, Del(k)
  PROVE  \E n \in 1..MaxLevel(k.fam) : Replaces(k, n, cfg, cfg', {})
<1> DEFINE f == k.fam
           m == k.mask
           a == PrefixRecalc(k.addr, m)
<1>1. f \in Family /\ m \in Mask(f) /\ k.addr \in Addr(f) /\ a \in Addr(f)
  BY RuleFacts
<1>2. PICK n \in 1..MaxLevel(f) :
        /\ IsTerminal(n, m)
        /\ cfg' = [cfg EXCEPT ![f] = [p \in Path |->
                     IF p \in Targets(n, a, m) THEN DelEntry(cfg[f][p], m) ELSE cfg[f][p]]]
  BY DEF Del
<1> DEFINE D == Targets(n, a, m)
           N == Nodes(f, n, k)
<1>3. Lists(cfg, arrays)
  BY GoodState DEF WellFormed
<1>4. \A q \in Path : q \in D <=> q \in N
  BY <1>1, <1>2, NodesOfRule DEF Nodes
<1>5. N \subseteq Path
  BY DEF Nodes
<1> HIDE DEF D, N
<1>6. \A h \in Family, p \in Path : h # f \/ p \notin N => cfg'[h][p] = cfg[h][p]
  BY <1>1, <1>2, <1>3, <1>4 DEF Lists, D
<1>7. ASSUME NEW q \in N
      PROVE  cfg'[f][q] = DelEntry(cfg[f][q], m) /\ cfg[f][q] \in Seq(Entry) /\ Unique(cfg[f][q])
  BY <1>1, <1>2, <1>3, <1>4, <1>5 DEF Lists, D
<1>8. \A q \in N : \A d : Carries(cfg'[f][q], d) <=> d.mask # m /\ Carries(cfg[f][q], d)
  BY <1>7, DelCarries
<1>9. Replaces(k, n, cfg, cfg', {})
  BY <1>2, <1>6, <1>8 DEF Replaces, N
<1> QED BY <1>9

\* A call on all nodes of a rule keeps the nodes of each prefix alike.
LEMMA ReplacesUniform ==
  ASSUME NEW c, NEW A, WellFormed(c, A), NEW d, NEW B, WellFormed(d, B), Uniform(c),
         NEW k \in Rules, NEW n \in 1..MaxLevel(k.fam), NEW E, Replaces(k, n, c, d, E)
  PROVE  Uniform(d)
<1> DEFINE N == Nodes(k.fam, n, k)
           m == k.mask
<1>0. k.fam \in Family /\ m \in Mask(k.fam) /\ m \in Nat /\ n \in Nat \ {0}
  <2>1. k.fam \in Family /\ m \in Mask(k.fam) /\ MaxLevel(k.fam) \in Nat
    BY RuleFacts, Levels
  <2> QED BY <2>1 DEF Mask
<1> SUFFICES ASSUME NEW f \in Family, NEW p \in Path, NEW q \in Path, NEW e,
                    Len(p) = Len(q), NetOf(p, e.mask) = NetOf(q, e.mask), Carries(d[f][p], e)
             PROVE  Carries(d[f][q], e)
  BY DEF Uniform
<1>1. Carries(c[f][p], e) => Carries(c[f][q], e)
  BY DEF Uniform
<1>2. CASE f = k.fam /\ e.mask = m
  <2>1. Len(p) = n
    <3>1. Len(p) \in 1..MaxLevel(f) /\ IsTerminal(Len(p), m)
      BY <1>2, CarriedEntry
    <3>2. Len(p) \in Nat \ {0} /\ IsTerminal(n, m)
      BY <3>1, Levels DEF Replaces
    <3> QED BY <1>0, <3>1, <3>2, OneLevel
  <2>2. p \in N <=> q \in N
    BY <1>2, <2>1 DEF Nodes
  <2>3. CASE p \in N
    BY <1>2, <2>2, <2>3 DEF Replaces
  <2>4. CASE p \notin N
    BY <1>1, <1>2, <2>2, <2>4 DEF Replaces
  <2> QED BY <2>3, <2>4
<1>3. CASE ~ (f = k.fam /\ e.mask = m)
  <2>1. Carries(c[f][p], e)
    BY <1>3 DEF Replaces
  <2>2. Carries(c[f][q], e)
    BY <1>1, <2>1
  <2> QED BY <1>3, <2>2 DEF Replaces
<1> QED BY <1>2, <1>3

\* The prefix of a rule, as LpmRules tells rules apart.
KeyOf(R) == <<R.fam, R.len, R.net>>
KeyOfRule(k) == <<k.fam, k.mask, NetOfAddr(k.fam, k.addr, k.mask)>>

\* The rules held after such a call: those of other prefixes, and those of E.
LEMMA ReplacesRules ==
  ASSUME NEW c, NEW A, WellFormed(c, A),
         NEW k \in Rules, NEW n \in 1..MaxLevel(k.fam), NEW d, NEW E, Replaces(k, n, c, d, E)
  PROVE  \A R : HeldIn(d, R) <=>
           \/ HeldIn(c, R) /\ KeyOf(R) # KeyOfRule(k)
           \/ \E e \in E : R = [fam |-> k.fam, len |-> k.mask,
                                net |-> NetOfAddr(k.fam, k.addr, k.mask), res |-> e.res]
<1> DEFINE f == k.fam
           m == k.mask
           N == Nodes(f, n, k)
           net == NetOfAddr(f, k.addr, m)
           New(e) == [fam |-> f, len |-> m, net |-> net, res |-> e.res]
<1>0. /\ f \in Family /\ m \in Mask(f) /\ k.addr \in Addr(f) /\ m \in Nat /\ n \in Nat \ {0}
      /\ IsTerminal(n, m)
  <2>1. f \in Family /\ m \in Mask(f) /\ k.addr \in Addr(f) /\ MaxLevel(f) \in Nat
    BY RuleFacts, Levels
  <2> QED BY <2>1 DEF Mask, Replaces
<1>1. \A q \in N : q \in Path /\ Len(q) = n /\ NetOf(q, m) = net
  BY DEF Nodes
<1>2. \E q : q \in N
  <2>1. SubSeq(k.addr, 1, n) \in Path /\ Len(SubSeq(k.addr, 1, n)) = n
    BY <1>0, NodeOfAddr
  <2>2. NetOf(SubSeq(k.addr, 1, n), m) = net
    BY <1>0, NetOfNode
  <2> QED BY <2>1, <2>2 DEF Nodes
<1>3. ASSUME NEW q \in Path, NEW e, Carries(c[f][q], e), e.mask = m
      PROVE  Len(q) = n
  <2>1. Len(q) \in 1..MaxLevel(f) /\ IsTerminal(Len(q), m)
    BY <1>0, <1>3, CarriedEntry
  <2>2. Len(q) \in Nat \ {0}
    BY <1>0, <2>1, Levels
  <2> QED BY <1>0, <2>1, <2>2, OneLevel
<1>4. ASSUME NEW g \in Family, NEW q \in Path, NEW e
      PROVE  /\ KeyOf(RuleOf(g, q, e)) = <<g, e.mask, NetOf(q, e.mask)>>
             /\ KeyOfRule(k) = <<f, m, net>>
  BY DEF KeyOf, KeyOfRule, RuleOf
<1> HIDE DEF net
<1>5. ASSUME NEW R, HeldIn(d, R)
      PROVE  (HeldIn(c, R) /\ KeyOf(R) # KeyOfRule(k)) \/ \E e \in E : R = New(e)
  <2>1. PICK g \in Family, q \in Path : \E e : Carries(d[g][q], e) /\ R = RuleOf(g, q, e)
    BY <1>5 DEF HeldIn
  <2>2. PICK e : Carries(d[g][q], e) /\ R = RuleOf(g, q, e)
    BY <2>1
  <2>3. CASE g = f /\ q \in N
    <3>1. e \in E \/ (e.mask # m /\ Carries(c[f][q], e))
      BY <2>2, <2>3 DEF Replaces
    <3>2. CASE e \in E
      <4>1. e.mask = m
        BY <3>2 DEF Replaces
      <4>2. R = New(e)
        BY <1>1, <2>2, <2>3, <4>1 DEF RuleOf
      <4> QED BY <3>2, <4>2
    <3>3. CASE e.mask # m /\ Carries(c[f][q], e)
      <4>1. HeldIn(c, R)
        BY <2>2, <2>3, <3>3 DEF HeldIn
      <4>2. KeyOf(R) # KeyOfRule(k)
        BY <1>4, <2>2, <3>3
      <4> QED BY <4>1, <4>2
    <3> QED BY <3>1, <3>2, <3>3
  <2>4. CASE ~ (g = f /\ q \in N)
    <3>1. Carries(c[g][q], e)
      BY <2>2, <2>4 DEF Replaces
    <3>2. HeldIn(c, R)
      BY <2>2, <3>1 DEF HeldIn
    <3>3. ASSUME KeyOf(R) = KeyOfRule(k) PROVE FALSE
      <4>1. g = f /\ e.mask = m /\ NetOf(q, m) = net
        BY <1>4, <2>2, <3>3
      <4>2. Len(q) = n
        BY <1>3, <3>1, <4>1
      <4>3. q \in N
        BY <4>1, <4>2 DEF Nodes, net
      <4> QED BY <2>4, <4>1, <4>3
    <3> QED BY <3>2, <3>3
  <2> QED BY <2>3, <2>4
<1>6. ASSUME NEW R, HeldIn(c, R), KeyOf(R) # KeyOfRule(k) PROVE HeldIn(d, R)
  <2>1. PICK g \in Family, q \in Path : \E e : Carries(c[g][q], e) /\ R = RuleOf(g, q, e)
    BY <1>6 DEF HeldIn
  <2>2. PICK e : Carries(c[g][q], e) /\ R = RuleOf(g, q, e)
    BY <2>1
  <2>3. Carries(d[g][q], e)
    <3>1. CASE g = f /\ q \in N
      <4>1. ASSUME e.mask = m PROVE FALSE
        <5>1. NetOf(q, e.mask) = net
          BY <1>1, <3>1, <4>1
        <5>2. KeyOf(R) = <<g, e.mask, NetOf(q, e.mask)>> /\ KeyOfRule(k) = <<f, m, net>>
          BY <1>4, <2>2
        <5>3. KeyOf(R) = KeyOfRule(k)
          BY <3>1, <4>1, <5>1, <5>2
        <5> QED BY <1>6, <5>3
      <4> QED BY <2>2, <3>1, <4>1 DEF Replaces
    <3>2. CASE ~ (g = f /\ q \in N)
      BY <2>2, <3>2 DEF Replaces
    <3> QED BY <3>1, <3>2
  <2> QED BY <2>2, <2>3 DEF HeldIn
<1>7. ASSUME NEW R, NEW e \in E, R = New(e) PROVE HeldIn(d, R)
  <2>1. PICK q : q \in N
    BY <1>2
  <2>2. Carries(d[f][q], e) /\ e.mask = m
    BY <2>1 DEF Replaces
  <2>3. R = RuleOf(f, q, e)
    BY <1>1, <1>7, <2>1, <2>2 DEF RuleOf
  <2> QED BY <1>0, <1>1, <2>1, <2>2, <2>3 DEF HeldIn
<1> QED BY <1>5, <1>6, <1>7 DEF net

(***************************************************************************)
(* What a lookup returns.                                                  *)
(***************************************************************************)

\* F is what the address x finds in the lists c: the entries on its way, one for a mask,
\* those of higher levels first.
FoundBy(c, f, x, F) ==
  /\ F \in Seq(Entry)
  /\ \A i \in 1..Len(F) : \E n \in 1..MaxLevel(f) : Carries(c[f][SubSeq(x, 1, n)], F[i])
  /\ \A n \in 1..MaxLevel(f) : \A e : Carries(c[f][SubSeq(x, 1, n)], e) => Carries(F, e)
  /\ \A i, j \in 1..Len(F) : F[i].mask = F[j].mask => i = j
  /\ \A i, j \in 1..Len(F) : i < j =>
       \E n, h \in 1..MaxLevel(f) : /\ IsTerminal(n, F[i].mask) /\ IsTerminal(h, F[j].mask)
                                    /\ n <= h

\* A lookup walks the levels once, top down.
LEMMA WalkFinds ==
  ASSUME NEW c, NEW A, WellFormed(c, A), NEW f \in Family, NEW x \in Addr(f)
  PROVE  FoundBy(c, f, x, FlattenSeq(Rows(c, f, x)))
<1> DEFINE r == Rows(c, f, x)
           F == FlattenSeq(r)
<1>1. r \in Seq(Seq(Entry)) /\ Len(r) = MaxLevel(f) /\ \A i \in 1..MaxLevel(f) : r[i] = c[f][SubSeq(x, 1, i)]
  BY RowsAreLists
<1> HIDE DEF r
<1>2. F \in Seq(Entry) /\ HasPlaces(r, F) /\ PlacesOrdered(r, F)
  BY <1>1, FlattenPlaces
<1> HIDE DEF F
<1>3. ASSUME NEW e, NEW i, NEW j, ComesFrom(r, e, i, j)
      PROVE  /\ i \in 1..MaxLevel(f) /\ IsTerminal(i, e.mask) /\ e.mask \in Mask(f)
             /\ Carries(c[f][SubSeq(x, 1, i)], e)
  <2>1. i \in 1..MaxLevel(f) /\ j \in 1..Len(r[i]) /\ e = r[i][j]
    BY <1>1, <1>3 DEF ComesFrom
  <2>2. SubSeq(x, 1, i) \in Path /\ Len(SubSeq(x, 1, i)) = i
    BY <2>1, NodeOfAddr
  <2>3. Carries(c[f][SubSeq(x, 1, i)], e)
    BY <1>1, <2>1 DEF Carries
  <2>4. e.mask \in Mask(f) /\ IsTerminal(i, e.mask)
    BY <2>2, <2>3, CarriedEntry
  <2> QED BY <2>1, <2>3, <2>4
<1>4. ASSUME NEW k \in 1..Len(F)
      PROVE  \E n \in 1..MaxLevel(f) : Carries(c[f][SubSeq(x, 1, n)], F[k])
  <2>1. PICK i, j : ComesFrom(r, F[k], i, j)
    BY <1>2 DEF PlacesOrdered
  <2> QED BY <1>3, <2>1
<1>5. ASSUME NEW n \in 1..MaxLevel(f), NEW e, Carries(c[f][SubSeq(x, 1, n)], e) PROVE Carries(F, e)
  <2>1. n \in 1..Len(r) /\ Carries(r[n], e)
    BY <1>1, <1>5
  <2>2. PICK j \in 1..Len(r[n]) : r[n][j] = e
    BY <2>1 DEF Carries
  <2> QED BY <1>2, <2>1, <2>2 DEF HasPlaces, Carries
<1>6. ASSUME NEW k \in 1..Len(F), NEW l \in 1..Len(F), F[k].mask = F[l].mask PROVE k = l
  <2>1. PICK n, j : ComesFrom(r, F[k], n, j)
    BY <1>2 DEF PlacesOrdered
  <2>2. n \in 1..MaxLevel(f) /\ F[k].mask \in Mask(f) /\ IsTerminal(n, F[k].mask)
    BY <1>3, <2>1
  <2> QED BY <1>6, <2>2, FoundOnce DEF F, r
<1>7. ASSUME NEW k \in 1..Len(F), NEW l \in 1..Len(F), k < l
      PROVE  \E n, h \in 1..MaxLevel(f) : /\ IsTerminal(n, F[k].mask) /\ IsTerminal(h, F[l].mask)
                                          /\ n <= h
  <2>1. PICK i, j, h, g : ComesFrom(r, F[k], i, j) /\ ComesFrom(r, F[l], h, g) /\ RowOrder(i, j, h, g)
    BY <1>2, <1>7 DEF PlacesOrdered
  <2>2. i \in 1..MaxLevel(f) /\ IsTerminal(i, F[k].mask) /\ h \in 1..MaxLevel(f) /\ IsTerminal(h, F[l].mask)
    BY <1>3, <2>1
  <2>3. i <= h
    <3>1. i \in Nat /\ h \in Nat
      BY <2>2, Levels
    <3> QED BY <2>1, <3>1 DEF RowOrder
  <2> QED BY <2>2, <2>3
<1> QED BY <1>2, <1>4, <1>5, <1>6, <1>7 DEF FoundBy, F, r

\* The tier of a mask is the level it ends in.
TierOf == [m \in Mask(IS_IPV6) |-> CHOOSE n \in 1..MAX_LEVEL_IPV6 : IsTerminal(n, m)]

\* It is: there is one such level.
LEMMA TierIsLevel ==
  ASSUME NEW f \in Family, NEW n \in 1..MaxLevel(f), NEW m \in Mask(IS_IPV6), IsTerminal(n, m)
  PROVE  TierOf[m] = n
<1>1. n \in 1..MAX_LEVEL_IPV6 /\ n \in Nat \ {0} /\ m \in Nat
  BY Levels, SizesAssumption DEF Mask
<1>2. \A h \in 1..MAX_LEVEL_IPV6 : IsTerminal(h, m) => h = n
  <2>1. \A h \in 1..MAX_LEVEL_IPV6 : h \in Nat \ {0}
    BY SizesAssumption
  <2> QED BY <1>1, <2>1, OneLevel
<1>3. (CHOOSE h \in 1..MAX_LEVEL_IPV6 : IsTerminal(h, m)) = n
  BY <1>1, <1>2
<1> QED BY <1>3 DEF TierOf

\* A sequence that has each member of a set once is one of the set's sequences.
LEMMA SequencesOfSet ==
  ASSUME NEW S, NEW n \in Nat, NEW s \in [1..n -> S],
         \A i, j \in 1..n : s[i] = s[j] => i = j,
         \A x \in S : \E i \in 1..n : s[i] = x
  PROVE  s \in SetToSeqs(S)
<1>1. s \in Bijection(1..n, S)
  BY Fun_IsBij
<1>2. ExistsBijection(1..n, S)
  BY <1>1, Fun_ExistsBij
<1>3. Cardinality(S) = n
  BY <1>2, FS_CountingElements
<1> QED BY <1>3 DEF SetToSeqs

\* The rule an entry on the way of the address x is of.
RuleOn(f, x, e) == [fam |-> f, len |-> e.mask, net |-> NetOfAddr(f, x, e.mask), res |-> e.res]

\* A lookup finds, once each, the rules its address has the prefix of.
LEMMA FindsTheRules ==
  ASSUME IInv, Uniform(cfg), NEW f \in Family, NEW x \in Addr(f), NEW F, FoundBy(cfg, f, x, F),
         NEW S, \A R : R \in S <=> R \in RulesHeld /\ R.fam = f /\ R.net = NetOfAddr(f, x, R.len)
  PROVE  /\ [i \in 1..Len(F) |-> RuleOn(f, x, F[i])] \in SetToSeqs(S)
<1> DEFINE s == [i \in 1..Len(F) |-> RuleOn(f, x, F[i])]
<1>0. WellFormed(cfg, arrays)
  BY GoodState
<1>1. F \in Seq(Entry) /\ Len(F) \in Nat
  BY LenProperties DEF FoundBy
<1>2. ASSUME NEW i \in 1..Len(F) PROVE RuleOn(f, x, F[i]) \in S
  <2>1. PICK n \in 1..MaxLevel(f) : Carries(cfg[f][SubSeq(x, 1, n)], F[i])
    BY DEF FoundBy
  <2> DEFINE q == SubSeq(x, 1, n)
  <2>2. q \in Path /\ Len(q) = n
    BY NodeOfAddr
  <2>3. F[i].mask \in Mask(f) /\ IsTerminal(n, F[i].mask)
    BY <1>0, <2>1, <2>2, CarriedEntry
  <2>4. NetOf(q, F[i].mask) = NetOfAddr(f, x, F[i].mask)
    BY <2>3, NetOfNode
  <2> HIDE DEF q
  <2>5. RuleOn(f, x, F[i]) = RuleOf(f, q, F[i])
    BY <2>4 DEF RuleOn, RuleOf
  <2>6. HeldIn(cfg, RuleOn(f, x, F[i]))
    BY <2>1, <2>2, <2>5 DEF HeldIn, q
  <2>7. RuleOn(f, x, F[i]) \in RulesHeld
    BY <2>6, RulesAreHeld
  <2> QED BY <2>7 DEF RuleOn
<1>3. s \in [1..Len(F) -> S]
  BY <1>2
<1>4. ASSUME NEW i \in 1..Len(F), NEW j \in 1..Len(F), s[i] = s[j] PROVE i = j
  <2>1. RuleOn(f, x, F[i]).len = RuleOn(f, x, F[j]).len
    BY <1>4
  <2>2. F[i].mask = F[j].mask
    BY <2>1 DEF RuleOn
  <2> QED BY <2>2 DEF FoundBy
<1>5. ASSUME NEW R \in S PROVE \E i \in 1..Len(F) : s[i] = R
  <2>1. HeldIn(cfg, R) /\ R.fam = f /\ R.net = NetOfAddr(f, x, R.len)
    BY RulesAreHeld
  <2>2. PICK g \in Family, q \in Path : \E e : Carries(cfg[g][q], e) /\ R = RuleOf(g, q, e)
    BY <2>1 DEF HeldIn
  <2>3. PICK e : Carries(cfg[g][q], e) /\ R = RuleOf(g, q, e)
    BY <2>2
  <2>4. g = f /\ R.len = e.mask /\ R.net = NetOf(q, e.mask)
    BY <2>1, <2>3 DEF RuleOf
  <2> DEFINE n == Len(q)
             p == SubSeq(x, 1, n)
  <2>5. n \in 1..MaxLevel(f) /\ IsTerminal(n, e.mask) /\ e.mask \in Mask(f)
    BY <1>0, <2>3, <2>4, CarriedEntry
  <2>6. p \in Path /\ Len(p) = n /\ NetOf(p, e.mask) = NetOfAddr(f, x, e.mask)
    BY <2>5, NodeOfAddr, NetOfNode
  <2>7. Carries(cfg[f][p], e)
    <3> HIDE DEF p
    <3>1. NetOf(q, e.mask) = NetOf(p, e.mask)
      BY <2>1, <2>4, <2>6
    <3> QED BY <2>3, <2>4, <2>6, <3>1 DEF Uniform
  <2>8. Carries(F, e)
    BY <2>5, <2>7 DEF FoundBy
  <2>9. PICK i \in 1..Len(F) : F[i] = e
    BY <2>8 DEF Carries
  <2>10. R = RuleOn(f, x, e)
    BY <2>1, <2>3, <2>4 DEF RuleOn, RuleOf
  <2> QED BY <2>9, <2>10
<1> HIDE DEF s
<1>6. s \in SetToSeqs(S)
  BY <1>1, <1>3, <1>4, <1>5, SequencesOfSet
<1> QED BY <1>6 DEF s

(***************************************************************************)
(* The refinement.                                                         *)
(***************************************************************************)

\* No malloc fails, ops are passed through dns_lpm_set_all, and no op has the name LpmRules
\* gives to another call.  A bad op is none of these, and may occur.
NoFailures ==
  /\ MallocMayFail = FALSE
  /\ "set_all" \in Calls
  /\ Ops \cap {"match", "free"} = {}

\* What a set call is for LpmRules.
LEMMA EventOfSet ==
  ASSUME NEW call \in Calls, NEW op, NEW k, NEW r, NEW v, resp' = Answered(call, op, k, r, v)
  PROVE  Event' = [op |-> op, fam |-> k.fam, x |-> Num(k.addr), len |-> k.mask, res |-> r]
<1>1. resp'.call = call /\ resp'.op = op /\ resp'.rule = k /\ resp'.res = r
  BY DEF Answered
<1>2. resp'.call # "match"
  BY <1>1, InputsAssumption
<1> QED BY <1>1, <1>2 DEF Event

\* What a lookup is.
LEMMA EventOfMatch ==
  ASSUME NEW q, NEW o, resp' = [call |-> "match", probe |-> q, out |-> o]
  PROVE  Event' = [op |-> "match", fam |-> q.fam, x |-> Num(q.addr), out |-> o]
<1>1. resp'.call = "match" /\ resp'.probe = q /\ resp'.out = o /\ resp'.call \notin Calls
  BY InputsAssumption
<1> QED BY <1>1 DEF Event

\* The rules of a prefix other than k's.
OtherRules(k) == {R \in RulesHeld : KeyOf(R) # KeyOfRule(k)}

\* These are the others of the event of a set call on k.
LEMMA OthersOfEvent ==
  ASSUME NEW k, NEW op, NEW r,
         Event' = [op |-> op, fam |-> k.fam, x |-> Num(k.addr), len |-> k.mask, res |-> r]
  PROVE  /\ Abstract!Others(Event') = OtherRules(k)
         /\ Abstract!Net(Event') = NetOfAddr(k.fam, k.addr, k.mask)
<1>1. Abstract!Net(Event') = NetOfAddr(k.fam, k.addr, k.mask)
  BY DEF Abstract!Net, Abstract!Shift, NetOfAddr
<1>2. Abstract!Others(Event') = {R \in RulesHeld : <<R.fam, R.len, R.net>> # <<k.fam, k.mask, Abstract!Net(Event')>>}
  BY DEF Abstract!Others
<1> QED BY <1>1, <1>2 DEF OtherRules, KeyOf, KeyOfRule

\* An add replaces the rule of its prefix.
LEMMA AddImplements ==
  ASSUME IInv, IInv', Uniform(cfg), NEW call \in Calls, NEW k \in Rules, NEW r \in Results, Add(call, k, r)
  PROVE  Abstract!Effect(Event') /\ Uniform(cfg')
<1> DEFINE e == [mask |-> k.mask, res |-> r]
           New == [fam |-> k.fam, len |-> k.mask, net |-> NetOfAddr(k.fam, k.addr, k.mask), res |-> r]
           d == cfg'
           B == arrays'
<1>1. PICK n \in 1..MaxLevel(k.fam) : Replaces(k, n, cfg, d, {e})
  BY AddReplaces
<1>2. WellFormed(cfg, arrays) /\ WellFormed(d, B)
  BY GoodState, GoodStateNext
<1>3. \A R : R \in RulesHeld <=> HeldIn(cfg, R)
  BY RulesAreHeld
<1>4. \A R : R \in RulesHeld' <=> HeldIn(d, R)
  BY RulesAreHeld
<1>5. e.res = r
  OBVIOUS
<1> HIDE DEF d, B, e
<1>6. Uniform(d)
  BY <1>1, <1>2, ReplacesUniform
<1>7. \A R : HeldIn(d, R) <=>
         \/ HeldIn(cfg, R) /\ KeyOf(R) # KeyOfRule(k)
         \/ \E x \in {e} : R = [fam |-> k.fam, len |-> k.mask,
                              net |-> NetOfAddr(k.fam, k.addr, k.mask), res |-> x.res]
  BY <1>1, <1>2, ReplacesRules
<1> HIDE DEF New
<1>8. \A R : R \in RulesHeld' <=> (R \in RulesHeld /\ KeyOf(R) # KeyOfRule(k)) \/ R = New
  BY <1>3, <1>4, <1>5, <1>7 DEF New
<1>9. RulesHeld' = OtherRules(k) \cup {New}
  BY <1>8 DEF OtherRules
<1>10. Event' = [op |-> "OP_ADD", fam |-> k.fam, x |-> Num(k.addr), len |-> k.mask, res |-> r]
  BY EventOfSet DEF Add
<1>11. Abstract!Others(Event') = OtherRules(k) /\ Abstract!Net(Event') = NetOfAddr(k.fam, k.addr, k.mask)
  BY <1>10, OthersOfEvent
<1>12. Abstract!Add(Event')
  <2>1. /\ Event'.fam = k.fam /\ Event'.len = k.mask /\ Event'.res = r
    BY <1>10
  <2> QED BY <1>9, <1>11, <2>1 DEF Abstract!Add, New
<1>13. Event'.op = "OP_ADD"
  BY <1>10
<1> QED BY <1>6, <1>12, <1>13 DEF Abstract!Effect, d

\* A delete takes it away.
LEMMA DelImplements ==
  ASSUME IInv, IInv', Uniform(cfg), "set_all" \in Calls, NEW k \in Rules, Del(k)
  PROVE  Abstract!Effect(Event') /\ Uniform(cfg')
<1> DEFINE d == cfg'
           B == arrays'
<1>1. PICK n \in 1..MaxLevel(k.fam) : Replaces(k, n, cfg, d, {})
  BY DelReplaces
<1>2. WellFormed(cfg, arrays) /\ WellFormed(d, B)
  BY GoodState, GoodStateNext
<1>3. \A R : R \in RulesHeld <=> HeldIn(cfg, R)
  BY RulesAreHeld
<1>4. \A R : R \in RulesHeld' <=> HeldIn(d, R)
  BY RulesAreHeld
<1> HIDE DEF d, B
<1>6. Uniform(d)
  BY <1>1, <1>2, ReplacesUniform
<1>7. \A R : HeldIn(d, R) <=>
         \/ HeldIn(cfg, R) /\ KeyOf(R) # KeyOfRule(k)
         \/ \E x \in {} : R = [fam |-> k.fam, len |-> k.mask,
                              net |-> NetOfAddr(k.fam, k.addr, k.mask), res |-> x.res]
  BY <1>1, <1>2, ReplacesRules
<1>8. \A R : R \in RulesHeld' <=> R \in RulesHeld /\ KeyOf(R) # KeyOfRule(k)
  BY <1>3, <1>4, <1>7
<1>9. RulesHeld' = OtherRules(k)
  BY <1>8 DEF OtherRules
<1>10. Event' = [op |-> "OP_DEL", fam |-> k.fam, x |-> Num(k.addr), len |-> k.mask, res |-> "none"]
  BY EventOfSet DEF Del
<1>11. Abstract!Others(Event') = OtherRules(k)
  BY <1>10, OthersOfEvent
<1>12. Abstract!Del(Event')
  BY <1>9, <1>11 DEF Abstract!Del
<1>13. Event'.op = "OP_DEL"
  BY <1>10
<1> QED BY <1>6, <1>12, <1>13 DEF Abstract!Effect, d

\* A lookup returns the results of the rules its address has the prefix of, as many as fit,
\* those of higher levels first.
LEMMA MatchImplements ==
  ASSUME IInv, Uniform(cfg), NEW q \in Probes, TableMatch(q)
  PROVE  Abstract!Effect(Event')
<1> DEFINE f == q.fam
           x == q.addr
           F == Found(f, x)
           D == Delivered(F)
           out == [i \in 1..Len(D) |-> D[i].res]
           S == {R \in RulesHeld : Abstract!Covers(R, f, Num(x))}
           s == [i \in 1..Len(F) |-> RuleOn(f, x, F[i])]
<1>1. f \in Family /\ x \in Addr(f)
  BY InputsAssumption DEF Probe
<1>2. Event' = [op |-> "match", fam |-> f, x |-> Num(x), out |-> out]
  BY EventOfMatch DEF TableMatch
<1>3. RulesHeld' = RulesHeld
  BY DEF TableMatch, RulesHeld
<1>4. FoundBy(cfg, f, x, F)
  <2>1. WellFormed(cfg, arrays)
    BY GoodState
  <2>2. F = FlattenSeq(Rows(cfg, f, x))
    BY <1>1, <2>1, FoundNow, FoundIsRows
  <2> HIDE DEF F, f, x
  <2> QED BY <1>1, <2>1, <2>2, WalkFinds
<1>5. \A R : R \in S <=> R \in RulesHeld /\ R.fam = f /\ R.net = NetOfAddr(f, x, R.len)
  BY DEF Abstract!Covers, Abstract!Shift, NetOfAddr
<1> HIDE DEF f, x, F, S
<1>6. s \in SetToSeqs(S)
  BY <1>1, <1>4, <1>5, FindsTheRules
<1>7. F \in Seq(Entry) /\ Len(F) \in Nat
  BY <1>4, LenProperties DEF FoundBy
<1>8. Abstract!TierOrdered(s)
  <2>1. ASSUME NEW i \in 1..Len(F), NEW j \in 1..Len(F), i < j
        PROVE  TierOf[s[i].len] <= TierOf[s[j].len]
    <3>1. PICK n \in 1..MaxLevel(f), h \in 1..MaxLevel(f) :
            IsTerminal(n, F[i].mask) /\ IsTerminal(h, F[j].mask) /\ n <= h
      BY <1>4, <2>1 DEF FoundBy
    <3>2. F[i].mask \in Mask(IS_IPV6) /\ F[j].mask \in Mask(IS_IPV6)
      <4>1. F[i] \in Entry /\ F[j] \in Entry
        BY <1>7, ElementOfSeq
      <4> QED BY <4>1 DEF Entry
    <3>3. TierOf[F[i].mask] = n /\ TierOf[F[j].mask] = h
      BY <1>1, <3>1, <3>2, TierIsLevel
    <3>4. s[i].len = F[i].mask /\ s[j].len = F[j].mask
      BY DEF RuleOn
    <3> QED BY <3>1, <3>3, <3>4
  <2>2. DOMAIN s = 1..Len(F)
    OBVIOUS
  <2> HIDE DEF s
  <2> QED BY <2>1, <2>2 DEF Abstract!TierOrdered, TierOf
<1>9. out = [i \in {j \in DOMAIN s : j <= UTIL_LPM_MAX_MATCH} |-> s[i].res]
  <2> DEFINE l == IF Len(F) < UTIL_LPM_MAX_MATCH THEN Len(F) ELSE UTIL_LPM_MAX_MATCH
  <2>1. UTIL_LPM_MAX_MATCH \in Nat \ {0}
    BY SizesAssumption
  <2>2. l \in 0..Len(F)
    BY <1>7, <2>1
  <2>3. D = SubSeq(F, 1, l)
    BY DEF Delivered
  <2>4. {j \in DOMAIN s : j <= UTIL_LPM_MAX_MATCH} = 1..l
    BY <1>7, <2>1
  <2> HIDE DEF l, D
  <2>5. Len(D) = l /\ \A i \in 1..l : D[i] = F[i]
    BY <1>7, <2>2, <2>3
  <2>6. \A i \in 1..l : s[i].res = F[i].res
    BY <1>7, <2>2 DEF RuleOn
  <2> HIDE DEF s
  <2> QED BY <2>4, <2>5, <2>6
<1> HIDE DEF s, out
<1>10. Abstract!Match(Event')
  <2>1. Event'.fam = f /\ Event'.x = Num(x) /\ Event'.out = out
    BY <1>2
  <2>2. {k \in RulesHeld : Abstract!Covers(k, Event'.fam, Event'.x)} = S
    BY <2>1 DEF S
  <2>3. Abstract!SetToSeqs(S) = SetToSeqs(S)
    <3>1. Abstract!Cardinality(S) = Cardinality(S)
      BY DEF Abstract!Cardinality, Cardinality
    <3> QED BY <3>1 DEF Abstract!SetToSeqs, SetToSeqs
  <2>4. \E t \in Abstract!SetToSeqs({k \in RulesHeld : Abstract!Covers(k, Event'.fam, Event'.x)}) :
          /\ Abstract!TierOrdered(t)
          /\ Event'.out = [i \in {j \in DOMAIN t : j <= UTIL_LPM_MAX_MATCH} |-> t[i].res]
    BY <1>6, <1>8, <1>9, <2>1, <2>2, <2>3
  <2> QED BY <1>3, <2>4 DEF Abstract!Match
<1>11. Event'.op = "match"
  BY <1>2
<1> QED BY <1>10, <1>11 DEF Abstract!Effect

\* Empty lists hold no rules.
LEMMA EmptyHolds ==
  /\ cfg = EmptyLists => RulesHeld = {} /\ Uniform(cfg)
  /\ cfg' = EmptyLists => RulesHeld' = {} /\ Uniform(cfg')
<1>1. \A f \in Family, p \in Path : EmptyLists[f][p] = <<>> /\ Len(EmptyLists[f][p]) = 0
  BY EmptySeq DEF EmptyLists
<1>2. \A f \in Family, p \in Path : \A e : ~ Carries(EmptyLists[f][p], e)
  BY <1>1 DEF Carries
<1>3. \A R : ~ HeldIn(EmptyLists, R)
  BY <1>2 DEF HeldIn
<1>4. Uniform(EmptyLists)
  BY <1>2 DEF Uniform
<1> QED BY <1>3, <1>4, RulesAreHeld

\* Each step of the trie has the effect of its call on the rules.
LEMMA StepImplements ==
  ASSUME NoFailures, IInv, IInv', Uniform(cfg), [Next]_vars
  PROVE  [Abstract!Effect(Event')]_(Abstract!vars) /\ Uniform(cfg')
<1>1. ASSUME cfg' = cfg, Event' = Event \/ Event'.op \notin {"OP_ADD", "OP_DEL", "match", "free"}
      PROVE  [Abstract!Effect(Event')]_(Abstract!vars) /\ Uniform(cfg')
  <2>1. RulesHeld' = RulesHeld
    BY <1>1 DEF RulesHeld
  <2> QED BY <1>1, <2>1 DEF Abstract!Effect, Abstract!vars
<1>2. ASSUME NEW x, resp' = x, x.call \notin Calls, x.call # "match" PROVE Event' = [op |-> x.call]
  BY <1>2 DEF Event
<1>3. Calls \subseteq {"set_all", "update"}
  BY InputsAssumption
<1>4. CASE TableCreate
  <2>1. Event'.op = "none"
    BY <1>2, <1>3, <1>4 DEF TableCreate, NoResp
  <2> QED BY <1>1, <1>4, <2>1 DEF TableCreate
<1>5. ASSUME NEW k \in Rules, NEW r \in Results, NEW call \in Calls, Add(call, k, r)
      PROVE  Abstract!Effect(Event') /\ Uniform(cfg')
  BY <1>5, AddImplements
<1>6. ASSUME NEW k \in Rules, Del(k)
      PROVE  Abstract!Effect(Event') /\ Uniform(cfg')
  BY <1>6, DelImplements DEF NoFailures
<1>7. ASSUME NEW k \in Rules, NEW op \in Ops, BadOp(op, k)
      PROVE  [Abstract!Effect(Event')]_(Abstract!vars) /\ Uniform(cfg')
  <2>1. PICK n \in 1..MaxLevel(k.fam) :
          CutShort("set_all", op, k, "none", n, PrefixRecalc(k.addr, k.mask), {})
    BY <1>7 DEF BadOp
  <2> DEFINE v == IF n = 1 THEN -1 ELSE 0
  <2>2. resp' = Answered("set_all", op, k, "none", v)
    BY <2>1 DEF CutShort
  <2>3. Event'.op = op
    <3> HIDE DEF v
    <3>1. "set_all" \in Calls
      BY DEF NoFailures
    <3>2. Event' = [op |-> op, fam |-> k.fam, x |-> Num(k.addr), len |-> k.mask, res |-> "none"]
      BY <2>2, <3>1, EventOfSet
    <3> QED BY <3>2
  <2>4. op \notin {"OP_ADD", "OP_DEL", "match", "free"}
    BY <1>7 DEF BadOp, NoFailures
  <2>5. cfg' = cfg
    <3>1. cfg \in [Family -> [Path -> Seq(Entry)]]
      BY DEF IInv, TypeOK
    <3>2. k.fam \in Family
      BY RuleFacts
    <3>3. cfg' = cfg \/ cfg' = [cfg EXCEPT ![k.fam] = [p \in Path |->
                         IF p \in {} THEN AddEntry(cfg[k.fam][p], [mask |-> k.mask, res |-> "none"])
                                     ELSE cfg[k.fam][p]]]
      BY <2>1 DEF CutShort
    <3>4. [p \in Path |-> IF p \in {} THEN AddEntry(cfg[k.fam][p], [mask |-> k.mask, res |-> "none"])
                                      ELSE cfg[k.fam][p]] = cfg[k.fam]
      BY <3>1, <3>2
    <3> QED BY <3>1, <3>2, <3>3, <3>4
  <2> QED BY <1>1, <2>3, <2>4, <2>5
<1>8. ASSUME NEW op, UpdateRefused(op)
      PROVE  [Abstract!Effect(Event')]_(Abstract!vars) /\ Uniform(cfg')
  <2>1. Event'.op = "refused"
    <3>1. resp'.call = "refused"
      BY <1>8 DEF UpdateRefused
    <3>2. Event' = [op |-> "refused"]
      BY <1>3, <3>1 DEF Event
    <3> QED BY <3>2
  <2> QED BY <1>1, <1>8, <2>1 DEF UpdateRefused
<1>9. ASSUME NEW q \in Probes, TableMatch(q)
      PROVE  Abstract!Effect(Event') /\ Uniform(cfg')
  BY <1>9, MatchImplements DEF TableMatch
<1>10. CASE TableFree
  <2>1. Event' = [op |-> "free"]
    BY <1>2, <1>3, <1>10 DEF TableFree
  <2>2. RulesHeld' = {} /\ Uniform(cfg')
    BY <1>10, EmptyHolds DEF TableFree
  <2> QED BY <2>1, <2>2 DEF Abstract!Effect
<1>11. CASE UNCHANGED vars
  <2>1. Event' = Event
    BY <1>11 DEF vars, Event
  <2> QED BY <1>1, <1>11, <2>1 DEF vars
<1>12. CASE Next
  <2>1. MallocMayFail = FALSE
    BY DEF NoFailures
  <2>2. CASE SetCall
    <3>1. PICK k \in Rules :
            \/ \E r \in Results, call \in Calls :
                 ("OP_ADD" \in Ops /\ Add(call, k, r)) \/ AddEntryFails(call, k, r)
            \/ "OP_DEL" \in Ops /\ Del(k)
            \/ \E op \in Ops : BadOp(op, k)
            \/ ArrayCrashes(k)
      BY <2>2 DEF SetCall
    <3>2. ~ ArrayCrashes(k) /\ \A call, r : ~ AddEntryFails(call, k, r)
      BY <2>1 DEF ArrayCrashes, AddEntryFails
    <3> QED BY <1>5, <1>6, <1>7, <3>1, <3>2
  <2>3. ~ TableCreateCrashes
    BY <2>1 DEF TableCreateCrashes
  <2> QED BY <1>4, <1>8, <1>9, <1>10, <1>12, <2>2, <2>3 DEF Next
<1> QED BY <1>11, <1>12

\* The nodes of each prefix are alike.
NodesAlike == Uniform(cfg)

\* The trie is the set of prefix rules: without allocation failures every set call replaces
\* or removes one rule, and every lookup returns the results of the rules that cover its
\* address, once each, those of higher levels first, as many as the result array takes.
\* A bad op, a refused update and a free change the rules as LpmRules says, too.
THEOREM TrieImplementsRules == ASSUME NoFailures PROVE Spec => RefinesRules
<1>1. Init => Abstract!Init /\ NodesAlike
  <2> SUFFICES ASSUME Init PROVE Abstract!Init /\ NodesAlike
    OBVIOUS
  <2>1. RulesHeld = {} /\ Uniform(cfg)
    BY EmptyHolds DEF Init
  <2>2. resp.call = "none"
    BY DEF Init, NoResp
  <2>3. Event = [op |-> "none"]
    BY <2>2, InputsAssumption DEF Event
  <2> QED BY <2>1, <2>3 DEF Abstract!Init, NodesAlike
<1>2. Init => IInv
  BY InitIsGood
<1>3. IInv /\ [Next]_vars => IInv'
  BY StepIsGood
<1>4. IInv /\ IInv' /\ NodesAlike /\ [Next]_vars => [Abstract!Effect(Event')]_(Abstract!vars) /\ NodesAlike'
  BY StepImplements DEF NodesAlike
<1> QED
  BY <1>1, <1>2, <1>3, <1>4, PTL DEF Spec, RefinesRules, Abstract!Spec

(***************************************************************************)
(* What the dump prints.                                                   *)
(***************************************************************************)

\* dns_lpm_print reaches every array there is.
LEMMA LinkedIsArrays == IInv => Linked = arrays
BY DEF IInv, Structure, ArraysLinked, Linked

\* A node of the first level is one byte.
LEMMA FirstLevelNode ==
  ASSUME NEW q \in Path, Len(q) = 1
  PROVE  /\ Front(q) = <<>> /\ Last(q) = q[1] /\ q[1] \in Byte /\ q = <<q[1]>>
         /\ \A b : Append(Front(q), b) = <<b>>
<1>1. PICK n \in 1..MAX_LEVEL_IPV6 : q \in [1..n -> Byte]
  BY DEF Path
<1>2. n = 1
  <2>1. n \in Nat
    BY SizesAssumption
  <2>2. Len(q) = n
    BY <1>1, <2>1
  <2> QED BY <2>2
<1>3. q \in [1..1 -> Byte]
  BY <1>1, <1>2
<1>8. q[1] \in Byte /\ q \in Seq(Byte)
  <2>1. n \in Nat
    BY <1>2
  <2>2. q \in Seq(Byte)
    BY <1>1, <2>1
  <2>3. q[1] \in Byte
    BY <2>2, ElementOfSeq
  <2> QED BY <2>2, <2>3
<1>4. q = <<q[1]>>
  BY <1>3, <1>8
<1>5. Front(q) = <<>>
  BY <1>8 DEF Front
<1>6. Last(q) = q[1]
  BY DEF Last
<1>7. \A b : Append(Front(q), b) = <<b>>
  BY <1>5
<1> QED BY <1>8, <1>4, <1>5, <1>6, <1>7

\* Every byte is one.
LEMMA ByteIsNode ==
  ASSUME NEW b \in Byte
  PROVE  <<b>> \in Path /\ Len(<<b>>) = 1 /\ <<b>>[1] = b
<1>1. 1 \in 1..MAX_LEVEL_IPV6
  BY SizesAssumption
<1>2. <<b>> \in [1..1 -> Byte]
  OBVIOUS
<1> QED BY <1>1, <1>2 DEF Path

\* Mask 0 ends in the first level.
LEMMA DefaultLevel ==
  ASSUME NEW f \in Family
  PROVE  1 \in 1..MaxLevel(f) /\ 0 \in Mask(f) /\ IsTerminal(1, 0) /\ 0 \in Mask(IS_IPV6)
<1>1. 1 \in 1..MaxLevel(f) /\ STRIDE \in Nat /\ MaxLevel(f) \in Nat /\ MaxLevel(IS_IPV6) \in Nat
  BY Levels, SizesAssumption DEF Family
<1>2. STRIDE * MaxLevel(f) \in Nat /\ STRIDE * MaxLevel(IS_IPV6) \in Nat
  BY <1>1
<1> QED BY <1>1, <1>2 DEF Mask, IsTerminal

\* The nodes of the first level have the same prefix of mask 0.
LEMMA OneDefaultPrefix ==
  ASSUME NEW f \in Family, NEW p \in Path, NEW q \in Path, Len(p) = 1, Len(q) = 1
  PROVE  NetOf(p, 0) = NetOf(q, 0)
<1>2. 1 \in 1..MaxLevel(f) /\ 0 \in Mask(f) /\ IsTerminal(1, 0)
  BY DefaultLevel
<1>3. Len(q) <= MaxLevel(f) /\ Len(p) <= MaxLevel(f)
  BY Levels
<1>4. PICK x \in Addr(f) : SubSeq(x, 1, Len(q)) = q
  BY <1>3, AddrOfNode
<1>5. PICK y \in Addr(f) : SubSeq(y, 1, Len(p)) = p
  BY <1>3, AddrOfNode
<1>6. NetOf(q, 0) = NetOfAddr(f, x, 0) /\ NetOf(p, 0) = NetOfAddr(f, y, 0)
  <2>1. q = SubSeq(x, 1, 1) /\ p = SubSeq(y, 1, 1)
    BY <1>4, <1>5
  <2>2. NetOf(SubSeq(x, 1, 1), 0) = NetOfAddr(f, x, 0) /\ NetOf(SubSeq(y, 1, 1), 0) = NetOfAddr(f, y, 0)
    BY <1>2, NetOfNode
  <2> QED BY <2>1, <2>2
<1>7. NetOfAddr(f, x, 0) = NetOfAddr(f, y, 0) <=> SharePrefix(x, y, 1, 0)
  BY <1>2, CoveredDigits DEF NetOfAddr
<1>8. SharePrefix(x, y, 1, 0)
  <2>1. Behind(1, 0) = STRIDE /\ 2^STRIDE = Base /\ Base \in Nat \ {0}
    BY SizesAssumption, BaseIsPower DEF Behind
  <2>2. x[1] \in 0..(Base - 1) /\ y[1] \in 0..(Base - 1)
    BY <1>2, HighStep
  <2>3. x[1] \div Base = 0 /\ y[1] \div Base = 0
    <3> DEFINE d == Base
    <3>1. d \in Nat \ {0} /\ x[1] \in 0..(d - 1) /\ y[1] \in 0..(d - 1)
      BY <2>1, <2>2
    <3> HIDE DEF d
    <3>2. x[1] \div d = 0 /\ y[1] \div d = 0
      <4>1. \A v \in 0..(d - 1) : (0 * d + v) \div d = 0 /\ 0 * d + v = v
        BY <3>1, DivIs
      <4> QED BY <3>1, <4>1
    <3> QED BY <3>2 DEF d
  <2> QED BY <2>1, <2>3 DEF SharePrefix
<1> QED BY <1>6, <1>7, <1>8

\* A node that carries an entry of mask 0 is of the first level, and there all carry it.
LEMMA DefaultEverywhere ==
  ASSUME IInv, Uniform(cfg), NEW f \in Family, NEW q \in Path, NEW e, Carries(cfg[f][q], e), e.mask = 0
  PROVE  /\ Len(q) = 1
         /\ \A p \in Path : Len(p) = 1 => Carries(cfg[f][p], e)
<1>1. WellFormed(cfg, arrays)
  BY GoodState
<1>2. 1 \in 1..MaxLevel(f) /\ 0 \in Mask(f) /\ IsTerminal(1, 0)
  BY DefaultLevel
<1>3. Len(q) = 1
  <2>1. Len(q) \in 1..MaxLevel(f) /\ IsTerminal(Len(q), e.mask)
    BY <1>1, CarriedEntry
  <2>2. Len(q) \in Nat \ {0} /\ 1 \in Nat \ {0} /\ 0 \in Nat /\ IsTerminal(Len(q), 0)
    BY <2>1, Levels
  <2> QED BY <1>2, <2>2, OneLevel
<1>4. ASSUME NEW p \in Path, Len(p) = 1 PROVE Carries(cfg[f][p], e)
  <2>1. NetOf(p, 0) = NetOf(q, 0)
    BY <1>3, <1>4, OneDefaultPrefix
  <2> QED BY <1>3, <1>4, <2>1 DEF Uniform
<1> QED BY <1>3, <1>4

\* The lines of the dump are the entries of the nodes, but for those of mask 0 behind the
\* first of their array.
LEMMA DumpLines ==
  ASSUME IInv, NEW f \in Family
  PROVE  \A l : l \in Dump(f) <=>
           \E q \in Path : \E e :
             /\ Carries(cfg[f][q], e)
             /\ e.mask = 0 => ~ DefaultPrinted(f, q)
             /\ l = [node |-> q, mask |-> e.mask, res |-> e.res]
<1>1. \A l : l \in Dump(f) <=>
        \E q \in Path : \E i \in 1..Len(cfg[f][q]) :
          /\ Front(q) \in Linked /\ Len(q) <= MaxLevel(f)
          /\ cfg[f][q][i].mask = 0 => ~ DefaultPrinted(f, q)
          /\ l = [node |-> q, mask |-> cfg[f][q][i].mask, res |-> cfg[f][q][i].res]
  BY DEF Dump
<1>2. WellFormed(cfg, arrays)
  BY GoodState
<1>3. ASSUME NEW q \in Path, NEW i \in 1..Len(cfg[f][q])
      PROVE  Front(q) \in Linked /\ Len(q) <= MaxLevel(f)
  <2>1. cfg[f][q] # <<>>
    BY <1>3, EmptySeq
  <2> QED BY <1>2, <1>3, <2>1, LinkedIsArrays DEF WellFormed, Lists
<1>4. ASSUME NEW l PROVE l \in Dump(f) <=>
        \E q \in Path : \E i \in 1..Len(cfg[f][q]) :
          /\ cfg[f][q][i].mask = 0 => ~ DefaultPrinted(f, q)
          /\ l = [node |-> q, mask |-> cfg[f][q][i].mask, res |-> cfg[f][q][i].res]
  BY <1>1, <1>3
<1> QED BY <1>4 DEF Carries

\* The default rule's line is that of the first node.
LEMMA DefaultLine ==
  ASSUME IInv, Uniform(cfg), NEW f \in Family, NEW q \in Path, NEW e, Carries(cfg[f][q], e), e.mask = 0
  PROVE  /\ DefaultPrinted(f, q) <=> q # <<0>>
         /\ <<0>> \in Path /\ Carries(cfg[f][<<0>>], e)
<1>1. Len(q) = 1 /\ \A p \in Path : Len(p) = 1 => Carries(cfg[f][p], e)
  BY DefaultEverywhere
<1>2. /\ Front(q) = <<>> /\ Last(q) = q[1] /\ q[1] \in Byte /\ q = <<q[1]>>
      /\ \A b : Append(Front(q), b) = <<b>>
  BY <1>1, FirstLevelNode
<1>3. MAX_INDEX \in Nat /\ 0 \in Byte
  BY BaseIsPower DEF Byte
<1>4. \A b \in Byte : <<b>> \in Path /\ Len(<<b>>) = 1 /\ <<b>>[1] = b
  BY ByteIsNode
<1>5. <<0>> \in Path /\ Carries(cfg[f][<<0>>], e)
  BY <1>1, <1>3, <1>4
<1>6. DefaultPrinted(f, q) <=> \E x \in 0..(q[1] - 1) : HasMask(cfg[f][<<x>>], 0)
  BY <1>2 DEF DefaultPrinted, Holds
<1>7. HasMask(cfg[f][<<0>>], 0)
  BY <1>5 DEF Carries, HasMask
<1>8. q[1] \in Nat
  BY <1>2, <1>3 DEF Byte
<1>9. CASE q[1] = 0
  <2>1. 0..(q[1] - 1) = {}
    BY <1>9
  <2> QED BY <1>2, <1>5, <1>6, <1>9, <2>1
<1>10. CASE q[1] # 0
  <2>1. 0 \in 0..(q[1] - 1)
    BY <1>8, <1>10
  <2>2. q # <<0>>
    BY <1>3, <1>4, <1>10
  <2> QED BY <1>5, <1>6, <1>7, <2>1, <2>2
<1> QED BY <1>9, <1>10

\* An entry is its mask and its result.
LEMMA EntryParts == \A e \in Entry : [mask |-> e.mask, res |-> e.res] = e
BY DEF Entry

\* A lookup finds what the dump prints for the nodes on its way, and the default rule.
LEMMA DumpAgrees ==
  ASSUME IInv, Uniform(cfg), NEW f \in Family, NEW x \in Addr(f),
         NEW own, own = {l \in Dump(f) : l.mask # 0 /\ l.node = SubSeq(x, 1, Len(l.node))},
         NEW dflt, dflt = {l \in Dump(f) : l.mask = 0}
  PROVE  /\ {[mask |-> l.mask, res |-> l.res] : l \in own \cup dflt} = ToSet(Found(f, x))
         /\ Cardinality(dflt) <= 1
<1> DEFINE F == Found(f, x)
           Line(q, e) == [node |-> q, mask |-> e.mask, res |-> e.res]
<1>1. WellFormed(cfg, arrays)
  BY GoodState
<1>2. FoundBy(cfg, f, x, F)
  <2>1. F = FlattenSeq(Rows(cfg, f, x))
    BY <1>1, FoundNow, FoundIsRows
  <2> HIDE DEF F
  <2> QED BY <1>1, <2>1, WalkFinds
<1> HIDE DEF F
<1>3. \A e : e \in ToSet(F) <=> Carries(F, e)
  <2>1. F \in Seq(Entry) /\ DOMAIN F = 1..Len(F)
    BY <1>2 DEF FoundBy
  <2> QED BY <2>1 DEF ToSet, Carries
<1>4. \A l : l \in Dump(f) <=>
        \E q \in Path : \E e :
          /\ Carries(cfg[f][q], e)
          /\ e.mask = 0 => ~ DefaultPrinted(f, q)
          /\ l = Line(q, e)
  BY DumpLines
<1>5. \A q, e : Line(q, e).node = q /\ Line(q, e).mask = e.mask /\ Line(q, e).res = e.res
  OBVIOUS
<1>11. \A q \in Path : \A e : Carries(cfg[f][q], e) => e \in Entry /\ [mask |-> e.mask, res |-> e.res] = e
  BY <1>1, CarriedEntry, EntryParts
<1> HIDE DEF Line
<1>6. ASSUME NEW l \in own PROVE Carries(F, [mask |-> l.mask, res |-> l.res])
  <2>1a. PICK q \in Path : \E e : Carries(cfg[f][q], e) /\ l = Line(q, e)
    BY <1>4
  <2>1. PICK e : Carries(cfg[f][q], e) /\ l = Line(q, e)
    BY <2>1a
  <2>2. q = SubSeq(x, 1, Len(q))
    BY <1>5, <2>1
  <2>3. Len(q) \in 1..MaxLevel(f)
    BY <1>1, <2>1, CarriedEntry
  <2>4. Carries(F, e)
    BY <1>2, <2>1, <2>2, <2>3 DEF FoundBy
  <2>5. [mask |-> l.mask, res |-> l.res] = e
    BY <1>5, <1>11, <2>1
  <2> QED BY <2>4, <2>5
<1>7. ASSUME NEW l \in dflt PROVE Carries(F, [mask |-> l.mask, res |-> l.res]) /\ l.node = <<0>>
  <2>1a. PICK q \in Path : \E e : Carries(cfg[f][q], e) /\ l = Line(q, e) /\ (e.mask = 0 => ~ DefaultPrinted(f, q))
    BY <1>4
  <2>1. PICK e : Carries(cfg[f][q], e) /\ l = Line(q, e) /\ (e.mask = 0 => ~ DefaultPrinted(f, q))
    BY <2>1a
  <2>2. e.mask = 0
    BY <1>5, <2>1
  <2>3. SubSeq(x, 1, 1) \in Path /\ Len(SubSeq(x, 1, 1)) = 1 /\ 1 \in 1..MaxLevel(f)
    BY DefaultLevel, NodeOfAddr
  <2>4. Carries(cfg[f][SubSeq(x, 1, 1)], e)
    BY <2>1, <2>2, <2>3, DefaultEverywhere
  <2>5. Carries(F, e)
    BY <1>2, <2>3, <2>4 DEF FoundBy
  <2>6. q = <<0>>
    BY <2>1, <2>2, DefaultLine
  <2>7. [mask |-> l.mask, res |-> l.res] = e
    BY <1>5, <1>11, <2>1
  <2> QED BY <1>5, <2>1, <2>5, <2>6, <2>7
<1>8. ASSUME NEW e, Carries(F, e) PROVE \E l \in own \cup dflt : e = [mask |-> l.mask, res |-> l.res]
  <2>0. PICK i \in 1..Len(F) : F[i] = e
    BY <1>8 DEF Carries
  <2>1. PICK n \in 1..MaxLevel(f) : Carries(cfg[f][SubSeq(x, 1, n)], e)
    BY <1>2, <2>0 DEF FoundBy
  <2> DEFINE q == SubSeq(x, 1, n)
  <2>2. q \in Path /\ Len(q) = n /\ Carries(cfg[f][q], e)
    BY <2>1, NodeOfAddr
  <2>3. q = SubSeq(x, 1, Len(q))
    BY <2>2
  <2> HIDE DEF q
  <2>4. e = [mask |-> e.mask, res |-> e.res]
    BY <1>11, <2>2
  <2>5. CASE e.mask # 0
    <3>1. Line(q, e) \in Dump(f)
      BY <1>4, <2>2, <2>5
    <3>2. Line(q, e) \in own
      BY <1>5, <2>3, <2>5, <3>1
    <3> QED BY <1>5, <2>4, <3>2
  <2>6. CASE e.mask = 0
    <3>1. <<0>> \in Path /\ Carries(cfg[f][<<0>>], e)
      BY <2>2, <2>6, DefaultLine
    <3>2. ~ DefaultPrinted(f, <<0>>)
      BY <2>6, <3>1, DefaultLine
    <3>3. Line(<<0>>, e) \in Dump(f)
      BY <1>4, <3>1, <3>2
    <3>4. Line(<<0>>, e) \in dflt
      BY <1>5, <2>6, <3>3
    <3> QED BY <1>5, <2>4, <3>4
  <2> QED BY <2>5, <2>6
<1>9. {[mask |-> l.mask, res |-> l.res] : l \in own \cup dflt} = ToSet(F)
  BY <1>3, <1>6, <1>7, <1>8
<1>10. Cardinality(dflt) <= 1
  <2>1. ASSUME NEW l \in dflt, NEW h \in dflt PROVE l = h
    <3>1a. PICK q \in Path : \E e : Carries(cfg[f][q], e) /\ l = Line(q, e)
      BY <1>4
    <3>1. PICK e : Carries(cfg[f][q], e) /\ l = Line(q, e)
      BY <3>1a
    <3>2a. PICK p \in Path : \E d : Carries(cfg[f][p], d) /\ h = Line(p, d)
      BY <1>4
    <3>2. PICK d : Carries(cfg[f][p], d) /\ h = Line(p, d)
      BY <3>2a
    <3>3. q = <<0>> /\ p = <<0>> /\ e.mask = 0 /\ d.mask = 0
      BY <1>5, <1>7, <3>1, <3>2
    <3>4. Unique(cfg[f][q])
      BY <1>1 DEF WellFormed, Lists
    <3>5. e = d
      BY <3>1, <3>2, <3>3, <3>4 DEF Unique, Carries
    <3> QED BY <3>1, <3>2, <3>3, <3>5
  <2>2. CASE dflt = {}
    <3>1. Cardinality(dflt) = 0
      BY <2>2, FS_EmptySet
    <3> QED BY <3>1
  <2>3. CASE dflt # {}
    <3>1. PICK l : l \in dflt
      BY <2>3
    <3>2. dflt = {l}
      BY <2>1, <3>1
    <3>3. Cardinality(dflt) = 1
      BY <3>2, FS_Singleton
    <3> QED BY <3>3
  <2> QED BY <2>2, <2>3
<1> QED BY <1>9, <1>10 DEF F

\* Without failures the trie keeps, besides its shape, the nodes of each prefix alike.
LEMMA AlikeForever == ASSUME NoFailures PROVE Spec => [](IInv /\ NodesAlike)
<1>1. Init => IInv /\ NodesAlike
  <2>1. Init => IInv
    BY InitIsGood
  <2>2. Init => NodesAlike
    BY EmptyHolds DEF Init, NodesAlike
  <2> QED BY <2>1, <2>2
<1>2. IInv /\ NodesAlike /\ [Next]_vars => IInv' /\ NodesAlike'
  BY StepIsGood, StepImplements DEF NodesAlike
<1> QED BY <1>1, <1>2, PTL DEF Spec

\* Without allocation failures the dump and the lookups agree at any time: an address finds
\* exactly the lines printed for the nodes on its way and the default rule of its family,
\* which is printed once although every node of the root array carries it.
THEOREM DumpAndLookupsAgree == ASSUME NoFailures PROVE Spec => []DumpAgreesWithLookups
<1>1. IInv /\ NodesAlike => DumpAgreesWithLookups
  BY DumpAgrees DEF NodesAlike, DumpAgreesWithLookups
<1> QED BY <1>1, AlikeForever, PTL

(***************************************************************************)
(* What the query prints.                                                  *)
(***************************************************************************)

\* Equal multiples of a number.
LEMMA TimesCancels ==
  ASSUME NEW E \in Nat \ {0}, NEW u \in Nat, NEW v \in Nat
  PROVE  E * u = E * v <=> u = v
<1>1. (u * E + 0) \div E = u /\ (v * E + 0) \div E = v
  BY DivIs
<1>2. u * E + 0 = E * u /\ v * E + 0 = E * v
  OBVIOUS
<1> QED BY <1>1, <1>2

\* Addresses share a prefix when recalculating makes their first bytes equal.
LEMMA RecalcAgrees ==
  ASSUME NEW f \in Family, NEW x \in Addr(f), NEW a \in Addr(f),
         NEW n \in 1..MaxLevel(f), NEW m \in Mask(f), IsTerminal(n, m)
  PROVE  SharePrefix(x, a, n, m) <=> \A i \in 1..n : PrefixRecalc(x, m)[i] = PrefixRecalc(a, m)[i]
<1> DEFINE E == 2^Behind(n, m)
           b == PrefixRecalc(a, m)
           y == PrefixRecalc(x, m)
           u == SubSeq(a, 1, n - 1)
           w == SubSeq(x, 1, n - 1)
<1>1. E \in Nat \ {0} /\ n \in Nat \ {0} /\ n - 1 \in 0..MaxLevel(f)
  BY PartsOfByte, Levels
<1>2. \A i \in 1..(n - 1) : y[i] = x[i] /\ b[i] = a[i]
  BY RecalcDigits
<1>3. y[n] = E * (x[n] \div E) /\ b[n] = E * (a[n] \div E)
  BY RecalcDigits
<1>4. u = w <=> \A i \in 1..(n - 1) : x[i] = a[i]
  <2>1. /\ u \in Seq(Byte) /\ Len(u) = n - 1 /\ \A i \in 1..(n - 1) : u[i] = a[i]
        /\ w \in Seq(Byte) /\ Len(w) = n - 1 /\ \A i \in 1..(n - 1) : w[i] = x[i]
    BY <1>1, FirstBytes
  <2> HIDE DEF u, w
  <2> QED BY <2>1, SeqEqual
<1>5. y[n] = b[n] <=> x[n] \div E = a[n] \div E
  <2>1. a[n] \in Nat /\ x[n] \in Nat
    BY HighStep, BaseIsPower DEF Base
  <2>2. x[n] \div E \in Nat /\ a[n] \div E \in Nat
    BY <1>1, <2>1, DivMod
  <2> QED BY <1>1, <1>3, <2>2, TimesCancels
<1> HIDE DEF y, b, E, u, w
<1>6. (\A i \in 1..n : y[i] = b[i]) <=> (\A i \in 1..(n - 1) : y[i] = b[i]) /\ y[n] = b[n]
  BY <1>1
<1>7. (\A i \in 1..n : y[i] = b[i]) <=> w = u /\ x[n] \div E = a[n] \div E
  BY <1>2, <1>4, <1>5, <1>6
<1> QED BY <1>7 DEF SharePrefix, y, b, E, u, w

\* Recalculating twice is recalculating once.
LEMMA RecalcTwice ==
  ASSUME NEW f \in Family, NEW a \in Addr(f), NEW n \in 1..MaxLevel(f), NEW m \in Mask(f), IsTerminal(n, m)
  PROVE  \A i \in 1..n : PrefixRecalc(PrefixRecalc(a, m), m)[i] = PrefixRecalc(a, m)[i]
<1> DEFINE E == 2^Behind(n, m)
           b == PrefixRecalc(a, m)
           d == PrefixRecalc(b, m)
           t == a[n] \div E
<1>1. E \in Nat \ {0} /\ n \in Nat \ {0} /\ b \in Addr(f)
  BY PartsOfByte, Levels, RecalcIsAddr
<1>2. b[n] = E * t
  BY RecalcDigits
<1>3. (\A i \in 1..(n - 1) : d[i] = b[i]) /\ d[n] = E * (b[n] \div E)
  <2> HIDE DEF b
  <2> QED BY <1>1, RecalcDigits
<1>4. t \in Nat
  <2>1. a[n] \in Nat
    BY HighStep, BaseIsPower DEF Base
  <2> QED BY <1>1, <2>1, DivMod
<1> HIDE DEF E, b, d, t
<1>5. b[n] \div E = t
  <2>1. (t * E + 0) \div E = t
    BY <1>1, <1>4, DivIs
  <2>2. t * E + 0 = b[n]
    BY <1>1, <1>2, <1>4
  <2> QED BY <2>1, <2>2
<1>6. d[n] = b[n]
  BY <1>2, <1>3, <1>5
<1>7. \A i \in 1..n : d[i] = b[i]
  BY <1>1, <1>3, <1>6
<1> QED BY <1>7 DEF b, d

\* k is a rule with its address recalculated, as a set call leaves the caller's ip_any_t.
Recalculated(k) == \E h \in Rules : k = [h EXCEPT !.addr = PrefixRecalc(h.addr, h.mask)]

\* The query for such a rule looks at the nodes of its prefix, which are those of the dump
\* whose path recalculates to the rule's address.
LEMMA QueryLooksAt ==
  ASSUME NEW k, Recalculated(k), NEW n \in 1..MaxLevel(k.fam), IsTerminal(n, k.mask), NEW q
  PROVE  /\ q \in QueryNodes(k, n) =>
              q \in Path /\ Len(q) = n /\ Front(q) = SubSeq(k.addr, 1, n - 1)
         /\ q \in Path /\ Len(q) = n =>
              /\ q \in QueryNodes(k, n) <=> NetOf(q, k.mask) = NetOfAddr(k.fam, k.addr, k.mask)
              /\ q \in QueryNodes(k, n) <=> \A i \in 1..Len(q) : PrefixRecalc(q, k.mask)[i] = k.addr[i]
<1> DEFINE f == k.fam
           m == k.mask
           b == k.addr
           T == Targets(n, b, m)
<1>0. PICK h \in Rules : k = [h EXCEPT !.addr = PrefixRecalc(h.addr, h.mask)]
  BY DEF Recalculated
<1> DEFINE a == h.addr
<1>1. f = h.fam /\ m = h.mask /\ b = PrefixRecalc(a, m) /\ f \in Family /\ m \in Mask(f) /\ a \in Addr(f) /\ b \in Addr(f)
  <2>1. h \in IpAny
    BY InputsAssumption
  <2>2. k.fam = h.fam /\ k.mask = h.mask /\ k.addr = PrefixRecalc(h.addr, h.mask)
    BY <1>0, <2>1 DEF IpAny
  <2> QED BY <2>2, RuleFacts
<1>2. QueryNodes(k, n) = T
  BY DEF QueryNodes, Targets
<1>3. n \in 1..MaxLevel(f) /\ IsTerminal(n, m)
  OBVIOUS
<1> HIDE DEF f, m, b, a
<1>4. q \in T => q \in Path /\ Len(q) = n /\ Front(q) = SubSeq(b, 1, n - 1)
  BY <1>1, <1>3, TargetsAreNodes
<1>5. NetOfAddr(f, b, m) = NetOfAddr(f, a, m)
  <2>1. \A i \in 1..n : PrefixRecalc(b, m)[i] = PrefixRecalc(a, m)[i]
    BY <1>1, <1>3, RecalcTwice
  <2>2. SharePrefix(b, a, n, m)
    BY <1>1, <1>3, <2>1, RecalcAgrees
  <2> QED BY <1>1, <1>3, <2>2, CoveredDigits DEF NetOfAddr
<1>6. ASSUME q \in Path, Len(q) = n
      PROVE  /\ q \in T <=> NetOf(q, m) = NetOfAddr(f, b, m)
             /\ q \in T <=> \A i \in 1..Len(q) : PrefixRecalc(q, m)[i] = b[i]
  <2>1. q \in T <=> NetOf(q, m) = NetOfAddr(f, a, m)
    BY <1>1, <1>3, <1>6, NodesOfRule
  <2>2. Len(q) <= MaxLevel(f)
    BY <1>1, <1>3, <1>6, Levels
  <2>3. PICK x \in Addr(f) : SubSeq(x, 1, Len(q)) = q
    BY <1>1, <1>6, <2>2, AddrOfNode
  <2>4. q = SubSeq(x, 1, n)
    BY <1>6, <2>3
  <2>5. q \in T <=> SharePrefix(x, a, n, m)
    BY <1>1, <1>3, <2>4, TargetDigits
  <2>6. SharePrefix(x, a, n, m) <=> \A i \in 1..n : PrefixRecalc(x, m)[i] = b[i]
    BY <1>1, <1>3, RecalcAgrees
  <2>7. \A i \in 1..n : PrefixRecalc(x, m)[i] = PrefixRecalc(q, m)[i]
    <3>1. \A i \in 1..n : q[i] = x[i]
      BY <1>1, <1>3, <2>4, NodeOfAddr
    <3>2. DOMAIN q = 1..n /\ DOMAIN x = 1..MaxLevel(f) /\ 1..n \subseteq 1..MaxLevel(f)
      <4>1. \E i \in 1..MAX_LEVEL_IPV6 : q \in [1..i -> Byte]
        BY <1>6 DEF Path
      <4>2. DOMAIN q = 1..n
        BY <1>6, <4>1, SizesAssumption
      <4> QED BY <1>1, <1>3, <4>2, Levels DEF Addr
    <3> QED BY <3>1, <3>2 DEF PrefixRecalc
  <2> QED BY <1>5, <1>6, <2>1, <2>5, <2>6, <2>7
<1> QED BY <1>2, <1>4, <1>6 DEF f, m, b

\* The query suppresses a default line where the dump does.
LEMMA QuerySuppresses ==
  ASSUME NEW k, Recalculated(k), NEW n \in 1..MaxLevel(k.fam), IsTerminal(n, k.mask), k.mask = 0,
         NEW q \in QueryNodes(k, n)
  PROVE  (\E p \in QueryNodes(k, n) : Last(p) < Last(q) /\ Holds(k.fam, p, 0)) <=> DefaultPrinted(k.fam, q)
<1> DEFINE f == k.fam
           Q == QueryNodes(k, n)
<1>0. f \in Family
  <2>1. PICK h \in Rules : k = [h EXCEPT !.addr = PrefixRecalc(h.addr, h.mask)]
    BY DEF Recalculated
  <2>2. h \in IpAny
    BY InputsAssumption
  <2>3. k.fam = h.fam
    BY <2>1, <2>2 DEF IpAny
  <2> QED BY <2>3, RuleFacts
<1>1. n = 1
  <2>1. n \in Nat \ {0} /\ 1 \in Nat \ {0} /\ 0 \in Nat /\ IsTerminal(n, 0)
    BY <1>0, Levels
  <2> QED BY <1>0, <2>1, DefaultLevel, OneLevel
<1>2. ASSUME NEW p \in Q
      PROVE  /\ p \in Path /\ Len(p) = 1
             /\ Last(p) = p[1] /\ p[1] \in Byte /\ p = <<p[1]>> /\ \A b : Append(Front(p), b) = <<b>>
  <2>0. p \in QueryNodes(k, n)
    BY <1>2
  <2>3. p \in Path /\ Len(p) = n
    BY <2>0, QueryLooksAt
  <2>1. p \in Path /\ Len(p) = 1
    BY <1>1, <2>3
  <2> QED BY <2>1, FirstLevelNode
<1>3. ASSUME NEW b \in Byte
      PROVE  <<b>> \in Q /\ Last(<<b>>) = b
  <2> DEFINE p == <<b>>
  <2>1. p \in Path /\ Len(p) = 1 /\ p[1] = b
    BY ByteIsNode
  <2> HIDE DEF p
  <2>2. NetOf(p, 0) = NetOf(q, 0)
    BY <1>0, <1>2, <2>1, OneDefaultPrefix
  <2>3. q \in Path /\ Len(q) = n /\ p \in Path /\ Len(p) = n
    BY <1>1, <1>2, <2>1
  <2>4. NetOf(q, k.mask) = NetOfAddr(k.fam, k.addr, k.mask)
    BY <2>3, QueryLooksAt
  <2>5. NetOf(p, k.mask) = NetOfAddr(k.fam, k.addr, k.mask)
    BY <2>2, <2>4
  <2>6. p \in QueryNodes(k, n)
    BY <2>3, <2>5, QueryLooksAt
  <2>7. Last(p) = b
    BY <2>1, FirstLevelNode
  <2> QED BY <2>6, <2>7 DEF p
<1>4. DefaultPrinted(f, q) <=> \E x \in 0..(q[1] - 1) : Holds(f, <<x>>, 0)
  BY <1>2 DEF DefaultPrinted
<1>5. MAX_INDEX \in Nat /\ q[1] \in 0..MAX_INDEX /\ Last(q) = q[1]
  BY <1>2, BaseIsPower DEF Byte
<1>6. ASSUME NEW p \in Q, Last(p) < Last(q), Holds(f, p, 0) PROVE DefaultPrinted(f, q)
  <2>1. p[1] \in 0..MAX_INDEX /\ p[1] < q[1] /\ Holds(f, <<p[1]>>, 0)
    BY <1>2, <1>5, <1>6 DEF Byte
  <2>2. p[1] \in 0..(q[1] - 1)
    BY <1>5, <2>1
  <2> QED BY <1>4, <2>1, <2>2
<1>7. ASSUME DefaultPrinted(f, q) PROVE \E p \in Q : Last(p) < Last(q) /\ Holds(f, p, 0)
  <2>1. PICK x \in 0..(q[1] - 1) : Holds(f, <<x>>, 0)
    BY <1>4, <1>7
  <2>2. x \in Byte /\ x < q[1]
    BY <1>5, <2>1 DEF Byte
  <2> QED BY <1>3, <1>5, <2>1, <2>2
<1> QED BY <1>6, <1>7

\* The rule's lines of the dump.
NetLines(k) ==
  {l \in Dump(k.fam) : /\ l.mask = k.mask
                       /\ \A i \in 1..Len(l.node) : PrefixRecalc(l.node, k.mask)[i] = k.addr[i]}

\* A node that carries an entry of the rule's mask is of the level it ends in.
LEMMA MaskedNode ==
  ASSUME IInv, NEW k, Recalculated(k), NEW q \in Path, NEW e, Carries(cfg[k.fam][q], e), e.mask = k.mask
  PROVE  /\ k.fam \in Family /\ k.addr \in Addr(k.fam) /\ k.mask \in Mask(k.fam)
         /\ Len(q) \in 1..MaxLevel(k.fam) /\ IsTerminal(Len(q), k.mask)
         /\ \A i \in 1..MaxLevel(k.fam) : IsTerminal(i, k.mask) => i = Len(q)
         /\ Front(q) = SubSeq(q, 1, Len(q) - 1) /\ Front(q) \in arrays
<1>1. PICK h \in Rules : k = [h EXCEPT !.addr = PrefixRecalc(h.addr, h.mask)]
  BY DEF Recalculated
<1>2. k.fam \in Family /\ k.addr \in Addr(k.fam) /\ k.mask \in Mask(k.fam)
  <2>1. h \in IpAny
    BY InputsAssumption
  <2>2. k.fam = h.fam /\ k.mask = h.mask /\ k.addr = PrefixRecalc(h.addr, h.mask)
    BY <1>1, <2>1 DEF IpAny
  <2> QED BY <2>2, RuleFacts
<1>3. WellFormed(cfg, arrays)
  BY GoodState
<1>4. Len(q) \in 1..MaxLevel(k.fam) /\ IsTerminal(Len(q), k.mask)
  BY <1>2, <1>3, CarriedEntry
<1>5. ASSUME NEW i \in 1..MaxLevel(k.fam), IsTerminal(i, k.mask) PROVE i = Len(q)
  <2>1. i \in Nat \ {0} /\ Len(q) \in Nat \ {0} /\ k.mask \in Nat
    BY <1>2, <1>4, <1>5, Levels DEF Mask
  <2> QED BY <1>4, <1>5, <2>1, OneLevel
<1>6. Front(q) \in arrays
  <2>1. cfg[k.fam][q] # <<>>
    BY EmptySeq DEF Carries
  <2> QED BY <1>2, <1>3, <2>1 DEF WellFormed, Lists
<1>7. Front(q) = SubSeq(q, 1, Len(q) - 1)
  BY DEF Front
<1> QED BY <1>2, <1>4, <1>5, <1>6, <1>7

\* The query prints exactly those lines.
LEMMA QueryIsNet ==
  ASSUME IInv, NEW k, Recalculated(k)
  PROVE  Query(k) = NetLines(k)
<1> DEFINE f == k.fam
           m == k.mask
           Line(q, r) == [node |-> q, mask |-> m, res |-> r]
           WayThere(n) == \A j \in 0..(n - 1) : SubSeq(k.addr, 1, j) \in arrays
           Later(q, n) == \E p \in QueryNodes(k, n) : Last(p) < Last(q) /\ Holds(f, p, 0)
<1>1. \A l : l \in Query(k) <=>
        \E n \in 1..MaxLevel(f) : \E q \in QueryNodes(k, n) : \E i \in 1..Len(cfg[f][q]) :
          /\ IsTerminal(n, m) /\ WayThere(n)
          /\ cfg[f][q][i].mask = m
          /\ m = 0 => ~ Later(q, n)
          /\ l = Line(q, cfg[f][q][i].res)
  BY DEF Query
<1>2. \A l : l \in Query(k) <=>
        \E n \in 1..MaxLevel(f) : \E q \in QueryNodes(k, n) : \E e :
          /\ IsTerminal(n, m) /\ WayThere(n)
          /\ Carries(cfg[f][q], e) /\ e.mask = m
          /\ m = 0 => ~ Later(q, n)
          /\ l = Line(q, e.res)
  BY <1>1 DEF Carries
<1>3. f \in Family
  <2>1. PICK h \in Rules : k = [h EXCEPT !.addr = PrefixRecalc(h.addr, h.mask)]
    BY DEF Recalculated
  <2>2. h \in IpAny
    BY InputsAssumption
  <2>3. k.fam = h.fam
    BY <2>1, <2>2 DEF IpAny
  <2> QED BY <2>3, RuleFacts
<1>4. \A l : l \in Dump(f) <=>
        \E q \in Path : \E e :
          /\ Carries(cfg[f][q], e)
          /\ e.mask = 0 => ~ DefaultPrinted(f, q)
          /\ l = [node |-> q, mask |-> e.mask, res |-> e.res]
  BY <1>3, DumpLines
<1>5. \A q, r : Line(q, r).node = q /\ Line(q, r).mask = m /\ Line(q, r).res = r
  OBVIOUS
<1>6. ASSUME NEW l \in Query(k) PROVE l \in NetLines(k)
  <2>0. PICK n \in 1..MaxLevel(f) : \E q \in QueryNodes(k, n) : \E e :
          /\ IsTerminal(n, m) /\ WayThere(n)
          /\ Carries(cfg[f][q], e) /\ e.mask = m
          /\ m = 0 => ~ Later(q, n)
          /\ l = Line(q, e.res)
    BY <1>2, <1>6
  <2>1. PICK q \in QueryNodes(k, n) : \E e :
          /\ IsTerminal(n, m) /\ WayThere(n)
          /\ Carries(cfg[f][q], e) /\ e.mask = m
          /\ m = 0 => ~ Later(q, n)
          /\ l = Line(q, e.res)
    BY <2>0
  <2>2. PICK e : /\ Carries(cfg[f][q], e) /\ e.mask = m
                 /\ m = 0 => ~ Later(q, n)
                 /\ l = Line(q, e.res)
    BY <2>1
  <2>3. IsTerminal(n, k.mask)
    BY <2>1
  <2>4. q \in Path /\ Len(q) = n
    BY <2>3, QueryLooksAt
  <2>5. \A i \in 1..Len(q) : PrefixRecalc(q, k.mask)[i] = k.addr[i]
    BY <2>3, <2>4, QueryLooksAt
  <2>6. m = 0 => ~ DefaultPrinted(f, q)
    <3> SUFFICES ASSUME m = 0 PROVE ~ DefaultPrinted(f, q)
      OBVIOUS
    <3>1. Later(q, n) <=> DefaultPrinted(f, q)
      BY <2>3, QuerySuppresses
    <3> QED BY <2>2, <3>1
  <2>7. l \in Dump(f)
    BY <1>4, <2>2, <2>4, <2>6
  <2> QED BY <1>5, <2>2, <2>5, <2>7 DEF NetLines
<1>7. ASSUME NEW l \in NetLines(k) PROVE l \in Query(k)
  <2>1. /\ l \in Dump(f) /\ l.mask = m
        /\ \A i \in 1..Len(l.node) : PrefixRecalc(l.node, k.mask)[i] = k.addr[i]
    BY DEF NetLines
  <2>2. PICK q \in Path : \E e :
          /\ Carries(cfg[f][q], e)
          /\ e.mask = 0 => ~ DefaultPrinted(f, q)
          /\ l = [node |-> q, mask |-> e.mask, res |-> e.res]
    BY <1>4, <2>1
  <2>3. PICK e :
          /\ Carries(cfg[f][q], e)
          /\ e.mask = 0 => ~ DefaultPrinted(f, q)
          /\ l = [node |-> q, mask |-> e.mask, res |-> e.res]
    BY <2>2
  <2>4. l.node = q /\ e.mask = k.mask /\ l = Line(q, e.res)
    BY <2>1, <2>3
  <2> DEFINE n == Len(q)
  <2>5. /\ n \in 1..MaxLevel(f) /\ IsTerminal(n, k.mask) /\ k.addr \in Addr(f)
        /\ Front(q) = SubSeq(q, 1, n - 1) /\ Front(q) \in arrays
    BY <2>3, <2>4, MaskedNode
  <2>6. q \in QueryNodes(k, n)
    <3>1. \A i \in 1..Len(q) : PrefixRecalc(q, k.mask)[i] = k.addr[i]
      BY <2>1, <2>4
    <3> QED BY <2>5, <3>1, QueryLooksAt
  <2>7. WayThere(n)
    <3>1. Front(q) = SubSeq(k.addr, 1, n - 1)
      BY <2>5, <2>6, QueryLooksAt
    <3>2. n - 1 \in 0..MaxLevel(f) /\ n - 1 \in Nat
      BY <1>3, <2>5, Levels
    <3> DEFINE u == SubSeq(k.addr, 1, n - 1)
    <3>3. Len(u) = n - 1 /\ \A j \in 0..(n - 1) : SubSeq(u, 1, j) = SubSeq(k.addr, 1, j)
      BY <1>3, <2>5, <3>2, FirstBytes
    <3>4. u \in arrays
      BY <2>5, <3>1
    <3> HIDE DEF u, n
    <3>5. \A j \in 0..Len(u) : SubSeq(u, 1, j) \in arrays
      BY <3>4 DEF IInv, Structure, ArraysLinked
    <3> QED BY <3>3, <3>5
  <2>8. m = 0 => ~ Later(q, n)
    <3> SUFFICES ASSUME m = 0 PROVE ~ Later(q, n)
      OBVIOUS
    <3>1. Later(q, n) <=> DefaultPrinted(f, q)
      BY <2>5, <2>6, QuerySuppresses
    <3> QED BY <2>3, <2>4, <3>1
  <2> HIDE DEF n, Later, WayThere, Line
  <2> QED BY <1>2, <2>3, <2>4, <2>5, <2>6, <2>7, <2>8
<1> QED BY <1>6, <1>7

\* It prints something exactly when the rule is in force.
LEMMA QueryTellsForce ==
  ASSUME IInv, Uniform(cfg), NEW k, Recalculated(k)
  PROVE  NetLines(k) # {} <=> \E r \in Results : InForce(k, r)
<1> DEFINE f == k.fam
           m == k.mask
<1>1. WellFormed(cfg, arrays)
  BY GoodState
<1>2. f \in Family /\ k.addr \in Addr(f) /\ m \in Mask(f)
  <2>1. PICK h \in Rules : k = [h EXCEPT !.addr = PrefixRecalc(h.addr, h.mask)]
    BY DEF Recalculated
  <2>2. h \in IpAny
    BY InputsAssumption
  <2>3. k.fam = h.fam /\ k.mask = h.mask /\ k.addr = PrefixRecalc(h.addr, h.mask)
    BY <2>1, <2>2 DEF IpAny
  <2> QED BY <2>3, RuleFacts
<1>3. \A l : l \in Dump(f) <=>
        \E q \in Path : \E e :
          /\ Carries(cfg[f][q], e)
          /\ e.mask = 0 => ~ DefaultPrinted(f, q)
          /\ l = [node |-> q, mask |-> e.mask, res |-> e.res]
  BY <1>2, DumpLines
<1>4. ASSUME NEW x \in Addr(f) PROVE FoundBy(cfg, f, x, Found(f, x))
  <2>1. Found(f, x) = FlattenSeq(Rows(cfg, f, x))
    BY <1>1, <1>2, FoundNow, FoundIsRows
  <2> QED BY <1>1, <1>2, <2>1, WalkFinds
<1>5. \A x \in Addr(f) : Covered(k, x) <=> NetOfAddr(f, x, m) = NetOfAddr(f, k.addr, m)
  BY DEF Covered, NetOfAddr
<1>6. ASSUME NetLines(k) # {} PROVE \E r \in Results : InForce(k, r)
  <2>1. PICK l \in Dump(f) : l.mask = m /\ \A i \in 1..Len(l.node) : PrefixRecalc(l.node, m)[i] = k.addr[i]
    BY <1>6 DEF NetLines
  <2>2. PICK q \in Path : \E e :
          Carries(cfg[f][q], e) /\ l = [node |-> q, mask |-> e.mask, res |-> e.res]
    BY <1>3
  <2>3. PICK e : Carries(cfg[f][q], e) /\ l = [node |-> q, mask |-> e.mask, res |-> e.res]
    BY <2>2
  <2>4. e.mask = k.mask /\ \A i \in 1..Len(q) : PrefixRecalc(q, k.mask)[i] = k.addr[i]
    BY <2>1, <2>3
  <2> DEFINE n == Len(q)
  <2>5. n \in 1..MaxLevel(f) /\ IsTerminal(n, k.mask)
    BY <2>3, <2>4, MaskedNode
  <2>6. NetOf(q, m) = NetOfAddr(f, k.addr, m)
    BY <2>4, <2>5, QueryLooksAt
  <2>7. e \in Entry /\ e.res \in Results
    BY <1>1, <1>2, <2>3, CarriedEntry DEF Entry
  <2>8. ASSUME NEW x \in Addr(f), Covered(k, x)
        PROVE  \E i \in 1..Len(Found(f, x)) :
                 Find(f, x, m) = {i} /\ Found(f, x)[i].res = e.res
    <3> DEFINE p == SubSeq(x, 1, n)
               F == Found(f, x)
    <3>1. p \in Path /\ Len(p) = n /\ NetOf(p, m) = NetOfAddr(f, x, m)
      BY <1>2, <2>5, NodeOfAddr, NetOfNode
    <3>2. NetOf(p, m) = NetOf(q, m)
      BY <1>5, <2>6, <2>8, <3>1
    <3>3. FoundBy(cfg, f, x, F)
      BY <1>4
    <3> HIDE DEF F
    <3>4. Carries(cfg[f][p], e)
      <4> HIDE DEF p
      <4> QED BY <1>2, <2>3, <2>4, <3>1, <3>2 DEF Uniform
    <3>5. Carries(F, e)
      BY <2>5, <3>3, <3>4 DEF FoundBy
    <3>6. PICK i \in 1..Len(F) : F[i] = e
      BY <3>5 DEF Carries
    <3>7. \A j \in 1..Len(F) : F[j].mask = m <=> j = i
      BY <2>4, <3>3, <3>6 DEF FoundBy
    <3>8. Find(f, x, m) = {i}
      BY <3>7 DEF Find, F
    <3> QED BY <3>6, <3>8 DEF F
  <2>9. InForce(k, e.res)
    BY <2>8 DEF InForce
  <2> QED BY <2>7, <2>9
<1>7. ASSUME NEW r \in Results, InForce(k, r) PROVE NetLines(k) # {}
  <2> DEFINE x == k.addr
             F == Found(f, x)
  <2>1. Covered(k, x)
    BY <1>2, <1>5
  <2>2. PICK i \in 1..Len(F) : Find(f, x, m) = {i}
    BY <1>2, <1>7, <2>1 DEF InForce
  <2>3. F[i].mask = m
    BY <2>2 DEF Find
  <2>4. FoundBy(cfg, f, x, F)
    BY <1>2, <1>4
  <2> HIDE DEF F
  <2>5. PICK n \in 1..MaxLevel(f) : Carries(cfg[f][SubSeq(x, 1, n)], F[i])
    BY <2>4 DEF FoundBy
  <2> DEFINE q == SubSeq(x, 1, n)
             e == F[i]
  <2>6. q \in Path /\ Len(q) = n /\ Carries(cfg[f][q], e) /\ e.mask = k.mask
    BY <1>2, <2>3, <2>5, NodeOfAddr
  <2> HIDE DEF q, e
  <2>7. IsTerminal(n, k.mask)
    BY <2>6, MaskedNode
  <2>8. ASSUME NEW p \in Path, Carries(cfg[f][p], e), Len(p) = n, NetOf(p, m) = NetOfAddr(f, x, m),
               m = 0 => ~ DefaultPrinted(f, p)
        PROVE  NetLines(k) # {}
    <3> DEFINE l == [node |-> p, mask |-> e.mask, res |-> e.res]
    <3>1. l \in Dump(f)
      BY <1>3, <2>6, <2>8
    <3>2. p \in QueryNodes(k, n)
      BY <2>7, <2>8, QueryLooksAt
    <3>3. \A j \in 1..Len(p) : PrefixRecalc(p, k.mask)[j] = k.addr[j]
      BY <2>7, <2>8, <3>2, QueryLooksAt
    <3>4. l \in NetLines(k)
      BY <2>6, <3>1, <3>3 DEF NetLines
    <3> QED BY <3>4
  <2>9. NetOf(q, m) = NetOfAddr(f, x, m)
    BY <1>2, <2>7, NetOfNode DEF q
  <2>10. CASE m # 0
    BY <2>6, <2>8, <2>9, <2>10
  <2>11. CASE m = 0
    <3>1. Carries(cfg[f][q], e) /\ e.mask = 0
      BY <2>6, <2>11
    <3>2. <<0>> \in Path /\ Carries(cfg[f][<<0>>], e)
      BY <1>2, <2>6, <3>1, DefaultLine
    <3>3. ~ DefaultPrinted(f, <<0>>)
      BY <1>2, <3>1, <3>2, DefaultLine
    <3>4. Len(q) = 1 /\ Len(<<0>>) = 1
      BY <1>2, <2>6, <3>1, DefaultEverywhere
    <3>5. NetOf(<<0>>, 0) = NetOf(q, 0)
      BY <1>2, <2>6, <3>2, <3>4, OneDefaultPrefix
    <3> QED BY <2>6, <2>8, <2>9, <2>11, <3>2, <3>3, <3>4, <3>5
  <2> QED BY <2>10, <2>11
<1> QED BY <1>6, <1>7

\* Without allocation failures the query for a rule, its address recalculated as the set
\* calls leave it, prints that rule's lines of the dump and no other's, and it prints
\* something exactly when every address of the prefix finds the rule.
THEOREM QueryShowsTheRule == ASSUME NoFailures PROVE Spec => []QueryPrintsTheRule
<1>1. IInv /\ NodesAlike => QueryPrintsTheRule
  <2> SUFFICES ASSUME IInv, NodesAlike, NEW h \in Rules, NEW k, k = [h EXCEPT !.addr = PrefixRecalc(h.addr, h.mask)]
               PROVE  /\ Query(k) = NetLines(k)
                      /\ Query(k) # {} <=> \E r \in Results : InForce(k, r)
    BY DEF QueryPrintsTheRule, NetLines
  <2>1. Recalculated(k)
    BY DEF Recalculated
  <2>2. Query(k) = NetLines(k)
    BY <2>1, QueryIsNet
  <2> QED BY <2>1, <2>2, QueryTellsForce DEF NodesAlike
<1> QED BY <1>1, AlikeForever, PTL
=============================================================================
