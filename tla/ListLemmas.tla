----------------------------- MODULE ListLemmas -----------------------------
(***************************************************************************)
(* What the proofs about both kinds of lists rest on.  The pointers of     *)
(* either kind stand for sequences, one per head; the header's functions   *)
(* change one or two of them.  This module is about the sequences and how  *)
(* they are read off the pointers.                                         *)
(***************************************************************************)
EXTENDS ListCells, SequenceLemmas

\* The i-th place of the list s of h, the head being the one before the first.
Cell(h, s, i) == IF i = 0 THEN h ELSE s[i]

\* Every node is at most once in the lists L.
Once(L) ==
  \A g, h \in Heads : \A i \in 1..Len(L[g]), j \in 1..Len(L[h]) :
    L[g][i] = L[h][j] => g = h /\ i = j

Outside(L, n) == \A h \in Heads : \A i \in 1..Len(L[h]) : L[h][i] # n

\* The lists L with n put behind the q-th place of h, or with the q-th node of h taken out.
With(L, h, q, n)  == [L EXCEPT ![h] = InsertAt(L[h], q + 1, n)]
Less(L, h, q)     == [L EXCEPT ![h] = RemoveAt(L[h], q)]

\* The list of g given to h, which has none.
Given(L, g, h)    == [L EXCEPT ![h] = L[g], ![g] = <<>>]

\* b is a, or it comes behind a in the list of h.
Before(L, h, a, b) ==
  \E i, j \in 1..Len(L[h]) : L[h][i] = a /\ L[h][j] = b /\ i <= j

-----------------------------------------------------------------------------
(* Changes of the sequences.                                               *)

\* Places are places of a list, and no two are the same struct.
LEMMA PlacesDiffer ==
  ASSUME NEW L \in [Heads -> Seq(Nodes)], Once(L)
  PROVE  /\ \A h \in Heads : Len(L[h]) \in Nat
         /\ \A h \in Heads : \A i \in 1..Len(L[h]) : L[h][i] \in Nodes
         /\ \A h \in Heads : \A i \in 0..Len(L[h]) : Cell(h, L[h], i) \in Cells
         /\ \A g, h \in Heads : \A i \in 0..Len(L[g]), j \in 0..Len(L[h]) :
              Cell(g, L[g], i) = Cell(h, L[h], j) => g = h /\ i = j
<1>1. \A h \in Heads : Len(L[h]) \in Nat
  BY LenProperties
<1>2. \A h \in Heads : \A i \in 1..Len(L[h]) : L[h][i] \in Nodes
  BY ElementOfSeq
<1>3. \A h \in Heads : \A i \in 0..Len(L[h]) :
        Cell(h, L[h], i) \in Cells /\ (i # 0 => i \in 1..Len(L[h]) /\ Cell(h, L[h], i) \in Nodes)
  BY <1>1, <1>2 DEF Cell, Cells
<1>4. ASSUME NEW g \in Heads, NEW h \in Heads,
             NEW i \in 0..Len(L[g]), NEW j \in 0..Len(L[h]),
             Cell(g, L[g], i) = Cell(h, L[h], j)
      PROVE  g = h /\ i = j
  <2>1. i = 0 <=> j = 0
    BY <1>3, <1>4, CellsAssumption DEF Cell
  <2>2. CASE i = 0
    BY <1>4, <2>1, <2>2 DEF Cell
  <2>3. CASE i # 0
    <3>1. i \in 1..Len(L[g]) /\ j \in 1..Len(L[h]) /\ L[g][i] = L[h][j]
      BY <1>3, <1>4, <2>1, <2>3 DEF Cell
    <3> QED BY <3>1 DEF Once
  <2> QED BY <2>2, <2>3
<1> QED
  BY <1>1, <1>2, <1>3, <1>4

\* A node put at the position q of the list of h.
LEMMA Inserted ==
  ASSUME NEW L \in [Heads -> Seq(Nodes)], Once(L), NEW n \in Nodes, Outside(L, n),
         NEW h \in Heads, NEW q \in 0..Len(L[h])
  PROVE  LET K == With(L, h, q, n)
         IN  /\ K \in [Heads -> Seq(Nodes)] /\ Once(K)
             /\ \A g \in Heads \ {h} : K[g] = L[g]
             /\ Len(K[h]) = Len(L[h]) + 1
             /\ \A i \in 0..Len(K[h]) :
                  Cell(h, K[h], i) = IF i <= q THEN Cell(h, L[h], i)
                                     ELSE IF i = q + 1 THEN n ELSE Cell(h, L[h], i - 1)
<1> DEFINE s == L[h]
           t == InsertAt(s, q + 1, n)
           K == [L EXCEPT ![h] = t]
<1>1. Len(s) \in Nat /\ s \in Seq(Nodes)
  BY PlacesDiffer
<1>2. /\ t \in Seq(Nodes) /\ Len(t) = Len(s) + 1
      /\ \A k \in 1..(Len(s) + 1) :
           t[k] = IF k < q + 1 THEN s[k] ELSE IF k = q + 1 THEN n ELSE s[k - 1]
  <2> DEFINE r == q + 1
  <2>1. r \in 1..(Len(s) + 1)
    BY <1>1
  <2> HIDE DEF s, r
  <2>2. s \in Seq(Nodes) /\ n \in Nodes
    BY <1>1
  <2>3. /\ InsertAt(s, r, n) \in Seq(Nodes)
        /\ Len(InsertAt(s, r, n)) = Len(s) + 1
        /\ \A k \in 1..(Len(s) + 1) : InsertAt(s, r, n)[k] =
             IF k < r THEN s[k] ELSE IF k = r THEN n ELSE s[k - 1]
    BY <2>1, <2>2, InsertAtProperties
  <2> QED BY <2>3 DEF r
<1> HIDE DEF t
<1>3. \A i \in 0..Len(t) :
        Cell(h, t, i) = IF i <= q THEN Cell(h, s, i)
                        ELSE IF i = q + 1 THEN n ELSE Cell(h, s, i - 1)
  <2> TAKE i \in 0..Len(t)
  <2>1. CASE i = 0
    BY <1>1, <2>1 DEF Cell
  <2>2. CASE i # 0
    <3> DEFINE N == Len(s)
    <3>1. N \in Nat /\ q \in 0..N /\ i \in 0..(N + 1)
      BY <1>1, <1>2
    <3> HIDE DEF N
    <3>2. i \in 1..(N + 1) /\ (i <= q <=> i < q + 1) /\ (~ (i <= q) /\ i # q + 1 => i - 1 # 0)
      BY <2>2, <3>1
    <3> QED BY <1>2, <2>2, <3>2 DEF Cell, N
  <2> QED BY <2>1, <2>2
<1>4. K \in [Heads -> Seq(Nodes)] /\ K[h] = t /\ \A g \in Heads \ {h} : K[g] = L[g]
  BY <1>2
<1> HIDE DEF K
<1>5. Once(K)
  <2> SUFFICES ASSUME NEW f \in Heads, NEW g \in Heads,
                      NEW i \in 1..Len(K[f]), NEW j \in 1..Len(K[g]), K[f][i] = K[g][j]
               PROVE  f = g /\ i = j
    BY DEF Once
  <2> DEFINE o(e, k) == IF e = h /\ k >= q + 1 THEN k - 1 ELSE k
  <2>1. ASSUME NEW e \in Heads, NEW k \in 1..Len(K[e])
        PROVE  \/ e = h /\ k = q + 1 /\ K[e][k] = n
               \/ ~ (e = h /\ k = q + 1) /\ o(e, k) \in 1..Len(L[e]) /\ K[e][k] = L[e][o(e, k)]
    <3>1. CASE e # h
      BY <1>4, <3>1
    <3>2. CASE e = h
      <4>1. k \in 1..(Len(s) + 1)
        BY <1>2, <1>4, <3>2
      <4>2. t[k] = IF k < q + 1 THEN s[k] ELSE IF k = q + 1 THEN n ELSE s[k - 1]
        BY <1>2, <4>1
      <4>3. k < q + 1 => o(e, k) = k /\ k \in 1..Len(s)
        BY <1>1, <3>2, <4>1
      <4>4. k > q + 1 => o(e, k) = k - 1 /\ k - 1 \in 1..Len(s) /\ ~ (k < q + 1) /\ k # q + 1
        BY <1>1, <3>2, <4>1
      <4>5. k < q + 1 \/ k = q + 1 \/ k > q + 1
        BY <1>1, <4>1
      <4>6. k < q + 1 => k # q + 1
        BY <1>1, <4>1
      <4> QED BY <1>1, <1>4, <3>2, <4>2, <4>3, <4>4, <4>5, <4>6
    <3> QED BY <3>1, <3>2
  <2>2. CASE f = h /\ i = q + 1
    BY <2>1, <2>2 DEF Outside
  <2>3. CASE g = h /\ j = q + 1
    BY <2>1, <2>3 DEF Outside
  <2>4. CASE ~ (f = h /\ i = q + 1) /\ ~ (g = h /\ j = q + 1)
    <3> HIDE DEF o
    <3>0. /\ o(f, i) \in 1..Len(L[f]) /\ o(g, j) \in 1..Len(L[g])
          /\ L[f][o(f, i)] = L[g][o(g, j)]
      BY <2>1, <2>4
    <3>1. f = g /\ o(f, i) = o(g, j)
      BY <3>0 DEF Once
    <3>2. i \in Nat /\ j \in Nat /\ q \in Nat
      BY <1>1, <1>2, <1>4
    <3> QED BY <2>4, <3>1, <3>2 DEF o
  <2> QED BY <2>2, <2>3, <2>4
<1> QED
  BY <1>2, <1>3, <1>4, <1>5 DEF With, t, K

\* The node at the position q of the list of h taken out.
LEMMA Removed ==
  ASSUME NEW L \in [Heads -> Seq(Nodes)], Once(L), NEW h \in Heads, NEW q \in 1..Len(L[h])
  PROVE  LET K == Less(L, h, q)
         IN  /\ K \in [Heads -> Seq(Nodes)] /\ Once(K)
             /\ \A g \in Heads \ {h} : K[g] = L[g]
             /\ Len(K[h]) = Len(L[h]) - 1
             /\ \A i \in 0..Len(K[h]) :
                  Cell(h, K[h], i) = IF i < q THEN Cell(h, L[h], i) ELSE Cell(h, L[h], i + 1)
             /\ Outside(K, L[h][q])
<1> DEFINE s == L[h]
           t == RemoveAt(s, q)
           K == [L EXCEPT ![h] = t]
<1>1. Len(s) \in Nat /\ s \in Seq(Nodes) /\ Distinct(s)
  BY PlacesDiffer DEF Distinct, Once
<1>2. /\ t \in Seq(Nodes) /\ Len(t) = Len(s) - 1
      /\ \A i \in 1..Len(t) : /\ OldPlace(q, i) \in 1..Len(s) /\ OldPlace(q, i) # q
                              /\ t[i] = s[OldPlace(q, i)]
  <2> HIDE DEF s
  <2>1. q \in 1..Len(s)
    BY DEF s
  <2> QED BY <1>1, <2>1, RemoveAtPlaces
<1> HIDE DEF t
<1>3. \A i \in 0..Len(t) :
        Cell(h, t, i) = IF i < q THEN Cell(h, s, i) ELSE Cell(h, s, i + 1)
  <2> TAKE i \in 0..Len(t)
  <2>1. CASE i = 0
    BY <1>1, <2>1 DEF Cell
  <2>2. CASE i # 0
    <3>1. i \in 1..Len(t) /\ i + 1 # 0
      BY <1>1, <1>2, <2>2
    <3> QED BY <1>2, <2>2, <3>1 DEF Cell, OldPlace
  <2> QED BY <2>1, <2>2
<1>4. K \in [Heads -> Seq(Nodes)] /\ K[h] = t /\ \A g \in Heads \ {h} : K[g] = L[g]
  BY <1>2
<1> HIDE DEF K
<1> DEFINE o(e, k) == IF e = h THEN OldPlace(q, k) ELSE k
<1>5. ASSUME NEW e \in Heads, NEW k \in 1..Len(K[e])
      PROVE  /\ o(e, k) \in 1..Len(L[e]) /\ K[e][k] = L[e][o(e, k)]
             /\ ~ (e = h /\ o(e, k) = q)
  BY <1>2, <1>4
<1>6. ASSUME NEW e \in Heads, NEW i \in 1..Len(K[e]), NEW j \in 1..Len(K[e]), o(e, i) = o(e, j)
      PROVE  i = j
  <2>1. i \in Nat /\ j \in Nat /\ q \in Nat
    BY <1>1, <1>2, <1>4, PlacesDiffer
  <2> QED BY <1>6, <2>1 DEF OldPlace
<1> HIDE DEF o
<1>7. Once(K)
  <2> SUFFICES ASSUME NEW f \in Heads, NEW g \in Heads,
                      NEW i \in 1..Len(K[f]), NEW j \in 1..Len(K[g]), K[f][i] = K[g][j]
               PROVE  f = g /\ i = j
    BY DEF Once
  <2>1. /\ o(f, i) \in 1..Len(L[f]) /\ o(g, j) \in 1..Len(L[g])
        /\ L[f][o(f, i)] = L[g][o(g, j)]
    BY <1>5
  <2>2. f = g /\ o(f, i) = o(g, j)
    BY <2>1 DEF Once
  <2> QED BY <1>6, <2>2
<1>8. Outside(K, L[h][q])
  <2> SUFFICES ASSUME NEW e \in Heads, NEW k \in 1..Len(K[e]), K[e][k] = L[h][q] PROVE FALSE
    BY DEF Outside
  <2>1. o(e, k) \in 1..Len(L[e]) /\ L[e][o(e, k)] = L[h][q] /\ ~ (e = h /\ o(e, k) = q)
    BY <1>5
  <2> QED BY <2>1 DEF Once
<1> QED
  BY <1>2, <1>3, <1>4, <1>7, <1>8 DEF Less, t, K

\* No change of the lists puts two nodes they keep in another order.
LEMMA WithKeepsOrder ==
  ASSUME NEW L \in [Heads -> Seq(Nodes)], Once(L), NEW n \in Nodes, Outside(L, n),
         NEW h \in Heads, NEW q \in 0..Len(L[h]), NEW g \in Heads, NEW a, NEW b, Before(L, g, a, b)
  PROVE  Before(With(L, h, q, n), g, a, b)
<1> DEFINE K == With(L, h, q, n)
           o(f, i) == IF f = h /\ i > q THEN i + 1 ELSE i
<1>1. /\ \A f \in Heads \ {h} : K[f] = L[f]
      /\ Len(K[h]) = Len(L[h]) + 1
      /\ \A i \in 0..Len(K[h]) :
           Cell(h, K[h], i) = IF i <= q THEN Cell(h, L[h], i)
                              ELSE IF i = q + 1 THEN n ELSE Cell(h, L[h], i - 1)
  BY Inserted
<1>3. PICK i \in 1..Len(L[g]), j \in 1..Len(L[g]) : L[g][i] = a /\ L[g][j] = b /\ i <= j
  BY DEF Before
<1>4. Len(L[g]) \in Nat /\ Len(L[h]) \in Nat
  BY LenProperties
<1> HIDE DEF K
<1>5. ASSUME NEW k \in 1..Len(L[g]) PROVE o(g, k) \in 1..Len(K[g]) /\ K[g][o(g, k)] = L[g][k]
  <2>1. CASE g # h
    BY <1>1, <2>1
  <2>2. CASE g = h /\ k <= q
    <3>1. k \in 0..Len(K[h]) /\ k # 0 /\ o(g, k) = k /\ k \in 1..Len(K[h])
      BY <1>1, <1>4, <2>2
    <3> QED BY <1>1, <2>2, <3>1 DEF Cell
  <2>3. CASE g = h /\ k > q
    <3>1. /\ o(g, k) = k + 1 /\ k + 1 \in 0..Len(K[h]) /\ k + 1 \in 1..Len(K[h])
          /\ ~ (k + 1 <= q) /\ k + 1 # q + 1 /\ (k + 1) - 1 = k /\ k # 0 /\ k + 1 # 0
      BY <1>1, <1>4, <2>3
    <3> QED BY <1>1, <2>3, <3>1 DEF Cell
  <2> QED BY <1>4, <2>1, <2>2, <2>3
<1>6. o(g, i) <= o(g, j)
  BY <1>3, <1>4
<1> HIDE DEF o
<1>7. Before(K, g, a, b)
  BY <1>3, <1>5, <1>6 DEF Before
<1> QED BY <1>7 DEF K

LEMMA LessKeepsOrder ==
  ASSUME NEW L \in [Heads -> Seq(Nodes)], Once(L), NEW h \in Heads, NEW q \in 1..Len(L[h]),
         NEW g \in Heads, NEW a, NEW b, a # L[h][q], b # L[h][q], Before(L, g, a, b)
  PROVE  Before(Less(L, h, q), g, a, b)
<1> DEFINE K == Less(L, h, q)
           o(f, i) == IF f = h /\ i > q THEN i - 1 ELSE i
<1>1. /\ \A f \in Heads \ {h} : K[f] = L[f]
      /\ Len(K[h]) = Len(L[h]) - 1
      /\ \A i \in 0..Len(K[h]) :
           Cell(h, K[h], i) = IF i < q THEN Cell(h, L[h], i) ELSE Cell(h, L[h], i + 1)
  BY Removed
<1>3. PICK i \in 1..Len(L[g]), j \in 1..Len(L[g]) : L[g][i] = a /\ L[g][j] = b /\ i <= j
  BY DEF Before
<1>4. Len(L[g]) \in Nat /\ Len(L[h]) \in Nat
  BY LenProperties
<1> HIDE DEF K
<1>5. ASSUME NEW k \in 1..Len(L[g]), ~ (g = h /\ k = q)
      PROVE  o(g, k) \in 1..Len(K[g]) /\ K[g][o(g, k)] = L[g][k]
  <2>1. CASE g # h
    BY <1>1, <2>1
  <2>2. CASE g = h /\ k < q
    <3>1. k \in 0..Len(K[h]) /\ k # 0 /\ o(g, k) = k /\ k \in 1..Len(K[h])
      BY <1>1, <1>4, <2>2
    <3> QED BY <1>1, <2>2, <3>1 DEF Cell
  <2>3. CASE g = h /\ k > q
    <3>1. /\ o(g, k) = k - 1 /\ k - 1 \in 0..Len(K[h]) /\ k - 1 \in 1..Len(K[h])
          /\ ~ (k - 1 < q) /\ (k - 1) + 1 = k /\ k # 0 /\ k - 1 # 0
      BY <1>1, <1>4, <2>3
    <3> QED BY <1>1, <2>3, <3>1 DEF Cell
  <2> QED BY <1>4, <1>5, <2>1, <2>2, <2>3
<1>6. o(g, i) <= o(g, j)
  BY <1>3, <1>4
<1> HIDE DEF o
<1>7. Before(K, g, a, b)
  BY <1>3, <1>5, <1>6 DEF Before
<1> QED BY <1>7 DEF K


-----------------------------------------------------------------------------
(* The walk of Way reads a list off the pointers.                          *)

Steps == Cardinality(Cells)

\* f is where the walk along p from h is after each of n steps; it has seen i entries.
Walk(f, p, h, n) ==
  f = [i \in 0..n |-> IF i = 0 THEN h ELSE IF f[i - 1] \in Cells THEN p[f[i - 1]] ELSE UNSET]
Seen(f, i) == /\ i = Steps \/ f[i + 1] \notin Nodes
              /\ \A j \in 1..i : f[j] \in Nodes

LEMMA WalkExists ==
  ASSUME NEW p, NEW h
  PROVE  \A n \in Nat : \E f : Walk(f, p, h, n)
<1> DEFINE Step(v) == IF v \in Cells THEN p[v] ELSE UNSET
           IsWalk(f, n) == f = [i \in 0..n |-> IF i = 0 THEN h ELSE Step(f[i - 1])]
           S == {n \in Nat : \E f : IsWalk(f, n)}
<1> HIDE DEF Step
<1>1. 0 \in S
  <2>1. IsWalk([i \in 0..0 |-> h], 0)
    OBVIOUS
  <2> QED BY <2>1
<1>2. ASSUME NEW n \in Nat, n \in S PROVE n + 1 \in S
  <2>1. PICK f : IsWalk(f, n)
    BY <1>2
  <2>2. \A i \in 0..n : f[i] = IF i = 0 THEN h ELSE Step(f[i - 1])
    BY <2>1, Zenon
  <2> DEFINE g == [i \in 0..(n + 1) |-> IF i <= n THEN f[i] ELSE Step(f[i - 1])]
             k == [i \in 0..(n + 1) |-> IF i = 0 THEN h ELSE Step(g[i - 1])]
  <2>3. ASSUME NEW i \in 0..(n + 1) PROVE g[i] = k[i]
    <3>1. CASE i = 0
      BY <2>2, <3>1
    <3>2. CASE i \in 1..n
      <4>1. g[i] = f[i] /\ g[i - 1] = f[i - 1] /\ i # 0 /\ i \in 0..n /\ k[i] = Step(g[i - 1])
        BY <3>2
      <4> HIDE DEF g, k
      <4> QED BY <2>2, <4>1
    <3>3. CASE i = n + 1
      <4>1. g[i - 1] = f[i - 1] /\ g[i] = Step(f[i - 1]) /\ k[i] = Step(g[i - 1])
        BY <3>3
      <4> HIDE DEF g, k
      <4> QED BY <4>1
    <3> QED BY <3>1, <3>2, <3>3
  <2>4. g = [i \in 0..(n + 1) |-> g[i]] /\ k = [i \in 0..(n + 1) |-> k[i]]
    OBVIOUS
  <2>5. g = k
    <3> HIDE DEF g, k
    <3> QED BY <2>3, <2>4
  <2>6. IsWalk(g, n + 1)
    <3> HIDE DEF g
    <3> QED BY <2>5, Zenon
  <2> HIDE DEF g, IsWalk
  <2> QED BY <2>6
<1> HIDE DEF S
<1>3. Nat \subseteq S
  BY <1>1, <1>2, InductionOverPositions
<1> QED
  BY <1>3 DEF S, Walk, Step

\* A list without repetitions is no longer than there are cells.
LEMMA ListIsShort ==
  ASSUME NEW s \in Seq(Nodes), Distinct(s)
  PROVE  Steps \in Nat /\ Len(s) \in Nat /\ Len(s) <= Steps
<1> DEFINE f == [i \in 1..Len(s) |-> s[i]]
<1>1. IsFiniteSet(Cells) /\ Steps \in Nat
  BY CellsAssumption, FS_CardinalityType DEF Cells, Steps
<1>2. Len(s) \in Nat /\ \A i \in 1..Len(s) : s[i] \in Cells
  BY LenProperties, ElementOfSeq DEF Cells
<1>3. f \in Injection(1..Len(s), Cells)
  <2>1. f \in [1..Len(s) -> Cells]
    BY <1>2
  <2>2. \A i, j \in 1..Len(s) : f[i] = f[j] => i = j
    BY DEF Distinct
  <2> QED BY <2>1, <2>2 DEF Injection, IsInjective
<1>4. Cardinality(1..Len(s)) <= Cardinality(Cells)
  <2> HIDE DEF f
  <2> QED BY <1>1, <1>3, FS_Injection
<1>5. Cardinality(1..Len(s)) = Len(s)
  <2> DEFINE n == Len(s)
  <2> HIDE DEF n
  <2>1. n \in Nat /\ 1 \in Nat
    BY <1>2 DEF n
  <2>2. Cardinality(1..n) = n
    BY <2>1, FS_Interval
  <2> QED BY <2>2 DEF n
<1> QED
  BY <1>1, <1>2, <1>4, <1>5 DEF Steps

\* When p leads from h along s, and from its last entry to what is no entry.
LEMMA WayReads ==
  ASSUME NEW p, NEW h \in Heads, NEW s \in Seq(Nodes), Distinct(s), NEW e, e \notin Nodes,
         \A i \in 0..Len(s) : p[Cell(h, s, i)] = IF i = Len(s) THEN e ELSE s[i + 1]
  PROVE  Way(p, h) = s
<1>1. Steps \in Nat /\ Len(s) \in Nat /\ Len(s) <= Steps
  BY ListIsShort
<1>2. \A i \in 1..Len(s) : s[i] \in Nodes /\ s[i] \in Cells
  BY ElementOfSeq DEF Cells
<1>3. h \in Cells
  BY DEF Cells
<1> DEFINE cell == CHOOSE f : Walk(f, p, h, Steps)
<1>4. Walk(cell, p, h, Steps)
  BY <1>1, WalkExists
<1> HIDE DEF cell
<1>5. \A i \in 0..Steps :
        cell[i] = IF i = 0 THEN h ELSE IF cell[i - 1] \in Cells THEN p[cell[i - 1]] ELSE UNSET
  BY <1>4, Zenon DEF Walk
<1>6. \A i \in Nat : i <= Len(s) => cell[i] = Cell(h, s, i)
  <2> DEFINE S == {i \in Nat : i <= Len(s) => cell[i] = Cell(h, s, i)}
  <2>1. 0 \in S
    BY <1>1, <1>5 DEF Cell
  <2>2. ASSUME NEW n \in Nat, n \in S PROVE n + 1 \in S
    <3> SUFFICES ASSUME n + 1 <= Len(s) PROVE cell[n + 1] = Cell(h, s, n + 1)
      OBVIOUS
    <3>1. /\ n + 1 \in 0..Steps /\ n + 1 # 0 /\ (n + 1) - 1 = n /\ n \in 0..Len(s)
          /\ n # Len(s) /\ n <= Len(s) /\ (n # 0 => n \in 1..Len(s))
      BY <1>1
    <3>2. cell[n] = Cell(h, s, n) /\ cell[n] \in Cells
      BY <1>2, <1>3, <2>2, <3>1 DEF Cell
    <3>3. p[cell[n]] = s[n + 1]
      BY <3>1, <3>2
    <3> QED BY <1>5, <3>1, <3>2, <3>3 DEF Cell
  <2> HIDE DEF S
  <2>3. Nat \subseteq S
    BY <2>1, <2>2, InductionOverPositions
  <2> QED BY <2>3 DEF S
<1>7. /\ \A i \in 1..Len(s) : cell[i] = s[i]
      /\ Len(s) # Steps => cell[Len(s) + 1] \notin Nodes
  <2>1. \A i \in 1..Len(s) : cell[i] = s[i]
    BY <1>1, <1>6 DEF Cell
  <2>2. ASSUME Len(s) # Steps PROVE cell[Len(s) + 1] \notin Nodes
    <3>1. Len(s) + 1 \in 0..Steps /\ Len(s) + 1 # 0 /\ (Len(s) + 1) - 1 = Len(s)
      BY <1>1, <2>2
    <3>2. cell[Len(s)] = Cell(h, s, Len(s)) /\ cell[Len(s)] \in Cells /\ p[cell[Len(s)]] = e
      BY <1>1, <1>2, <1>3, <1>6 DEF Cell
    <3> QED BY <1>5, <3>1, <3>2
  <2> QED BY <2>1, <2>2
<1>8. \A i \in 0..Steps : Seen(cell, i) <=> i = Len(s)
  <2> TAKE i \in 0..Steps
  <2>1. CASE i = Len(s)
    BY <1>1, <1>2, <1>7, <2>1 DEF Seen
  <2>2. CASE i < Len(s)
    <3>1. i # Steps /\ i + 1 \in 1..Len(s) /\ i # Len(s)
      BY <1>1, <2>2
    <3> QED BY <1>2, <1>7, <3>1 DEF Seen
  <2>3. CASE i > Len(s)
    <3>1. Len(s) + 1 \in 1..i /\ Len(s) # Steps /\ i # Len(s)
      BY <1>1, <2>3
    <3> QED BY <1>7, <3>1 DEF Seen
  <2> QED BY <1>1, <2>1, <2>2, <2>3
<1> DEFINE size == CHOOSE i \in 0..Steps : Seen(cell, i)
<1>9. size = Len(s)
  BY <1>1, <1>8
<1>10. Way(p, h) = [i \in 1..size |-> cell[i]]
  BY DEF Way, Seen, Walk, Steps, cell
<1> HIDE DEF size
<1>11. [i \in 1..size |-> cell[i]] = s
  <2>1. s = [i \in 1..Len(s) |-> s[i]]
    OBVIOUS
  <2> QED BY <1>7, <1>9, <2>1
<1> QED
  BY <1>10, <1>11
=============================================================================
