--------------------------- MODULE UtilListProofs ---------------------------
(***************************************************************************)
(* For any number of heads and entries: the rings of UtilList stay rings   *)
(* under every sequence of calls, the same forward and backward, a loop    *)
(* meets what its body leaves there, and each call does to the sequences   *)
(* of entries what its comment says.                                       *)
(*                                                                         *)
(* A memory is described by the pairs of neighbours of the sequences its   *)
(* rings stand for.  Each function of the header writes the pairs that are *)
(* new, and Relink says that this is enough.                               *)
(***************************************************************************)
EXTENDS UtilList, ListLemmas

\* The place behind the i-th of the list s of h; the ring closes at its head.
Succ(h, s, i) == IF i = Len(s) THEN h ELSE s[i + 1]

\* y is the neighbour of x in a ring of the lists L; the heads of S have no ring.
Beside(L, S, x, y) ==
  \E h \in Heads \ S : \E i \in 0..Len(L[h]) :
    x = Cell(h, L[h], i) /\ y = Succ(h, L[h], i)

AreLists(L, S) ==
  /\ L \in [Heads -> Seq(Nodes)] /\ Once(L)
  /\ S \subseteq Heads /\ \A h \in S : L[h] = <<>>

Mem == [next : [Cells -> Ptr], prev : [Cells -> Ptr]]

\* The pointers of m stand for the lists L.
Rings(m, L, S) ==
  /\ AreLists(L, S) /\ m \in Mem
  /\ \A x, y : Beside(L, S, x, y) => m.next[x] = y /\ m.prev[y] = x

\* The struct x is in no ring.
Alone(L, S, x) == \A y : ~Beside(L, S, x, y)

-----------------------------------------------------------------------------
(* Neighbours.                                                             *)

LEMMA SuccPlaces ==
  ASSUME NEW L \in [Heads -> Seq(Nodes)], Once(L)
  PROVE  /\ \A h \in Heads : \A i \in 0..Len(L[h]) : Succ(h, L[h], i) \in Cells
         /\ \A g, h \in Heads : \A i \in 0..Len(L[g]), j \in 0..Len(L[h]) :
              Succ(g, L[g], i) = Succ(h, L[h], j) => g = h /\ i = j
<1>1. \A h \in Heads : Len(L[h]) \in Nat
  BY PlacesDiffer
<1>2. \A h \in Heads : \A i \in 1..Len(L[h]) : L[h][i] \in Nodes
  BY PlacesDiffer
<1>3. \A h \in Heads : \A i \in 0..Len(L[h]) :
        /\ i # Len(L[h]) => i + 1 \in 1..Len(L[h]) /\ L[h][i + 1] \in Nodes
        /\ i = Len(L[h]) => Succ(h, L[h], i) = h
        /\ i # Len(L[h]) => Succ(h, L[h], i) = L[h][i + 1]
  <2> TAKE h \in Heads
  <2> TAKE i \in 0..Len(L[h])
  <2>1. i # Len(L[h]) => i + 1 \in 1..Len(L[h])
    BY <1>1
  <2> QED BY <1>2, <2>1 DEF Succ
<1>4. \A h \in Heads : \A i \in 0..Len(L[h]) : Succ(h, L[h], i) \in Cells
  BY <1>3 DEF Cells
<1>5. ASSUME NEW g \in Heads, NEW h \in Heads,
             NEW i \in 0..Len(L[g]), NEW j \in 0..Len(L[h]),
             Succ(g, L[g], i) = Succ(h, L[h], j)
      PROVE  g = h /\ i = j
  <2>1. i = Len(L[g]) <=> j = Len(L[h])
    BY <1>3, <1>5, CellsAssumption
  <2>2. CASE i = Len(L[g])
    BY <1>3, <1>5, <2>1, <2>2
  <2>3. CASE i # Len(L[g])
    <3>1. /\ i + 1 \in 1..Len(L[g]) /\ j + 1 \in 1..Len(L[h])
          /\ L[g][i + 1] = L[h][j + 1]
      BY <1>3, <1>5, <2>1, <2>3
    <3>2. g = h /\ i + 1 = j + 1
      BY <3>1 DEF Once
    <3> QED BY <1>1, <3>2
  <2> QED BY <2>2, <2>3
<1> QED
  BY <1>4, <1>5

\* A struct has one neighbour on each side.
LEMMA OneNeighbour ==
  ASSUME NEW L, NEW S, AreLists(L, S)
  PROVE  /\ \A x, y : Beside(L, S, x, y) => x \in Cells /\ y \in Cells
         /\ \A x, y, z : Beside(L, S, x, y) /\ Beside(L, S, x, z) => y = z
         /\ \A x, y, z : Beside(L, S, x, z) /\ Beside(L, S, y, z) => x = y
<1>1. /\ L \in [Heads -> Seq(Nodes)] /\ Once(L)
  BY DEF AreLists
<1>2. \A h \in Heads : \A i \in 0..Len(L[h]) : Cell(h, L[h], i) \in Cells
  BY <1>1, PlacesDiffer
<1>3. \A g, h \in Heads : \A i \in 0..Len(L[g]), j \in 0..Len(L[h]) :
        Cell(g, L[g], i) = Cell(h, L[h], j) => g = h /\ i = j
  BY <1>1, PlacesDiffer
<1>4. \A h \in Heads : \A i \in 0..Len(L[h]) : Succ(h, L[h], i) \in Cells
  BY <1>1, SuccPlaces
<1>5. \A g, h \in Heads : \A i \in 0..Len(L[g]), j \in 0..Len(L[h]) :
        Succ(g, L[g], i) = Succ(h, L[h], j) => g = h /\ i = j
  BY <1>1, SuccPlaces
<1>6. \A x, y : Beside(L, S, x, y) => x \in Cells /\ y \in Cells
  BY <1>2, <1>4 DEF Beside
<1>7. ASSUME NEW x, NEW y, NEW z, Beside(L, S, x, y), Beside(L, S, x, z) PROVE y = z
  <2>1. PICK g \in Heads \ S : \E i \in 0..Len(L[g]) :
               x = Cell(g, L[g], i) /\ y = Succ(g, L[g], i)
    BY <1>7 DEF Beside
  <2>2. PICK h \in Heads \ S : \E i \in 0..Len(L[h]) :
               x = Cell(h, L[h], i) /\ z = Succ(h, L[h], i)
    BY <1>7 DEF Beside
  <2>3. PICK i \in 0..Len(L[g]) : x = Cell(g, L[g], i) /\ y = Succ(g, L[g], i)
    BY <2>1
  <2>4. PICK j \in 0..Len(L[h]) : x = Cell(h, L[h], j) /\ z = Succ(h, L[h], j)
    BY <2>2
  <2>5. g = h /\ i = j
    BY <1>3, <2>3, <2>4
  <2> QED BY <2>3, <2>4, <2>5
<1>8. ASSUME NEW x, NEW y, NEW z, Beside(L, S, x, z), Beside(L, S, y, z) PROVE x = y
  <2>1. PICK g \in Heads \ S : \E i \in 0..Len(L[g]) :
               x = Cell(g, L[g], i) /\ z = Succ(g, L[g], i)
    BY <1>8 DEF Beside
  <2>2. PICK h \in Heads \ S : \E i \in 0..Len(L[h]) :
               y = Cell(h, L[h], i) /\ z = Succ(h, L[h], i)
    BY <1>8 DEF Beside
  <2>3. PICK i \in 0..Len(L[g]) : x = Cell(g, L[g], i) /\ z = Succ(g, L[g], i)
    BY <2>1
  <2>4. PICK j \in 0..Len(L[h]) : y = Cell(h, L[h], j) /\ z = Succ(h, L[h], j)
    BY <2>2
  <2>5. g = h /\ i = j
    BY <1>5, <2>3, <2>4
  <2> QED BY <2>3, <2>4, <2>5
<1> QED
  BY <1>6, <1>7, <1>8

\* Who has a neighbour in front has one behind.
LEMMA AloneBothWays ==
  ASSUME NEW L, NEW S, AreLists(L, S), NEW y, Alone(L, S, y)
  PROVE  \A x : ~Beside(L, S, x, y)
<1> SUFFICES ASSUME NEW x, Beside(L, S, x, y) PROVE FALSE
  OBVIOUS
<1>1. PICK h \in Heads \ S : \E i \in 0..Len(L[h]) :
             x = Cell(h, L[h], i) /\ y = Succ(h, L[h], i)
  BY DEF Beside
<1>2. PICK i \in 0..Len(L[h]) : x = Cell(h, L[h], i) /\ y = Succ(h, L[h], i)
  BY <1>1
<1>3. Len(L[h]) \in Nat
  BY LenProperties DEF AreLists
<1>4. CASE i = Len(L[h])
  <2>1. y = Cell(h, L[h], 0) /\ 0 \in 0..Len(L[h])
    BY <1>2, <1>3, <1>4 DEF Succ, Cell
  <2> QED BY <2>1 DEF Alone, Beside
<1>5. CASE i # Len(L[h])
  <2>1. i + 1 \in 0..Len(L[h]) /\ i + 1 # 0
    BY <1>3, <1>5
  <2>2. y = Cell(h, L[h], i + 1)
    BY <1>2, <1>5, <2>1 DEF Succ, Cell
  <2> QED BY <2>1, <2>2 DEF Alone, Beside
<1> QED
  BY <1>4, <1>5

\* The neighbours in the lists K are the pairs of A, and some that were neighbours in L.
Relinks(L, S, K, T, A) ==
  /\ AreLists(K, T)
  /\ \A x, y : <<x, y>> \in A => Beside(K, T, x, y)
  /\ \A x, y : Beside(K, T, x, y) => <<x, y>> \in A \/ Beside(L, S, x, y)

\* The pairs of A are written in r, which is m but for them and for structs in no ring of K.
Wrote(r, m, A, K, T) ==
  /\ r \in Mem
  /\ \A x, y : <<x, y>> \in A => r.next[x] = y /\ r.prev[y] = x
  /\ \A x \in Cells : r.next[x] # m.next[x] => (\E y : <<x, y>> \in A) \/ Alone(K, T, x)
  /\ \A y \in Cells : r.prev[y] # m.prev[y] => (\E x : <<x, y>> \in A) \/ Alone(K, T, y)

\* Who writes the new pairs of neighbours, and else only structs that are in no ring,
\* has made the rings of the new lists.
LEMMA Relink ==
  ASSUME NEW m, NEW L, NEW S, Rings(m, L, S), NEW K, NEW T, NEW A, Relinks(L, S, K, T, A),
         NEW r, Wrote(r, m, A, K, T)
  PROVE  Rings(r, K, T)
<1>0. /\ AreLists(K, T) /\ r \in Mem
      /\ \A x, y : <<x, y>> \in A => Beside(K, T, x, y)
      /\ \A x, y : Beside(K, T, x, y) => <<x, y>> \in A \/ Beside(L, S, x, y)
      /\ \A x, y : <<x, y>> \in A => r.next[x] = y /\ r.prev[y] = x
      /\ \A x \in Cells : r.next[x] # m.next[x] => (\E y : <<x, y>> \in A) \/ Alone(K, T, x)
      /\ \A y \in Cells : r.prev[y] # m.prev[y] => (\E x : <<x, y>> \in A) \/ Alone(K, T, y)
  BY DEF Relinks, Wrote
<1> SUFFICES ASSUME NEW x, NEW y, Beside(K, T, x, y)
             PROVE  r.next[x] = y /\ r.prev[y] = x
  BY <1>0 DEF Rings
<1>1. CASE <<x, y>> \in A
  BY <1>0, <1>1
<1>2. CASE <<x, y>> \notin A
  <2>1. m.next[x] = y /\ m.prev[y] = x
    BY <1>0, <1>2 DEF Rings
  <2>2. x \in Cells /\ y \in Cells
    BY <1>0, OneNeighbour
  <2>3. r.next[x] = m.next[x]
    <3> SUFFICES ASSUME r.next[x] # m.next[x] PROVE FALSE
      OBVIOUS
    <3>1. ~Alone(K, T, x)
      BY DEF Alone
    <3>2. PICK z : <<x, z>> \in A
      BY <1>0, <2>2, <3>1
    <3>3. z = y
      BY <1>0, <3>2, OneNeighbour
    <3> QED BY <1>2, <3>2, <3>3
  <2>4. r.prev[y] = m.prev[y]
    <3> SUFFICES ASSUME r.prev[y] # m.prev[y] PROVE FALSE
      OBVIOUS
    <3>1. ~Alone(K, T, y)
      BY <1>0, AloneBothWays
    <3>2. PICK z : <<z, y>> \in A
      BY <1>0, <2>2, <3>1
    <3>3. z = x
      BY <1>0, <3>2, OneNeighbour
    <3> QED BY <1>2, <3>2, <3>3
  <2> QED BY <2>1, <2>3, <2>4
<1> QED
  BY <1>1, <1>2

-----------------------------------------------------------------------------
(* What the functions write.                                               *)

\* The pointers r are those of m but at the structs of X (next) and of Y (prev).
Elsewhere(r, m, X, Y) ==
  /\ \A z \in Cells \ X : r.next[z] = m.next[z]
  /\ \A z \in Cells \ Y : r.prev[z] = m.prev[z]

LEMMA NextWritten ==
  \A m \in Mem : \A x \in Cells, v \in Ptr :
    /\ SetNext(m, x, v) \in Mem
    /\ SetNext(m, x, v).next[x] = v
    /\ \A z \in Cells \ {x} : SetNext(m, x, v).next[z] = m.next[z]
    /\ SetNext(m, x, v).prev = m.prev
BY DEF SetNext, Mem

LEMMA PrevWritten ==
  \A m \in Mem : \A x \in Cells, v \in Ptr :
    /\ SetPrev(m, x, v) \in Mem
    /\ SetPrev(m, x, v).prev[x] = v
    /\ \A z \in Cells \ {x} : SetPrev(m, x, v).prev[z] = m.prev[z]
    /\ SetPrev(m, x, v).next = m.next
BY DEF SetPrev, Mem

LEMMA CellsArePtr == Cells \subseteq Ptr
BY DEF Ptr

LEMMA InitWrites ==
  ASSUME NEW m \in Mem, NEW h \in Cells
  PROVE  LET r == INIT_LIST_HEAD(m, h)
         IN  r \in Mem /\ r.next[h] = h /\ r.prev[h] = h /\ Elsewhere(r, m, {h}, {h})
<1> DEFINE a == SetNext(m, h, h)
           r == SetPrev(a, h, h)
<1>1. a \in Mem /\ a.next[h] = h /\ a.prev = m.prev /\ \A z \in Cells \ {h} : a.next[z] = m.next[z]
  BY NextWritten, CellsArePtr
<1> HIDE DEF a
<1>2. r \in Mem /\ r.prev[h] = h /\ r.next = a.next /\ \A z \in Cells \ {h} : r.prev[z] = a.prev[z]
  <2>1. a \in Mem
    BY <1>1
  <2> QED BY <2>1, PrevWritten, CellsArePtr
<1> HIDE DEF r
<1>3. r \in Mem /\ r.next[h] = h /\ r.prev[h] = h /\ Elsewhere(r, m, {h}, {h})
  BY <1>1, <1>2 DEF Elsewhere
<1> QED
  BY <1>3 DEF INIT_LIST_HEAD, a, r

LEMMA AddWrites ==
  ASSUME NEW m \in Mem, NEW n \in Cells, NEW x \in Cells, NEW y \in Cells, n # x, n # y
  PROVE  LET r == AddBetween(m, n, x, y)
         IN  /\ r \in Mem
             /\ r.next[x] = n /\ r.prev[n] = x /\ r.next[n] = y /\ r.prev[y] = n
             /\ Elsewhere(r, m, {x, n}, {n, y})
<1> DEFINE a == SetPrev(m, y, n)
           b == SetNext(a, n, y)
           c == SetPrev(b, n, x)
           r == SetNext(c, x, n)
<1>1. a \in Mem /\ a.prev[y] = n /\ a.next = m.next /\ \A z \in Cells \ {y} : a.prev[z] = m.prev[z]
  BY PrevWritten, CellsArePtr
<1> HIDE DEF a
<1>2. b \in Mem /\ b.next[n] = y /\ b.prev = a.prev /\ \A z \in Cells \ {n} : b.next[z] = a.next[z]
  <2>1. a \in Mem
    BY <1>1
  <2> QED BY <2>1, NextWritten, CellsArePtr
<1> HIDE DEF b
<1>3. c \in Mem /\ c.prev[n] = x /\ c.next = b.next /\ \A z \in Cells \ {n} : c.prev[z] = b.prev[z]
  <2>1. b \in Mem
    BY <1>2
  <2> QED BY <2>1, PrevWritten, CellsArePtr
<1> HIDE DEF c
<1>4. r \in Mem /\ r.next[x] = n /\ r.prev = c.prev /\ \A z \in Cells \ {x} : r.next[z] = c.next[z]
  <2>1. c \in Mem
    BY <1>3
  <2> QED BY <2>1, NextWritten, CellsArePtr
<1> HIDE DEF r
<1>5. /\ r \in Mem
      /\ r.next[x] = n /\ r.prev[n] = x /\ r.next[n] = y /\ r.prev[y] = n
      /\ Elsewhere(r, m, {x, n}, {n, y})
  BY <1>1, <1>2, <1>3, <1>4 DEF Elsewhere
<1> QED
  BY <1>5 DEF AddBetween, a, b, c, r

LEMMA DelWrites ==
  ASSUME NEW m \in Mem, NEW x \in Cells, NEW y \in Cells
  PROVE  LET r == DelBetween(m, x, y)
         IN  r \in Mem /\ r.next[x] = y /\ r.prev[y] = x /\ Elsewhere(r, m, {x}, {y})
<1> DEFINE a == SetPrev(m, y, x)
           r == SetNext(a, x, y)
<1>1. a \in Mem /\ a.prev[y] = x /\ a.next = m.next /\ \A z \in Cells \ {y} : a.prev[z] = m.prev[z]
  BY PrevWritten, CellsArePtr
<1> HIDE DEF a
<1>2. r \in Mem /\ r.next[x] = y /\ r.prev = a.prev /\ \A z \in Cells \ {x} : r.next[z] = a.next[z]
  <2>1. a \in Mem
    BY <1>1
  <2> QED BY <2>1, NextWritten, CellsArePtr
<1> HIDE DEF r
<1>3. r \in Mem /\ r.next[x] = y /\ r.prev[y] = x /\ Elsewhere(r, m, {x}, {y})
  BY <1>1, <1>2 DEF Elsewhere
<1> QED
  BY <1>3 DEF DelBetween, a, r

\* n is between x and y in r, which is m elsewhere; o was there, or was alone with itself.
InPlace(r, m, o, n, x, y) ==
  /\ r \in Mem
  /\ y # o => /\ r.next[x] = n /\ r.prev[n] = x /\ r.next[n] = y /\ r.prev[y] = n
              /\ Elsewhere(r, m, {x, n}, {n, y})
  /\ y = o => r.next[n] = n /\ r.prev[n] = n /\ Elsewhere(r, m, {n}, {n, o})

LEMMA ReplaceWrites ==
  ASSUME NEW m \in Mem, NEW o \in Cells, NEW n \in Cells, n # o, NEW x \in Cells, NEW y \in Cells,
         m.next[o] = y, m.prev[o] = x, (x # o /\ y # o) \/ (x = o /\ y = o), n # x, n # y
  PROVE  InPlace(list_replace(m, o, n), m, o, n, x, y)
<1> DEFINE v == IF y = o THEN n ELSE x
           a == SetNext(m, n, y)
           b == SetPrev(a, y, n)
           c == SetPrev(b, n, v)
           r == SetNext(c, v, n)
<1>1. a \in Mem /\ a.next[n] = y /\ a.prev = m.prev /\ \A z \in Cells \ {n} : a.next[z] = m.next[z]
  BY NextWritten, CellsArePtr
<1>2. b = SetPrev(a, a.next[n], n)
  BY <1>1
<1> HIDE DEF a
<1>3. b \in Mem /\ b.prev[y] = n /\ b.next = a.next /\ \A z \in Cells \ {y} : b.prev[z] = a.prev[z]
  <2>1. a \in Mem
    BY <1>1
  <2> QED BY <2>1, PrevWritten, CellsArePtr
<1>4. b.prev[o] = v /\ v \in Cells
  BY <1>1, <1>3
<1>5. c = SetPrev(b, n, b.prev[o])
  BY <1>4
<1> HIDE DEF b, v
<1>6. c \in Mem /\ c.prev[n] = v /\ c.next = b.next /\ \A z \in Cells \ {n} : c.prev[z] = b.prev[z]
  <2>1. b \in Mem /\ v \in Ptr
    BY <1>3, <1>4, CellsArePtr
  <2> QED BY <2>1, PrevWritten
<1>7. r = SetNext(c, c.prev[n], n)
  BY <1>6
<1> HIDE DEF c
<1>8. r \in Mem /\ r.next[v] = n /\ r.prev = c.prev /\ \A z \in Cells \ {v} : r.next[z] = c.next[z]
  <2>1. c \in Mem /\ v \in Cells
    BY <1>4, <1>6
  <2> QED BY <2>1, NextWritten, CellsArePtr
<1>9. r = list_replace(m, o, n)
  <2>1. a = SetNext(m, n, m.next[o])
    BY DEF a
  <2> HIDE DEF r
  <2> QED BY <1>2, <1>5, <1>7, <2>1 DEF list_replace
<1> HIDE DEF r
<1>10. ASSUME y # o
       PROVE  /\ r.next[x] = n /\ r.prev[n] = x /\ r.next[n] = y /\ r.prev[y] = n
              /\ Elsewhere(r, m, {x, n}, {n, y})
  <2>1. v = x
    BY <1>10 DEF v
  <2> QED BY <1>1, <1>3, <1>6, <1>8, <2>1 DEF Elsewhere
<1>11. ASSUME y = o
       PROVE  r.next[n] = n /\ r.prev[n] = n /\ Elsewhere(r, m, {n}, {n, o})
  <2>1. v = n
    BY <1>11 DEF v
  <2> QED BY <1>1, <1>3, <1>6, <1>8, <1>11, <2>1 DEF Elsewhere
<1> QED
  BY <1>8, <1>9, <1>10, <1>11 DEF InPlace

\* The entries from x to y put between p and n.
LEMMA SpliceWrites ==
  ASSUME NEW m \in Mem, NEW g \in Cells, NEW p \in Cells, NEW n \in Cells,
         NEW x \in Cells, NEW y \in Cells, m.next[g] = x, m.prev[g] = y, p # y, n # x
  PROVE  LET r == SpliceBetween(m, g, p, n)
         IN  /\ r \in Mem
             /\ r.next[p] = x /\ r.prev[x] = p /\ r.next[y] = n /\ r.prev[n] = y
             /\ Elsewhere(r, m, {p, y}, {x, n})
<1> DEFINE a == SetPrev(m, x, p)
           b == SetNext(a, p, x)
           c == SetNext(b, y, n)
           r == SetPrev(c, n, y)
<1>1. a \in Mem /\ a.prev[x] = p /\ a.next = m.next /\ \A z \in Cells \ {x} : a.prev[z] = m.prev[z]
  BY PrevWritten, CellsArePtr
<1> HIDE DEF a
<1>2. b \in Mem /\ b.next[p] = x /\ b.prev = a.prev /\ \A z \in Cells \ {p} : b.next[z] = a.next[z]
  <2>1. a \in Mem
    BY <1>1
  <2> QED BY <2>1, NextWritten, CellsArePtr
<1> HIDE DEF b
<1>3. c \in Mem /\ c.next[y] = n /\ c.prev = b.prev /\ \A z \in Cells \ {y} : c.next[z] = b.next[z]
  <2>1. b \in Mem
    BY <1>2
  <2> QED BY <2>1, NextWritten, CellsArePtr
<1> HIDE DEF c
<1>4. r \in Mem /\ r.prev[n] = y /\ r.next = c.next /\ \A z \in Cells \ {n} : r.prev[z] = c.prev[z]
  <2>1. c \in Mem
    BY <1>3
  <2> QED BY <2>1, PrevWritten, CellsArePtr
<1> HIDE DEF r
<1>5. /\ r \in Mem
      /\ r.next[p] = x /\ r.prev[x] = p /\ r.next[y] = n /\ r.prev[n] = y
      /\ Elsewhere(r, m, {p, y}, {x, n})
  BY <1>1, <1>2, <1>3, <1>4 DEF Elsewhere
<1> QED
  BY <1>5 DEF SpliceBetween, a, b, c, r

\* What is from x to e now is behind g, and h stands before y.
CutOff(r, m, g, h, e, x, y) ==
  /\ r \in Mem
  /\ r.next[g] = x /\ r.prev[x] = g /\ r.next[e] = g /\ r.prev[g] = e
  /\ r.next[h] = y /\ r.prev[y] = h
  /\ Elsewhere(r, m, {g, e, h}, {x, g, y})

LEMMA CutWrites ==
  ASSUME NEW m \in Mem, NEW g \in Cells, NEW h \in Cells, NEW e \in Cells,
         NEW x \in Cells, NEW y \in Cells, m.next[h] = x, m.next[e] = y,
         g # h, g # e, h # e, x # y, x # g, y # g
  PROVE  CutOff(CutAt(m, g, h, e), m, g, h, e, x, y)
<1> DEFINE a == SetNext(m, g, x)
           b == SetPrev(a, x, g)
           c == SetPrev(b, g, e)
           d == SetNext(c, e, g)
           f == SetNext(d, h, y)
           r == SetPrev(f, y, h)
<1>1. a \in Mem /\ a.next[g] = x /\ a.prev = m.prev /\ \A z \in Cells \ {g} : a.next[z] = m.next[z]
  BY NextWritten, CellsArePtr
<1>0. b = SetPrev(a, a.next[g], g)
  BY <1>1
<1> HIDE DEF a
<1>2. b \in Mem /\ b.prev[x] = g /\ b.next = a.next /\ \A z \in Cells \ {x} : b.prev[z] = a.prev[z]
  <2>1. a \in Mem
    BY <1>1
  <2> QED BY <2>1, PrevWritten, CellsArePtr
<1> HIDE DEF b
<1>3. c \in Mem /\ c.prev[g] = e /\ c.next = b.next /\ \A z \in Cells \ {g} : c.prev[z] = b.prev[z]
  <2>1. b \in Mem
    BY <1>2
  <2> QED BY <2>1, PrevWritten, CellsArePtr
<1> HIDE DEF c
<1>4. d \in Mem /\ d.next[e] = g /\ d.prev = c.prev /\ \A z \in Cells \ {e} : d.next[z] = c.next[z]
  <2>1. c \in Mem
    BY <1>3
  <2> QED BY <2>1, NextWritten, CellsArePtr
<1> HIDE DEF d
<1>5. f \in Mem /\ f.next[h] = y /\ f.prev = d.prev /\ \A z \in Cells \ {h} : f.next[z] = d.next[z]
  <2>1. d \in Mem
    BY <1>4
  <2> QED BY <2>1, NextWritten, CellsArePtr
<1> HIDE DEF f
<1>6. r \in Mem /\ r.prev[y] = h /\ r.next = f.next /\ \A z \in Cells \ {y} : r.prev[z] = f.prev[z]
  <2>1. f \in Mem
    BY <1>5
  <2> QED BY <2>1, PrevWritten, CellsArePtr
<1> HIDE DEF r
<1>7. /\ r \in Mem
      /\ r.next[g] = x /\ r.prev[x] = g /\ r.next[e] = g /\ r.prev[g] = e
      /\ r.next[h] = y /\ r.prev[y] = h
  BY <1>1, <1>2, <1>3, <1>4, <1>5, <1>6
<1>8. Elsewhere(r, m, {g, e, h}, {x, g, y})
  BY <1>1, <1>2, <1>3, <1>4, <1>5, <1>6 DEF Elsewhere
<1> QED
  <2>1. a = SetNext(m, g, m.next[h])
    BY DEF a
  <2>2. r = CutAt(m, g, h, e)
    BY <1>0, <2>1 DEF CutAt, c, d, f, r
  <2> QED BY <1>7, <1>8, <2>2 DEF CutOff

-----------------------------------------------------------------------------
(* Changes of the lists, seen as changes of the pairs of neighbours.       *)

\* A place of the list of h, and the one behind it.
Onward(h, s) ==
  /\ Len(s) \in Nat /\ Succ(h, s, Len(s)) = h /\ Cell(h, s, 0) = h
  /\ \A i \in 0..Len(s) :
       i # Len(s) => /\ i + 1 \in 0..Len(s) /\ i + 1 # 0 /\ i + 1 \in 1..Len(s)
                     /\ Succ(h, s, i) = Cell(h, s, i + 1) /\ Succ(h, s, i) = s[i + 1]

LEMMA SuccIsCell ==
  ASSUME NEW s \in Seq(Nodes), NEW h
  PROVE  Onward(h, s)
<1>1. Len(s) \in Nat
  BY LenProperties
<1>2. ASSUME NEW i \in 0..Len(s), i # Len(s)
      PROVE  i + 1 \in 0..Len(s) /\ i + 1 # 0 /\ i + 1 \in 1..Len(s)
  BY <1>1, <1>2
<1> QED
  BY <1>1, <1>2 DEF Onward, Succ, Cell

LEMMA WithPairs ==
  ASSUME NEW L, NEW S, AreLists(L, S), NEW n \in Nodes, Outside(L, n),
         NEW h \in Heads \ S, NEW q \in 0..Len(L[h]),
         NEW x, x = Cell(h, L[h], q), NEW y, y = Succ(h, L[h], q)
  PROVE  LET K == With(L, h, q, n)
         IN  /\ AreLists(K, S)
             /\ x \in Cells /\ y \in Cells /\ n \in Cells /\ n # x /\ n # y
             /\ Beside(K, S, x, n) /\ Beside(K, S, n, y)
             /\ \A a, b : Beside(K, S, a, b) =>
                  <<a, b>> \in {<<x, n>>, <<n, y>>} \/ Beside(L, S, a, b)
<1> DEFINE s == L[h]
           K == With(L, h, q, n)
           t == K[h]
<1>1. L \in [Heads -> Seq(Nodes)] /\ Once(L) /\ S \subseteq Heads /\ \A g \in S : L[g] = <<>>
  BY DEF AreLists
<1>2. /\ K \in [Heads -> Seq(Nodes)] /\ Once(K)
      /\ \A g \in Heads \ {h} : K[g] = L[g]
      /\ Len(t) = Len(s) + 1
      /\ \A i \in 0..Len(t) :
           Cell(h, t, i) = IF i <= q THEN Cell(h, s, i)
                           ELSE IF i = q + 1 THEN n ELSE Cell(h, s, i - 1)
  BY <1>1, Inserted
<1> HIDE DEF K
<1>3. AreLists(K, S)
  BY <1>1, <1>2 DEF AreLists
<1>4. s \in Seq(Nodes) /\ t \in Seq(Nodes)
  BY <1>1, <1>2
<1>5. /\ Len(s) \in Nat /\ Succ(h, s, Len(s)) = h /\ Cell(h, s, 0) = h
      /\ \A i \in 0..Len(s) :
           i # Len(s) => /\ i + 1 \in 0..Len(s) /\ i + 1 # 0 /\ i + 1 \in 1..Len(s)
                         /\ Succ(h, s, i) = Cell(h, s, i + 1) /\ Succ(h, s, i) = s[i + 1]
  <2>1. Onward(h, s)
    BY <1>4, SuccIsCell
  <2> QED BY <2>1 DEF Onward
<1>6. /\ Len(t) \in Nat /\ Succ(h, t, Len(t)) = h
      /\ \A i \in 0..Len(t) :
           i # Len(t) => /\ i + 1 \in 0..Len(t) /\ i + 1 # 0
                         /\ Succ(h, t, i) = Cell(h, t, i + 1)
  <2> HIDE DEF s, t
  <2>1. Onward(h, t)
    BY <1>4, SuccIsCell
  <2> QED BY <2>1 DEF Onward
<1>7. q \in Nat /\ q <= Len(s)
  BY <1>5
<1> HIDE DEF s, t
<1>8. ASSUME NEW i \in 0..Len(t)
      PROVE  \/ i = q /\ Cell(h, t, i) = x /\ Succ(h, t, i) = n
             \/ i = q + 1 /\ Cell(h, t, i) = n /\ Succ(h, t, i) = y
             \/ i < q /\ Cell(h, t, i) = Cell(h, s, i) /\ Succ(h, t, i) = Succ(h, s, i)
                /\ i \in 0..Len(s)
             \/ i > q + 1 /\ Cell(h, t, i) = Cell(h, s, i - 1) /\ Succ(h, t, i) = Succ(h, s, i - 1)
                /\ i - 1 \in 0..Len(s)
  <2>1. CASE i = q
    <3>1. i # Len(t) /\ i <= q /\ ~ (i + 1 <= q)
      BY <1>2, <1>5, <1>7, <2>1
    <3>2. Succ(h, t, i) = n
      BY <1>2, <1>6, <2>1, <3>1
    <3> QED BY <1>2, <2>1, <3>1, <3>2 DEF s
  <2>2. CASE i = q + 1
    <3>1. /\ ~ (i <= q) /\ (i = Len(t) <=> q = Len(s))
          /\ ~ (i + 1 <= q) /\ i + 1 # q + 1 /\ (i + 1) - 1 = q + 1
      BY <1>2, <1>5, <1>7, <2>2
    <3>2. Cell(h, t, i) = n
      BY <1>2, <2>2, <3>1
    <3>3. Succ(h, t, i) = y
      <4>1. CASE q = Len(s)
        BY <1>5, <1>6, <3>1, <4>1 DEF s
      <4>2. CASE q # Len(s)
        <5>1. Succ(h, t, i) = Cell(h, t, i + 1) /\ i + 1 \in 0..Len(t)
          BY <1>6, <3>1, <4>2
        <5>2. Cell(h, t, i + 1) = Cell(h, s, q + 1)
          BY <1>2, <3>1, <5>1
        <5>3. y = Cell(h, s, q + 1)
          BY <1>5, <4>2 DEF s
        <5> QED BY <5>1, <5>2, <5>3
      <4> QED BY <4>1, <4>2
    <3> QED BY <2>2, <3>2, <3>3
  <2>3. CASE i < q
    <3>1. i \in 0..Len(s) /\ i # Len(s) /\ i # Len(t) /\ i <= q /\ i + 1 <= q
      BY <1>2, <1>5, <1>7, <2>3
    <3>2. Cell(h, t, i) = Cell(h, s, i)
      BY <1>2, <3>1
    <3>3. Succ(h, t, i) = Succ(h, s, i)
      <4>1. Succ(h, t, i) = Cell(h, t, i + 1) /\ i + 1 \in 0..Len(t)
        BY <1>6, <3>1
      <4>2. Cell(h, t, i + 1) = Cell(h, s, i + 1)
        BY <1>2, <3>1, <4>1
      <4> QED BY <1>5, <3>1, <4>1, <4>2
    <3> QED BY <2>3, <3>1, <3>2, <3>3
  <2>4. CASE i > q + 1
    <3> DEFINE j == i - 1
    <3>1. /\ j \in 0..Len(s) /\ (i = Len(t) <=> j = Len(s)) /\ ~ (i <= q) /\ i # q + 1
          /\ ~ (i + 1 <= q) /\ i + 1 # q + 1 /\ (i + 1) - 1 = j + 1
      BY <1>2, <1>5, <1>7, <2>4
    <3>2. Cell(h, t, i) = Cell(h, s, j)
      BY <1>2, <3>1
    <3>3. i # Len(t) => Cell(h, t, i + 1) = Cell(h, s, j + 1)
      <4>1. i # Len(t) => i + 1 \in 0..Len(t)
        BY <1>6
      <4>2. j + 1 = i
        BY <1>6
      <4> QED BY <1>2, <3>1, <4>1, <4>2
    <3>4. Succ(h, t, i) = Succ(h, s, j)
      <4> HIDE DEF j
      <4> QED BY <1>5, <1>6, <3>1, <3>3
    <3> QED BY <2>4, <3>1, <3>2, <3>4
  <2> QED BY <1>6, <1>7, <2>1, <2>2, <2>3, <2>4
<1>9. q \in 0..Len(t) /\ q + 1 \in 0..Len(t) /\ q # q + 1
  BY <1>2, <1>5, <1>7
<1>10. Beside(K, S, x, n)
  <2>1. Cell(h, t, q) = x /\ Succ(h, t, q) = n
    BY <1>7, <1>8, <1>9
  <2> QED BY <1>9, <2>1 DEF Beside, t
<1>11. Beside(K, S, n, y)
  <2> DEFINE p == q + 1
  <2>1. Cell(h, t, p) = n /\ Succ(h, t, p) = y /\ p \in 0..Len(t)
    BY <1>7, <1>8, <1>9
  <2> HIDE DEF p
  <2> QED BY <2>1 DEF Beside, t
<1>12. ASSUME NEW a, NEW b, Beside(K, S, a, b)
       PROVE  <<a, b>> \in {<<x, n>>, <<n, y>>} \/ Beside(L, S, a, b)
  <2>1. PICK g \in Heads \ S : \E i \in 0..Len(K[g]) :
               a = Cell(g, K[g], i) /\ b = Succ(g, K[g], i)
    BY <1>12 DEF Beside
  <2>2. PICK i \in 0..Len(K[g]) : a = Cell(g, K[g], i) /\ b = Succ(g, K[g], i)
    BY <2>1
  <2>3. CASE g # h
    BY <1>2, <2>2, <2>3 DEF Beside
  <2>4. CASE g = h
    <3>1. i \in 0..Len(t) /\ a = Cell(h, t, i) /\ b = Succ(h, t, i)
      BY <2>2, <2>4 DEF t
    <3>2. \/ <<a, b>> \in {<<x, n>>, <<n, y>>}
          \/ \E j \in 0..Len(s) : a = Cell(h, s, j) /\ b = Succ(h, s, j)
      BY <1>8, <3>1
    <3> QED BY <3>2 DEF Beside, s
  <2> QED BY <2>3, <2>4
<1>13. n # x /\ n # y /\ x \in Cells /\ y \in Cells /\ n \in Cells
  <2>1. \A i \in 1..Len(s) : s[i] # n /\ s[i] \in Nodes
    BY <1>1, PlacesDiffer DEF Outside, s
  <2>2. x \in Cells
    BY <1>1, PlacesDiffer
  <2>3. y \in Cells
    BY <1>1, SuccPlaces
  <2>4. n # x
    <3>1. q # 0 => q \in 1..Len(s)
      BY <1>5, <1>7
    <3> QED BY <2>1, <3>1, CellsAssumption DEF Cell, s
  <2>5. n # y
    BY <1>5, <2>1, CellsAssumption DEF s
  <2> QED BY <2>2, <2>3, <2>4, <2>5 DEF Cells
<1> QED
  BY <1>3, <1>10, <1>11, <1>12, <1>13 DEF K

LEMMA LessPairs ==
  ASSUME NEW L, NEW S, AreLists(L, S), NEW h \in Heads \ S, NEW q \in 1..Len(L[h]),
         NEW x, x = Cell(h, L[h], q - 1), NEW y, y = Succ(h, L[h], q)
  PROVE  LET K == Less(L, h, q)
         IN  /\ AreLists(K, S)
             /\ x \in Cells /\ y \in Cells /\ L[h][q] \in Nodes /\ L[h][q] # x /\ L[h][q] # y
             /\ Beside(L, S, x, L[h][q]) /\ Beside(L, S, L[h][q], y)
             /\ Beside(K, S, x, y) /\ Alone(K, S, L[h][q])
             /\ \A a, b : Beside(K, S, a, b) => <<a, b>> \in {<<x, y>>} \/ Beside(L, S, a, b)
<1> DEFINE s == L[h]
           e == s[q]
           K == Less(L, h, q)
           t == K[h]
           p == q - 1
<1>1. L \in [Heads -> Seq(Nodes)] /\ Once(L) /\ S \subseteq Heads /\ \A g \in S : L[g] = <<>>
  BY DEF AreLists
<1>2. /\ K \in [Heads -> Seq(Nodes)] /\ Once(K)
      /\ \A g \in Heads \ {h} : K[g] = L[g]
      /\ Len(t) = Len(s) - 1
      /\ \A i \in 0..Len(t) :
           Cell(h, t, i) = IF i < q THEN Cell(h, s, i) ELSE Cell(h, s, i + 1)
      /\ Outside(K, e)
  BY <1>1, Removed
<1> HIDE DEF K
<1>3. AreLists(K, S)
  BY <1>1, <1>2 DEF AreLists
<1>4. s \in Seq(Nodes) /\ t \in Seq(Nodes)
  BY <1>1, <1>2
<1>5. /\ Len(s) \in Nat /\ Succ(h, s, Len(s)) = h /\ Cell(h, s, 0) = h
      /\ \A i \in 0..Len(s) :
           i # Len(s) => /\ i + 1 \in 0..Len(s) /\ i + 1 # 0 /\ i + 1 \in 1..Len(s)
                         /\ Succ(h, s, i) = Cell(h, s, i + 1) /\ Succ(h, s, i) = s[i + 1]
  <2>1. Onward(h, s)
    BY <1>4, SuccIsCell
  <2> QED BY <2>1 DEF Onward
<1>6. /\ Len(t) \in Nat /\ Succ(h, t, Len(t)) = h
      /\ \A i \in 0..Len(t) :
           i # Len(t) => /\ i + 1 \in 0..Len(t) /\ i + 1 # 0
                         /\ Succ(h, t, i) = Cell(h, t, i + 1)
  <2>1. Onward(h, t)
    BY <1>4, SuccIsCell
  <2> QED BY <2>1 DEF Onward
<1>7. q \in Nat /\ q <= Len(s) /\ 1 <= q /\ q # 0 /\ p \in 0..Len(s) /\ p # Len(s) /\ p + 1 = q
      /\ q \in 0..Len(s)
  BY <1>5
<1>8. e = Cell(h, s, q) /\ e = Succ(h, s, p) /\ x = Cell(h, s, p) /\ y = Succ(h, s, q)
  <2> HIDE DEF p
  <2>1. e = Cell(h, s, q)
    BY <1>7 DEF Cell
  <2>2. Succ(h, s, p) = Cell(h, s, q)
    BY <1>5, <1>7
  <2>3. x = Cell(h, s, p)
    BY DEF p
  <2> QED BY <2>1, <2>2, <2>3
<1> HIDE DEF s, t, p, e
<1>9. ASSUME NEW i \in 0..Len(t)
      PROVE  \/ i = p /\ Cell(h, t, i) = x /\ Succ(h, t, i) = y
             \/ i < p /\ Cell(h, t, i) = Cell(h, s, i) /\ Succ(h, t, i) = Succ(h, s, i)
                /\ i \in 0..Len(s)
             \/ i > p /\ Cell(h, t, i) = Cell(h, s, i + 1) /\ Succ(h, t, i) = Succ(h, s, i + 1)
                /\ i + 1 \in 0..Len(s)
  <2>1. CASE i = p
    <3>1. i < q /\ (i = Len(t) <=> q = Len(s)) /\ ~ (i + 1 < q) /\ (i + 1) + 1 = q + 1
      BY <1>2, <1>5, <1>7, <2>1
    <3>2. Cell(h, t, i) = x
      BY <1>2, <1>8, <2>1, <3>1
    <3>3. Succ(h, t, i) = y
      <4>1. CASE q = Len(s)
        BY <1>5, <1>6, <1>8, <3>1, <4>1
      <4>2. CASE q # Len(s)
        <5>1. Succ(h, t, i) = Cell(h, t, i + 1) /\ i + 1 \in 0..Len(t)
          BY <1>6, <3>1, <4>2
        <5>2. Cell(h, t, i + 1) = Cell(h, s, q + 1)
          BY <1>2, <3>1, <5>1
        <5>3. y = Cell(h, s, q + 1)
          BY <1>5, <1>7, <1>8, <4>2
        <5> QED BY <5>1, <5>2, <5>3
      <4> QED BY <4>1, <4>2
    <3> QED BY <2>1, <3>2, <3>3
  <2>2. CASE i < p
    <3>1. i \in 0..Len(s) /\ i # Len(s) /\ i # Len(t) /\ i < q /\ i + 1 < q
      BY <1>2, <1>5, <1>7, <2>2
    <3>2. Cell(h, t, i) = Cell(h, s, i)
      BY <1>2, <3>1
    <3>3. Succ(h, t, i) = Succ(h, s, i)
      <4>1. Succ(h, t, i) = Cell(h, t, i + 1) /\ i + 1 \in 0..Len(t)
        BY <1>6, <3>1
      <4>2. Cell(h, t, i + 1) = Cell(h, s, i + 1)
        BY <1>2, <3>1, <4>1
      <4> QED BY <1>5, <3>1, <4>1, <4>2
    <3> QED BY <2>2, <3>1, <3>2, <3>3
  <2>3. CASE i > p
    <3> DEFINE j == i + 1
    <3>1. /\ j \in 0..Len(s) /\ (i = Len(t) <=> j = Len(s)) /\ ~ (i < q) /\ ~ (j < q)
      BY <1>2, <1>5, <1>7, <2>3
    <3>2. Cell(h, t, i) = Cell(h, s, j)
      BY <1>2, <3>1
    <3>3. i # Len(t) => Succ(h, t, i) = Cell(h, s, j + 1)
      <4>1. i # Len(t) => j \in 0..Len(t) /\ Succ(h, t, i) = Cell(h, t, j)
        BY <1>6
      <4> HIDE DEF j
      <4> QED BY <1>2, <3>1, <4>1
    <3>4. Succ(h, t, i) = Succ(h, s, j)
      <4> HIDE DEF j
      <4> QED BY <1>5, <1>6, <3>1, <3>3
    <3> QED BY <2>3, <3>1, <3>2, <3>4
  <2> QED BY <1>5, <1>6, <1>7, <2>1, <2>2, <2>3
<1>10. p \in 0..Len(t)
  BY <1>2, <1>5, <1>7
<1>11. Beside(K, S, x, y)
  <2>1. Cell(h, t, p) = x /\ Succ(h, t, p) = y
    BY <1>6, <1>9, <1>10
  <2> QED BY <1>10, <2>1 DEF Beside, t
<1>12. Beside(L, S, x, e) /\ Beside(L, S, e, y)
  BY <1>7, <1>8 DEF Beside, s
<1>13. ASSUME NEW a, NEW b, Beside(K, S, a, b)
       PROVE  <<a, b>> \in {<<x, y>>} \/ Beside(L, S, a, b)
  <2>1. PICK g \in Heads \ S : \E i \in 0..Len(K[g]) :
               a = Cell(g, K[g], i) /\ b = Succ(g, K[g], i)
    BY <1>13 DEF Beside
  <2>2. PICK i \in 0..Len(K[g]) : a = Cell(g, K[g], i) /\ b = Succ(g, K[g], i)
    BY <2>1
  <2>3. CASE g # h
    BY <1>2, <2>2, <2>3 DEF Beside
  <2>4. CASE g = h
    <3>1. i \in 0..Len(t) /\ a = Cell(h, t, i) /\ b = Succ(h, t, i)
      BY <2>2, <2>4 DEF t
    <3>2. \/ <<a, b>> \in {<<x, y>>}
          \/ \E j \in 0..Len(s) : a = Cell(h, s, j) /\ b = Succ(h, s, j)
      BY <1>9, <3>1
    <3> QED BY <3>2 DEF Beside, s
  <2> QED BY <2>3, <2>4
<1>14. e \in Nodes /\ e # x /\ e # y /\ x \in Cells /\ y \in Cells
  <2>1. e \in Nodes
    BY <1>1, PlacesDiffer DEF e, s
  <2>2. x \in Cells /\ e # x
    <3>1. p # q
      BY <1>7
    <3>2. Cell(h, L[h], p) # Cell(h, L[h], q) /\ Cell(h, L[h], p) \in Cells
      BY <1>1, <1>7, <3>1, PlacesDiffer DEF s
    <3> QED BY <1>8, <3>2 DEF s
  <2>3. y \in Cells /\ e # y
    <3>1. p # q
      BY <1>7
    <3>2. Succ(h, L[h], p) # Succ(h, L[h], q) /\ Succ(h, L[h], q) \in Cells
      BY <1>1, <1>7, <3>1, SuccPlaces DEF s
    <3> QED BY <1>8, <3>2 DEF s
  <2> QED BY <2>1, <2>2, <2>3
<1>15. Alone(K, S, e)
  <2> SUFFICES ASSUME NEW b, Beside(K, S, e, b) PROVE FALSE
    BY DEF Alone
  <2>1. PICK g \in Heads \ S : \E i \in 0..Len(K[g]) : e = Cell(g, K[g], i)
    BY DEF Beside
  <2>2. PICK i \in 0..Len(K[g]) : e = Cell(g, K[g], i)
    BY <2>1
  <2>3. i # 0 => i \in 1..Len(K[g])
    BY <1>2, LenProperties
  <2> QED BY <1>2, <1>14, <2>2, <2>3, CellsAssumption DEF Cell, Outside
<1> QED
  BY <1>3, <1>11, <1>12, <1>13, <1>14, <1>15 DEF K, e, s

LEMMA LessOutside ==
  ASSUME NEW L \in [Heads -> Seq(Nodes)], Once(L), NEW h \in Heads, NEW q \in 1..Len(L[h]),
         NEW n, Outside(L, n)
  PROVE  Outside(Less(L, h, q), n)
<1> DEFINE K == Less(L, h, q)
<1>1. /\ \A g \in Heads \ {h} : K[g] = L[g]
      /\ Len(K[h]) = Len(L[h]) - 1
      /\ \A i \in 0..Len(K[h]) :
           Cell(h, K[h], i) = IF i < q THEN Cell(h, L[h], i) ELSE Cell(h, L[h], i + 1)
  BY Removed
<1>2. Len(L[h]) \in Nat
  BY LenProperties
<1> HIDE DEF K
<1> SUFFICES ASSUME NEW g \in Heads, NEW i \in 1..Len(K[g]), K[g][i] = n PROVE FALSE
  BY DEF Outside, K
<1>3. CASE g # h
  BY <1>1, <1>3 DEF Outside
<1>4. CASE g = h
  <2>1. /\ i \in 0..Len(K[h]) /\ i # 0 /\ i + 1 # 0
        /\ i + 1 \in 1..Len(L[h]) /\ i \in 1..Len(L[h])
    BY <1>1, <1>2, <1>4
  <2>2. n = Cell(h, K[h], i)
    BY <1>4, <2>1 DEF Cell
  <2>3. n = IF i < q THEN L[h][i] ELSE L[h][i + 1]
    BY <1>1, <2>1, <2>2 DEF Cell
  <2> QED BY <2>1, <2>3 DEF Outside
<1> QED
  BY <1>3, <1>4

\* A node put in the place of another.
LEMMA ReplacedPairs ==
  ASSUME NEW L, NEW S, AreLists(L, S), NEW h \in Heads \ S, NEW q \in 1..Len(L[h]),
         NEW n \in Nodes, Outside(L, n),
         NEW x, x = Cell(h, L[h], q - 1), NEW y, y = Succ(h, L[h], q)
  PROVE  LET K == With(Less(L, h, q), h, q - 1, n)
         IN  /\ AreLists(K, S)
             /\ x \in Cells /\ y \in Cells /\ n # x /\ n # y
             /\ Beside(K, S, x, n) /\ Beside(K, S, n, y) /\ Alone(K, S, L[h][q])
             /\ \A a, b : Beside(K, S, a, b) =>
                  <<a, b>> \in {<<x, n>>, <<n, y>>} \/ Beside(L, S, a, b)
<1> DEFINE e == L[h][q]
           p == q - 1
           J == Less(L, h, q)
           K == With(J, h, p, n)
<1>1. L \in [Heads -> Seq(Nodes)] /\ Once(L)
  BY DEF AreLists
<1>2. /\ AreLists(J, S) /\ x \in Cells /\ y \in Cells /\ e \in Nodes /\ e # x /\ e # y
      /\ Beside(J, S, x, y) /\ Alone(J, S, e)
      /\ \A a, b : Beside(J, S, a, b) => <<a, b>> \in {<<x, y>>} \/ Beside(L, S, a, b)
  BY LessPairs
<1>3. /\ J \in [Heads -> Seq(Nodes)] /\ Once(J) /\ Outside(J, n)
      /\ p \in 0..Len(J[h]) /\ Cell(h, J[h], p) = x
  <2>1. /\ J \in [Heads -> Seq(Nodes)] /\ Once(J) /\ Len(J[h]) = Len(L[h]) - 1
        /\ \A i \in 0..Len(J[h]) :
             Cell(h, J[h], i) = IF i < q THEN Cell(h, L[h], i) ELSE Cell(h, L[h], i + 1)
    BY <1>1, Removed
  <2>2. Len(L[h]) \in Nat
    BY <1>1, LenProperties
  <2> HIDE DEF J
  <2>3. p \in 0..Len(J[h]) /\ p < q
    BY <2>1, <2>2
  <2>4. Outside(J, n)
    BY <1>1, LessOutside DEF J
  <2> QED BY <2>1, <2>3, <2>4
<1> HIDE DEF J, p
<1>4. y = Succ(h, J[h], p)
  <2>1. Beside(J, S, x, Succ(h, J[h], p))
    BY <1>3 DEF Beside
  <2> QED BY <1>2, <2>1, OneNeighbour
<1>5. /\ AreLists(K, S) /\ n # x /\ n # y
      /\ Beside(K, S, x, n) /\ Beside(K, S, n, y)
      /\ \A a, b : Beside(K, S, a, b) =>
           <<a, b>> \in {<<x, n>>, <<n, y>>} \/ Beside(J, S, a, b)
  BY <1>2, <1>3, <1>4, WithPairs
<1> HIDE DEF K, e
<1>6. ASSUME NEW a, NEW b, Beside(K, S, a, b)
      PROVE  <<a, b>> \in {<<x, n>>, <<n, y>>} \/ Beside(L, S, a, b)
  <2>1. ~Beside(K, S, x, y)
    BY <1>5, OneNeighbour
  <2> QED BY <1>2, <1>5, <1>6, <2>1
<1>7. Alone(K, S, e)
  <2>1. e # n
    <3>1. L[h][q] # n
      BY DEF Outside
    <3> QED BY <3>1 DEF e
  <2> QED BY <1>2, <1>5, <2>1 DEF Alone
<1> QED
  BY <1>2, <1>5, <1>6, <1>7 DEF K, J, e, p

\* A head that has been spliced away is initialised.
LEMMA InitPairs ==
  ASSUME NEW L, NEW S, AreLists(L, S), NEW h \in Heads, L[h] = <<>>, NEW T, T = S \ {h}
  PROVE  /\ AreLists(L, T) /\ Beside(L, T, h, h)
         /\ \A a, b : Beside(L, T, a, b) => <<a, b>> \in {<<h, h>>} \/ Beside(L, S, a, b)
<1>1. AreLists(L, T)
  BY DEF AreLists
<1>2. Len(L[h]) = 0
  OBVIOUS
<1>3. Beside(L, T, h, h)
  BY <1>2 DEF Beside, Cell, Succ
<1>4. ASSUME NEW a, NEW b, Beside(L, T, a, b)
      PROVE  <<a, b>> \in {<<h, h>>} \/ Beside(L, S, a, b)
  <2>1. PICK g \in Heads \ T : \E i \in 0..Len(L[g]) :
               a = Cell(g, L[g], i) /\ b = Succ(g, L[g], i)
    BY <1>4 DEF Beside
  <2>2. PICK i \in 0..Len(L[g]) : a = Cell(g, L[g], i) /\ b = Succ(g, L[g], i)
    BY <2>1
  <2>3. CASE g = h
    <3>1. i = 0
      BY <1>2, <2>2, <2>3
    <3> QED BY <1>2, <2>2, <2>3, <3>1 DEF Cell, Succ
  <2>4. CASE g # h
    BY <2>2, <2>4 DEF Beside
  <2> QED BY <2>3, <2>4
<1> QED
  BY <1>1, <1>3, <1>4

\* s, a list of h, is the list a with the list b behind it, place by place.
Behind(h, s, a, b) ==
  /\ s \in Seq(Nodes) /\ Len(s) = Len(a) + Len(b)
  /\ Len(a) \in Nat /\ Len(b) \in Nat
  /\ \A i \in 1..Len(s) : \/ i \in 1..Len(a) /\ s[i] = a[i]
                          \/ i - Len(a) \in 1..Len(b) /\ s[i] = b[i - Len(a)]
  /\ \A i \in 1..Len(a) : i \in 1..Len(s) /\ s[i] = a[i]
  /\ \A i \in 1..Len(b) : Len(a) + i \in 1..Len(s) /\ s[Len(a) + i] = b[i]
  /\ \A i \in 0..Len(a) :
       /\ i \in 0..Len(s) /\ Cell(h, s, i) = Cell(h, a, i)
       /\ i # Len(a) => Succ(h, s, i) = Succ(h, a, i)
  /\ \A i \in 0..Len(b) :
       /\ Len(a) + i \in 0..Len(s) /\ Succ(h, s, Len(a) + i) = Succ(h, b, i)
       /\ i # 0 => Cell(h, s, Len(a) + i) = Cell(h, b, i)
  /\ \A i \in 0..Len(s) : i \in 0..Len(a) \/ i - Len(a) \in 1..Len(b)

LEMMA ConcatPlaces ==
  ASSUME NEW a \in Seq(Nodes), NEW b \in Seq(Nodes), NEW h
  PROVE  Behind(h, a \o b, a, b)
<1> DEFINE s == a \o b
           m == Len(a)
           n == Len(b)
<1>1. m \in Nat /\ n \in Nat
  BY LenProperties
<1>2. /\ s \in Seq(Nodes) /\ Len(s) = m + n
      /\ \A i \in 1..(m + n) : s[i] = IF i <= m THEN a[i] ELSE b[i - m]
  BY ConcatProperties
<1> HIDE DEF s, m, n
<1>3. \A i \in 1..Len(s) : \/ i \in 1..m /\ s[i] = a[i]
                           \/ i - m \in 1..n /\ s[i] = b[i - m]
  BY <1>1, <1>2
<1>4. \A i \in 1..m : i \in 1..Len(s) /\ s[i] = a[i]
  BY <1>1, <1>2
<1>5. \A i \in 1..n : m + i \in 1..Len(s) /\ s[m + i] = b[i]
  <2> TAKE i \in 1..n
  <2>1. m + i \in 1..(m + n) /\ ~ (m + i <= m) /\ (m + i) - m = i
    BY <1>1
  <2> QED BY <1>2, <2>1
<1>6. ASSUME NEW i \in 0..m
      PROVE  /\ i \in 0..Len(s) /\ Cell(h, s, i) = Cell(h, a, i)
             /\ i # m => Succ(h, s, i) = Succ(h, a, i)
  <2>1. i \in 0..Len(s) /\ (i # 0 => i \in 1..m) /\ (i # m => i # Len(s) /\ i + 1 \in 1..m)
    BY <1>1, <1>2
  <2> QED BY <1>4, <2>1 DEF Cell, Succ, m
<1>7. ASSUME NEW i \in 0..n
      PROVE  /\ m + i \in 0..Len(s) /\ Succ(h, s, m + i) = Succ(h, b, i)
             /\ i # 0 => Cell(h, s, m + i) = Cell(h, b, i)
  <2>1. /\ m + i \in 0..Len(s) /\ (i # 0 => i \in 1..n /\ m + i # 0)
        /\ (m + i = Len(s) <=> i = n) /\ (i # n => i + 1 \in 1..n) /\ (m + i) + 1 = m + (i + 1)
    BY <1>1, <1>2
  <2>2. Succ(h, s, m + i) = Succ(h, b, i)
    <3>1. CASE i = n
      BY <2>1, <3>1 DEF Succ, n
    <3>2. CASE i # n
      <4>1. s[(m + i) + 1] = b[i + 1]
        BY <1>5, <2>1, <3>2
      <4> QED BY <2>1, <3>2, <4>1 DEF Succ, n
    <3> QED BY <3>1, <3>2
  <2>3. i # 0 => Cell(h, s, m + i) = Cell(h, b, i)
    BY <1>5, <2>1 DEF Cell
  <2> QED BY <2>1, <2>2, <2>3
<1>8. \A i \in 0..Len(s) : i \in 0..m \/ i - m \in 1..n
  BY <1>1, <1>2
<1> QED
  BY <1>1, <1>2, <1>3, <1>4, <1>5, <1>6, <1>7, <1>8 DEF Behind, s, m, n

\* The lists L with the list of g, which then has none, joined to that of h as s.
Joined(L, g, h, s) == [L EXCEPT ![h] = s, ![g] = <<>>]

LEMMA JoinedLists ==
  ASSUME NEW L, NEW S, AreLists(L, S), NEW g \in Heads \ S, NEW h \in Heads \ S, g # h,
         NEW s, s = L[g] \o L[h] \/ s = L[h] \o L[g]
  PROVE  LET K == Joined(L, g, h, s)
         IN  /\ AreLists(K, S \cup {g})
             /\ K[h] = s /\ K[g] = <<>> /\ \A f \in Heads \ {g, h} : K[f] = L[f]
             /\ \A f \in Heads \ {g} : \A x, y : Before(L, f, x, y) => Before(K, f, x, y)
<1> DEFINE K == Joined(L, g, h, s)
<1>1. L \in [Heads -> Seq(Nodes)] /\ Once(L) /\ S \subseteq Heads /\ \A f \in S : L[f] = <<>>
  BY DEF AreLists
<1>2. PICK f1 \in {g, h}, f2 \in {g, h} : f1 # f2 /\ s = L[f1] \o L[f2]
  BY Zenon
<1> DEFINE a == L[f1]
           b == L[f2]
<1>3. a \in Seq(Nodes) /\ b \in Seq(Nodes) /\ f1 \in Heads /\ f2 \in Heads /\ s = a \o b
  BY <1>1, <1>2
<1>4. /\ \A i, j \in 1..Len(a) : a[i] = a[j] => i = j
      /\ \A i, j \in 1..Len(b) : b[i] = b[j] => i = j
      /\ \A i \in 1..Len(a), j \in 1..Len(b) : a[i] # b[j]
      /\ \A f \in Heads \ {g, h} : \A k \in 1..Len(L[f]) :
           /\ \A i \in 1..Len(a) : L[f][k] # a[i]
           /\ \A i \in 1..Len(b) : L[f][k] # b[i]
  BY <1>1, <1>2, <1>3 DEF Once
<1> HIDE DEF a, b
<1>5. /\ s \in Seq(Nodes) /\ Len(s) = Len(a) + Len(b)
      /\ Len(a) \in Nat /\ Len(b) \in Nat
      /\ \A i \in 1..Len(s) : \/ i \in 1..Len(a) /\ s[i] = a[i]
                              \/ i - Len(a) \in 1..Len(b) /\ s[i] = b[i - Len(a)]
      /\ \A i \in 1..Len(a) : i \in 1..Len(s) /\ s[i] = a[i]
      /\ \A i \in 1..Len(b) : Len(a) + i \in 1..Len(s) /\ s[Len(a) + i] = b[i]
  <2>1. Behind(h, s, a, b)
    BY <1>3, ConcatPlaces
  <2> QED BY <2>1 DEF Behind
<1>6. K \in [Heads -> Seq(Nodes)] /\ K[h] = s /\ K[g] = <<>> /\ \A f \in Heads \ {g, h} : K[f] = L[f]
  <2>1. K \in [Heads -> Seq(Nodes)]
    <3>1. s \in Seq(Nodes) /\ <<>> \in Seq(Nodes)
      BY <1>5
    <3> QED BY <1>1, <3>1 DEF Joined
  <2> QED BY <1>1, <2>1 DEF Joined
<1> HIDE DEF K
\* Where a node of s was.
<1>7. \A i, j \in 1..Len(s) : s[i] = s[j] => i = j
  <2> SUFFICES ASSUME NEW i \in 1..Len(s), NEW j \in 1..Len(s), s[i] = s[j] PROVE i = j
    OBVIOUS
  <2> DEFINE u == i - Len(a)
             v == j - Len(a)
  <2>1. /\ (i \in 1..Len(a) /\ s[i] = a[i]) \/ (u \in 1..Len(b) /\ s[i] = b[u])
        /\ (j \in 1..Len(a) /\ s[j] = a[j]) \/ (v \in 1..Len(b) /\ s[j] = b[v])
    BY <1>5
  <2>2. u = v => i = j
    BY <1>5
  <2> HIDE DEF u, v
  <2> QED BY <1>4, <2>1, <2>2
<1>8. \A f \in Heads \ {g, h} : \A k \in 1..Len(L[f]), i \in 1..Len(s) : L[f][k] # s[i]
  BY <1>4, <1>5
<1>9. Once(K)
  <2> SUFFICES ASSUME NEW e \in Heads, NEW f \in Heads, NEW i \in 1..Len(K[e]), NEW j \in 1..Len(K[f]),
                      K[e][i] = K[f][j]
               PROVE  e = f /\ i = j
    BY DEF Once
  <2>1. e # g /\ f # g
    BY <1>6
  <2>2. CASE e = h /\ f = h
    BY <1>6, <1>7, <2>2
  <2>3. CASE e = h /\ f # h
    BY <1>6, <1>8, <2>1, <2>3
  <2>4. CASE e # h /\ f = h
    BY <1>6, <1>8, <2>1, <2>4
  <2>5. CASE e # h /\ f # h
    <3>1. K[e] = L[e] /\ K[f] = L[f]
      BY <1>6, <2>1, <2>5
    <3> QED BY <1>1, <3>1 DEF Once
  <2> QED BY <2>2, <2>3, <2>4, <2>5
<1>10. AreLists(K, S \cup {g})
  BY <1>1, <1>6, <1>9 DEF AreLists
<1>11. ASSUME NEW f \in Heads \ {g}, NEW x, NEW y, Before(L, f, x, y)
       PROVE  Before(K, f, x, y)
  <2>1. PICK i \in 1..Len(L[f]), j \in 1..Len(L[f]) : L[f][i] = x /\ L[f][j] = y /\ i <= j
    BY <1>11 DEF Before
  <2>2. CASE f # h
    <3>1. K[f] = L[f]
      BY <1>6, <2>2
    <3> QED BY <2>1, <3>1 DEF Before
  <2>3. CASE f = h /\ f1 = h
    <3>1. i \in 1..Len(s) /\ j \in 1..Len(s) /\ s[i] = x /\ s[j] = y
      BY <1>5, <2>1, <2>3 DEF a
    <3> QED BY <1>6, <2>1, <2>3, <3>1 DEF Before
  <2>4. CASE f = h /\ f2 = h
    <3> DEFINE u == Len(a) + i
               v == Len(a) + j
    <3>1. u \in 1..Len(s) /\ v \in 1..Len(s) /\ s[u] = x /\ s[v] = y
      BY <1>5, <2>1, <2>4 DEF b
    <3>2. u <= v
      BY <1>5, <2>1, <2>4 DEF b
    <3> HIDE DEF u, v
    <3> QED BY <1>6, <2>4, <3>1, <3>2 DEF Before
  <2> QED BY <1>2, <1>11, <2>2, <2>3, <2>4
<1> QED
  BY <1>6, <1>10, <1>11 DEF K

\* s is the list of g and that of h one behind the other: x and y are the first and the
\* last of the list of g, p and n the neighbours they come between.
Joins(L, S, g, h, s, p, n, x, y) ==
  /\ AreLists(L, S) /\ g \in Heads \ S /\ h \in Heads \ S /\ g # h /\ L[g] # <<>>
  /\ x = Succ(g, L[g], 0) /\ y = Cell(g, L[g], Len(L[g]))
  /\ \/ s = L[g] \o L[h] /\ p = h /\ n = Succ(h, L[h], 0)
     \/ s = L[h] \o L[g] /\ p = Cell(h, L[h], Len(L[h])) /\ n = h

Hooks(L, S, g, h, s, p, n, x, y) ==
  LET K == Joined(L, g, h, s)
      T == S \cup {g}
  IN  /\ Beside(L, S, g, x) /\ Beside(L, S, y, g) /\ Beside(L, S, p, n)
      /\ Beside(K, T, p, x) /\ Beside(K, T, y, n) /\ p # y /\ n # x
      /\ \A a, b : Beside(K, T, a, b) =>
           <<a, b>> \in {<<p, x>>, <<y, n>>} \/ Beside(L, S, a, b)

\* The list of g joined in front of, or behind, that of h.
LEMMA JoinedPairs ==
  ASSUME NEW L, NEW S, NEW g, NEW h, NEW s, NEW p, NEW n, NEW x, NEW y, Joins(L, S, g, h, s, p, n, x, y)
  PROVE  Hooks(L, S, g, h, s, p, n, x, y)
<1> DEFINE K == Joined(L, g, h, s)
           T == S \cup {g}
<1> SUFFICES ASSUME AreLists(L, S), g \in Heads \ S, h \in Heads \ S, g # h, L[g] # <<>>,
                    x = Succ(g, L[g], 0), y = Cell(g, L[g], Len(L[g])),
                    \/ s = L[g] \o L[h] /\ p = h /\ n = Succ(h, L[h], 0)
                    \/ s = L[h] \o L[g] /\ p = Cell(h, L[h], Len(L[h])) /\ n = h
             PROVE  Hooks(L, S, g, h, s, p, n, x, y)
  BY DEF Joins
<1>1. L \in [Heads -> Seq(Nodes)] /\ Once(L) /\ S \subseteq Heads
  BY DEF AreLists
<1>0. /\ AreLists(L, S) /\ g \in Heads \ S /\ h \in Heads \ S /\ g # h
      /\ s = L[g] \o L[h] \/ s = L[h] \o L[g]
  OBVIOUS
<1>2. AreLists(K, T) /\ K[h] = s /\ K[g] = <<>> /\ \A f \in Heads \ {g, h} : K[f] = L[f]
  <2>1. AreLists(K, T)
    BY <1>0, JoinedLists
  <2>2. K[h] = s /\ K[g] = <<>>
    BY <1>1 DEF Joined
  <2>3. \A f \in Heads \ {g, h} : K[f] = L[f]
    BY <1>1 DEF Joined
  <2> QED BY <2>1, <2>2, <2>3
<1>3. L[g] \in Seq(Nodes) /\ L[h] \in Seq(Nodes) /\ Len(L[g]) \in Nat /\ Len(L[h]) \in Nat
      /\ Len(L[g]) # 0
  <2>1. L[g] \in Seq(Nodes) /\ L[h] \in Seq(Nodes)
    BY <1>1
  <2> QED BY <2>1, LenProperties, EmptySeq
<1>4. Beside(L, S, g, x) /\ Beside(L, S, y, g) /\ Beside(L, S, p, n)
  <2>1. /\ 0 \in 0..Len(L[g]) /\ Len(L[g]) \in 0..Len(L[g]) /\ 0 \in 0..Len(L[h]) /\ Len(L[h]) \in 0..Len(L[h])
        /\ Cell(g, L[g], 0) = g /\ Succ(g, L[g], Len(L[g])) = g
        /\ Cell(h, L[h], 0) = h /\ Succ(h, L[h], Len(L[h])) = h
    BY <1>3 DEF Cell, Succ
  <2> QED BY <2>1 DEF Beside
<1>5. p # y /\ n # x
  <2>1. ASSUME p = y PROVE FALSE
    <3>1. n = g
      BY <1>4, <2>1, OneNeighbour
    <3>2. \A i \in 0..Len(L[h]), j \in 0..Len(L[g]) : Succ(h, L[h], i) = Succ(g, L[g], j) => h = g
      BY <1>1, SuccPlaces
    <3>3. 0 \in 0..Len(L[h]) /\ Len(L[g]) \in 0..Len(L[g]) /\ Succ(g, L[g], Len(L[g])) = g
      BY <1>3 DEF Succ
    <3> QED BY <3>1, <3>2, <3>3
  <2>2. ASSUME n = x PROVE FALSE
    <3>1. p = g
      BY <1>4, <2>2, OneNeighbour
    <3>2. \A i \in 0..Len(L[h]), j \in 0..Len(L[g]) : Cell(h, L[h], i) = Cell(g, L[g], j) => h = g
      BY <1>1, PlacesDiffer
    <3>3. Len(L[h]) \in 0..Len(L[h]) /\ 0 \in 0..Len(L[g]) /\ Cell(g, L[g], 0) = g
      BY <1>3 DEF Cell
    <3> QED BY <3>1, <3>2, <3>3
  <2> QED BY <2>1, <2>2
<1> HIDE DEF K, T
<1>6. h \in Heads \ T /\ g \in T
  BY DEF T
\* In front.
<1>7. ASSUME s = L[g] \o L[h], p = h, n = Succ(h, L[h], 0)
      PROVE  /\ Beside(K, T, p, x) /\ Beside(K, T, y, n)
             /\ \A i \in 0..Len(s) :
                  \/ <<Cell(h, s, i), Succ(h, s, i)>> \in {<<p, x>>, <<y, n>>}
                  \/ Beside(L, S, Cell(h, s, i), Succ(h, s, i))
  <2> DEFINE a == L[g]
             b == L[h]
             m == Len(a)
  <2>1. a \in Seq(Nodes) /\ b \in Seq(Nodes) /\ s = a \o b
    BY <1>3, <1>7
  <2> HIDE DEF a, b
  <2>2. /\ m \in Nat /\ Len(b) \in Nat /\ Len(s) = m + Len(b)
        /\ \A i \in 0..m : /\ i \in 0..Len(s) /\ Cell(h, s, i) = Cell(h, a, i)
                           /\ i # m => Succ(h, s, i) = Succ(h, a, i)
        /\ \A i \in 0..Len(b) :
             /\ m + i \in 0..Len(s) /\ Succ(h, s, m + i) = Succ(h, b, i)
             /\ i # 0 => Cell(h, s, m + i) = Cell(h, b, i)
        /\ \A i \in 0..Len(s) : i \in 0..m \/ i - m \in 1..Len(b)
    <3>1. Behind(h, s, a, b)
      BY <2>1, ConcatPlaces
    <3> QED BY <3>1 DEF Behind
  <2>3. m # 0 /\ m \in 0..m /\ 0 \in 0..m /\ 0 \in 0..Len(b) /\ m + 0 = m
    BY <1>3, <2>2 DEF a
  <2>4. Cell(h, s, 0) = p /\ Succ(h, s, 0) = x
    <3>1. Succ(h, s, 0) = Succ(h, a, 0) /\ Cell(h, s, 0) = Cell(h, a, 0)
      BY <2>2, <2>3
    <3> QED BY <1>7, <2>3, <3>1 DEF Cell, Succ, a
  <2>5. Cell(h, s, m) = y /\ Succ(h, s, m) = n
    <3>1. Cell(h, s, m) = Cell(h, a, m) /\ Succ(h, s, m) = Succ(h, b, 0)
      BY <2>2, <2>3
    <3>2. Cell(h, a, m) = y
      BY <2>3 DEF Cell, a
    <3>3. Succ(h, b, 0) = n
      BY <1>7 DEF b
    <3> QED BY <3>1, <3>2, <3>3
  <2>6. ASSUME NEW i \in 0..m, i # m, i # 0
        PROVE  Beside(L, S, Cell(h, s, i), Succ(h, s, i))
    <3>1. Cell(h, s, i) = Cell(g, L[g], i) /\ Succ(h, s, i) = Succ(g, L[g], i)
      BY <2>2, <2>6 DEF Cell, Succ, a
    <3> QED BY <3>1 DEF Beside, a
  <2>7. ASSUME NEW i \in 1..Len(b)
        PROVE  Beside(L, S, Cell(h, s, m + i), Succ(h, s, m + i))
    <3>1. i \in 0..Len(b) /\ i # 0
      BY <2>2
    <3>2. Cell(h, s, m + i) = Cell(h, b, i) /\ Succ(h, s, m + i) = Succ(h, b, i)
      BY <2>2, <3>1
    <3> QED BY <3>1, <3>2 DEF Beside, b
  <2>8. ASSUME NEW i \in 0..Len(s)
        PROVE  \/ <<Cell(h, s, i), Succ(h, s, i)>> \in {<<p, x>>, <<y, n>>}
               \/ Beside(L, S, Cell(h, s, i), Succ(h, s, i))
    <3>1. CASE i \in 0..m
      BY <2>4, <2>5, <2>6, <3>1
    <3>2. CASE i - m \in 1..Len(b)
      <4>1. m + (i - m) = i
        BY <2>2
      <4> QED BY <2>7, <3>2, <4>1
    <3> QED BY <2>2, <3>1, <3>2
  <2>9. Beside(K, T, p, x) /\ Beside(K, T, y, n)
    <3>1. 0 \in 0..Len(s) /\ m \in 0..Len(s)
      BY <2>2, <2>3
    <3> HIDE DEF m
    <3> QED BY <1>2, <1>6, <2>4, <2>5, <3>1 DEF Beside
  <2> QED BY <2>8, <2>9
\* Behind.
<1>8. ASSUME s = L[h] \o L[g], p = Cell(h, L[h], Len(L[h])), n = h
      PROVE  /\ Beside(K, T, p, x) /\ Beside(K, T, y, n)
             /\ \A i \in 0..Len(s) :
                  \/ <<Cell(h, s, i), Succ(h, s, i)>> \in {<<p, x>>, <<y, n>>}
                  \/ Beside(L, S, Cell(h, s, i), Succ(h, s, i))
  <2> DEFINE a == L[h]
             b == L[g]
             m == Len(a)
             l == Len(b)
  <2>1. a \in Seq(Nodes) /\ b \in Seq(Nodes) /\ s = a \o b
    BY <1>3, <1>8
  <2> HIDE DEF a, b
  <2>2. /\ m \in Nat /\ l \in Nat /\ Len(s) = m + l
        /\ \A i \in 0..m : /\ i \in 0..Len(s) /\ Cell(h, s, i) = Cell(h, a, i)
                           /\ i # m => Succ(h, s, i) = Succ(h, a, i)
        /\ \A i \in 0..l :
             /\ m + i \in 0..Len(s) /\ Succ(h, s, m + i) = Succ(h, b, i)
             /\ i # 0 => Cell(h, s, m + i) = Cell(h, b, i)
        /\ \A i \in 0..Len(s) : i \in 0..m \/ i - m \in 1..l
    <3>1. Behind(h, s, a, b)
      BY <2>1, ConcatPlaces
    <3> QED BY <3>1 DEF Behind
  <2>3. l # 0 /\ m \in 0..m /\ 0 \in 0..l /\ l \in 0..l /\ m + 0 = m
    BY <1>3, <2>2 DEF b
  <2>4. Cell(h, s, m) = p /\ Succ(h, s, m) = x
    <3>1. Cell(h, s, m) = Cell(h, a, m) /\ Succ(h, s, m) = Succ(h, b, 0)
      BY <2>2, <2>3
    <3> QED BY <1>8, <2>3, <3>1 DEF Succ, a, b
  <2>5. Cell(h, s, m + l) = y /\ Succ(h, s, m + l) = n
    <3>1. Cell(h, s, m + l) = Cell(h, b, l) /\ Succ(h, s, m + l) = Succ(h, b, l)
      BY <2>2, <2>3
    <3>2. Cell(h, b, l) = y
      BY <2>3 DEF Cell, b
    <3>3. Succ(h, b, l) = n
      BY <1>8 DEF Succ
    <3> QED BY <3>1, <3>2, <3>3
  <2>6. ASSUME NEW i \in 0..m, i # m
        PROVE  Beside(L, S, Cell(h, s, i), Succ(h, s, i))
    <3>1. Cell(h, s, i) = Cell(h, a, i) /\ Succ(h, s, i) = Succ(h, a, i)
      BY <2>2, <2>6
    <3> QED BY <3>1 DEF Beside, a
  <2>7. ASSUME NEW i \in 1..l, i # l
        PROVE  Beside(L, S, Cell(h, s, m + i), Succ(h, s, m + i))
    <3>1. i \in 0..l /\ i # 0
      BY <2>2
    <3>2. Cell(h, s, m + i) = Cell(g, L[g], i) /\ Succ(h, s, m + i) = Succ(g, L[g], i)
      <4>1. Cell(h, s, m + i) = Cell(h, b, i) /\ Succ(h, s, m + i) = Succ(h, b, i)
        BY <2>2, <3>1
      <4> QED BY <2>7, <3>1, <4>1 DEF Cell, Succ, b
    <3> QED BY <3>1, <3>2 DEF Beside, b
  <2>8. ASSUME NEW i \in 0..Len(s)
        PROVE  \/ <<Cell(h, s, i), Succ(h, s, i)>> \in {<<p, x>>, <<y, n>>}
               \/ Beside(L, S, Cell(h, s, i), Succ(h, s, i))
    <3>1. CASE i \in 0..m
      BY <2>4, <2>6, <3>1
    <3>2. CASE i - m \in 1..l
      <4> DEFINE k == i - m
      <4>1. m + k = i /\ k \in 1..l
        BY <2>2, <3>2
      <4> HIDE DEF k
      <4>2. k = l \/ k # l
        OBVIOUS
      <4> QED BY <2>5, <2>7, <4>1, <4>2
    <3> QED BY <2>2, <3>1, <3>2
  <2>9. Beside(K, T, p, x) /\ Beside(K, T, y, n)
    <3> DEFINE k == m + l
    <3>1. m \in 0..Len(s) /\ k \in 0..Len(s) /\ Cell(h, s, k) = y /\ Succ(h, s, k) = n
      BY <2>2, <2>3, <2>5
    <3> HIDE DEF m, k
    <3> QED BY <1>2, <1>6, <2>4, <3>1 DEF Beside
  <2> QED BY <2>8, <2>9
<1>9. /\ Beside(K, T, p, x) /\ Beside(K, T, y, n)
      /\ \A i \in 0..Len(s) :
           \/ <<Cell(h, s, i), Succ(h, s, i)>> \in {<<p, x>>, <<y, n>>}
           \/ Beside(L, S, Cell(h, s, i), Succ(h, s, i))
  BY <1>7, <1>8
<1>10. ASSUME NEW a, NEW b, Beside(K, T, a, b)
       PROVE  <<a, b>> \in {<<p, x>>, <<y, n>>} \/ Beside(L, S, a, b)
  <2>1. PICK f \in Heads \ T : \E i \in 0..Len(K[f]) :
               a = Cell(f, K[f], i) /\ b = Succ(f, K[f], i)
    BY <1>10 DEF Beside
  <2>2. PICK i \in 0..Len(K[f]) : a = Cell(f, K[f], i) /\ b = Succ(f, K[f], i)
    BY <2>1
  <2>3. CASE f = h
    BY <1>2, <1>9, <2>2, <2>3
  <2>4. CASE f # h
    <3>1. f \in Heads \ S /\ K[f] = L[f]
      BY <1>2, <2>4 DEF T
    <3> QED BY <2>2, <3>1 DEF Beside
  <2> QED BY <2>3, <2>4
<1> QED
  BY <1>4, <1>5, <1>9, <1>10 DEF Hooks, K, T

\* A list cut in two behind its i-th place.
LEMMA CutInTwo ==
  ASSUME NEW s \in Seq(Nodes), NEW i \in 0..Len(s)
  PROVE  LET a == SubSeq(s, 1, i)
             b == SubSeq(s, i + 1, Len(s))
         IN  a \in Seq(Nodes) /\ Len(a) = i /\ b \in Seq(Nodes) /\ s = a \o b
<1> DEFINE a == SubSeq(s, 1, i)
           b == SubSeq(s, i + 1, Len(s))
<1>1. Len(s) \in Nat /\ \A j \in 1..Len(s) : s[j] \in Nodes
  BY LenProperties, ElementOfSeq
<1>2. a \in Seq(Nodes) /\ Len(a) = i /\ \A j \in 1..i : a[j] = s[j]
  <2>1. \A j \in 1..i : s[j] \in Nodes
    BY <1>1
  <2>2. /\ a \in Seq(Nodes) /\ Len(a) = IF 1 <= i THEN (i - 1) + 1 ELSE 0
        /\ \A j \in 1..((i - 1) + 1) : a[j] = s[(1 + j) - 1]
    BY <1>1, <2>1, SubSeqProperties
  <2> HIDE DEF a
  <2> QED BY <1>1, <2>2
<1>3. /\ b \in Seq(Nodes) /\ Len(b) = Len(s) - i
      /\ \A j \in 1..(Len(s) - i) : b[j] = s[i + j]
  <2>1. \A j \in (i + 1)..Len(s) : s[j] \in Nodes
    BY <1>1
  <2> DEFINE l == i + 1
  <2>2. l \in Int /\ Len(s) \in Int /\ \A j \in l..Len(s) : s[j] \in Nodes
    BY <1>1, <2>1
  <2> HIDE DEF l
  <2>3. /\ SubSeq(s, l, Len(s)) \in Seq(Nodes)
        /\ Len(SubSeq(s, l, Len(s))) = IF l <= Len(s) THEN (Len(s) - l) + 1 ELSE 0
        /\ \A j \in 1..((Len(s) - l) + 1) : SubSeq(s, l, Len(s))[j] = s[(l + j) - 1]
    BY <2>2, SubSeqProperties
  <2>4. /\ b \in Seq(Nodes) /\ Len(b) = IF l <= Len(s) THEN (Len(s) - l) + 1 ELSE 0
        /\ \A j \in 1..((Len(s) - l) + 1) : b[j] = s[(l + j) - 1]
    BY <2>3 DEF l
  <2> HIDE DEF b
  <2>5. /\ (Len(s) - l) + 1 = Len(s) - i
        /\ Len(s) - i = IF l <= Len(s) THEN (Len(s) - l) + 1 ELSE 0
        /\ \A j \in 1..(Len(s) - i) : (l + j) - 1 = i + j
    BY <1>1 DEF l
  <2> QED BY <2>4, <2>5
<1> HIDE DEF a, b
<1>4. /\ a \o b \in Seq(Nodes) /\ Len(a \o b) = Len(a) + Len(b)
      /\ \A j \in 1..(Len(a) + Len(b)) : (a \o b)[j] = IF j <= Len(a) THEN a[j] ELSE b[j - Len(a)]
  BY <1>2, <1>3, ConcatProperties
<1>5. Len(s) = Len(a \o b)
  BY <1>1, <1>2, <1>3, <1>4
<1>6. \A j \in 1..Len(s) : s[j] = (a \o b)[j]
  <2> TAKE j \in 1..Len(s)
  <2> DEFINE k == j - i
  <2>1. (a \o b)[j] = IF j <= i THEN a[j] ELSE b[k]
    BY <1>1, <1>2, <1>3, <1>4
  <2>2. CASE j <= i
    BY <1>2, <2>1, <2>2
  <2>3. CASE ~ (j <= i)
    <3>1. k \in 1..(Len(s) - i) /\ i + k = j
      BY <1>1, <2>3
    <3> QED BY <1>3, <2>1, <2>3, <3>1
  <2> QED BY <2>2, <2>3
<1>7. s = a \o b
  BY <1>4, <1>5, <1>6, SeqEqual
<1> QED
  BY <1>2, <1>3, <1>7 DEF a, b

\* The lists L with the first i of h given to g.
Parted(L, g, h, i) == [L EXCEPT ![g] = SubSeq(L[h], 1, i), ![h] = SubSeq(L[h], i + 1, Len(L[h]))]

LEMMA PartedPairs ==
  ASSUME NEW L, NEW S, AreLists(L, S), NEW g \in Heads \ S, NEW h \in Heads \ S, g # h, L[g] = <<>>,
         NEW i \in 1..Len(L[h]), NEW e, e = L[h][i],
         NEW x, x = Succ(h, L[h], 0), NEW y, y = Succ(h, L[h], i)
  PROVE  LET K == Parted(L, g, h, i)
         IN  /\ AreLists(K, S)
             /\ \A f \in Heads \ {g, h} : K[f] = L[f]
             /\ e \in Nodes /\ x \in Cells /\ y \in Cells /\ x # y /\ x # g /\ y # g /\ g # e /\ h # e
             /\ Beside(L, S, h, x) /\ Beside(L, S, e, y)
             /\ Beside(K, S, g, x) /\ Beside(K, S, e, g) /\ Beside(K, S, h, y)
             /\ \A c, d : Beside(K, S, c, d) =>
                  <<c, d>> \in {<<g, x>>, <<e, g>>, <<h, y>>} \/ Beside(L, S, c, d)
<1> DEFINE s == L[h]
           a == SubSeq(s, 1, i)
           b == SubSeq(s, i + 1, Len(s))
           K == [L EXCEPT ![g] = a, ![h] = b]
<1>1. /\ L \in [Heads -> Seq(Nodes)] /\ Once(L) /\ S \subseteq Heads /\ \A f \in S : L[f] = <<>>
      /\ s \in Seq(Nodes) /\ Len(s) \in Nat /\ i \in 1..Len(s) /\ i \in 0..Len(s)
  <2>1. L \in [Heads -> Seq(Nodes)] /\ Once(L) /\ S \subseteq Heads /\ \A f \in S : L[f] = <<>>
    BY DEF AreLists
  <2>2. s \in Seq(Nodes) /\ Len(s) \in Nat
    BY <2>1, LenProperties
  <2> QED BY <2>1, <2>2
<1>2. a \in Seq(Nodes) /\ Len(a) = i /\ b \in Seq(Nodes) /\ s = a \o b
  <2> HIDE DEF s
  <2> QED BY <1>1, CutInTwo
<1>3. K = Parted(L, g, h, i)
  BY DEF Parted
<1>4. K \in [Heads -> Seq(Nodes)] /\ K[g] = a /\ K[h] = b /\ \A f \in Heads \ {g, h} : K[f] = L[f]
  <2> HIDE DEF a, b
  <2> QED BY <1>1, <1>2
<1> HIDE DEF K, a, b
<1>5. \A c : Behind(c, s, a, b)
  <2> HIDE DEF s
  <2> QED BY <1>2, ConcatPlaces
<1>6. /\ Len(s) = i + Len(b) /\ Len(b) \in Nat /\ i \in Nat
      /\ \A k \in 1..i : k \in 1..Len(s) /\ s[k] = a[k]
      /\ \A k \in 1..Len(b) : i + k \in 1..Len(s) /\ s[i + k] = b[k]
      /\ \A k \in 0..Len(b) :
           /\ i + k \in 0..Len(s) /\ Succ(h, s, i + k) = Succ(h, b, k)
           /\ k # 0 => Cell(h, s, i + k) = Cell(h, b, k)
  <2> HIDE DEF s
  <2> QED BY <1>2, <1>5 DEF Behind
<1>7. /\ Beside(L, S, h, x) /\ Beside(L, S, e, y) /\ Beside(L, S, g, g)
      /\ e \in Nodes /\ x # y /\ x # g /\ y # g /\ x \in Cells /\ y \in Cells
  <2>1. 0 \in 0..Len(s) /\ i # 0 /\ Cell(h, s, 0) = h /\ Cell(h, s, i) = e
    BY <1>1 DEF Cell
  <2>2. Beside(L, S, h, x) /\ Beside(L, S, e, y)
    BY <1>1, <2>1 DEF Beside
  <2>3. Beside(L, S, g, g)
    <3>1. Len(L[g]) = 0
      OBVIOUS
    <3> QED BY <3>1 DEF Beside, Cell, Succ
  <2>4. e \in Nodes
    BY <1>1, PlacesDiffer
  <2>5. e # h /\ e # g
    BY <2>4, CellsAssumption
  <2> QED BY <2>2, <2>3, <2>4, <2>5, OneNeighbour
<1>8. Once(K)
  <2>0. \A j, k \in 1..Len(s) : s[j] = s[k] => j = k
    BY <1>1 DEF Once
  <2>1. \A j, k \in 1..Len(a) : a[j] = a[k] => j = k
    <3> HIDE DEF s
    <3> QED BY <1>2, <1>6, <2>0
  <2>2. \A j, k \in 1..Len(b) : b[j] = b[k] => j = k
    <3> SUFFICES ASSUME NEW j \in 1..Len(b), NEW k \in 1..Len(b), b[j] = b[k] PROVE j = k
      OBVIOUS
    <3> DEFINE u == i + j
               v == i + k
    <3>1. u \in 1..Len(s) /\ v \in 1..Len(s) /\ s[u] = s[v]
      BY <1>6
    <3>2. u = v => j = k
      BY <1>6
    <3> HIDE DEF u, v
    <3> QED BY <1>1, <3>1, <3>2 DEF Once
  <2>3. \A j \in 1..Len(a), k \in 1..Len(b) : a[j] # b[k]
    <3> SUFFICES ASSUME NEW j \in 1..Len(a), NEW k \in 1..Len(b), a[j] = b[k] PROVE FALSE
      OBVIOUS
    <3> DEFINE v == i + k
    <3>1. j \in 1..Len(s) /\ v \in 1..Len(s) /\ s[j] = s[v]
      BY <1>2, <1>6
    <3>2. j # v
      BY <1>2, <1>6
    <3> HIDE DEF v, s
    <3> QED BY <2>0, <3>1, <3>2
  <2>4. ASSUME NEW f \in Heads, NEW k \in 1..Len(K[f])
        PROVE  \/ f = g /\ K[f] = a
               \/ f = h /\ K[f] = b
               \/ f \notin {g, h} /\ K[f] = L[f]
    BY <1>4
  <2>5. \A f \in Heads \ {g, h} : \A k \in 1..Len(L[f]) :
          /\ \A j \in 1..Len(a) : L[f][k] # a[j]
          /\ \A j \in 1..Len(b) : L[f][k] # b[j]
    <3>1. \A f \in Heads \ {g, h} : \A k \in 1..Len(L[f]), j \in 1..Len(s) : L[f][k] # s[j]
      <4> SUFFICES ASSUME NEW f \in Heads \ {g, h}, NEW k \in 1..Len(L[f]), NEW j \in 1..Len(s),
                          L[f][k] = s[j]
                   PROVE  FALSE
        OBVIOUS
      <4>1. f = h
        BY <1>1 DEF Once
      <4> QED BY <4>1
    <3>2. \A j \in 1..Len(a) : \E w \in 1..Len(s) : a[j] = s[w]
      BY <1>2, <1>6
    <3>3. \A j \in 1..Len(b) : \E w \in 1..Len(s) : b[j] = s[w]
      BY <1>6
    <3> HIDE DEF s
    <3> QED BY <3>1, <3>2, <3>3
  <2> SUFFICES ASSUME NEW c \in Heads, NEW d \in Heads, NEW j \in 1..Len(K[c]), NEW k \in 1..Len(K[d]),
                      K[c][j] = K[d][k]
               PROVE  c = d /\ j = k
    BY DEF Once
  <2>6. CASE c \in {g, h} /\ d \in {g, h}
    <3>1. CASE c = d
      <4>1. K[c] = a \/ K[c] = b
        BY <2>4, <2>6
      <4> QED BY <2>1, <2>2, <3>1, <4>1
    <3>2. CASE c # d
      BY <2>3, <2>4, <2>6, <3>2
    <3> QED BY <3>1, <3>2
  <2>7. CASE c \notin {g, h} /\ d \in {g, h}
    <3>1. K[c] = L[c]
      BY <2>4, <2>7
    <3> QED BY <2>4, <2>5, <2>7, <3>1
  <2>8. CASE c \in {g, h} /\ d \notin {g, h}
    <3>1. K[d] = L[d]
      BY <2>4, <2>8
    <3> QED BY <2>4, <2>5, <2>8, <3>1
  <2>9. CASE c \notin {g, h} /\ d \notin {g, h}
    BY <1>1, <2>4, <2>9 DEF Once
  <2> QED BY <2>6, <2>7, <2>8, <2>9
<1>9. AreLists(K, S)
  BY <1>1, <1>4, <1>8 DEF AreLists
<1>10. ASSUME NEW k \in 0..Len(a)
       PROVE  \/ k = 0 /\ Cell(g, a, k) = g /\ Succ(g, a, k) = x
              \/ k = i /\ Cell(g, a, k) = e /\ Succ(g, a, k) = g
              \/ Beside(L, S, Cell(g, a, k), Succ(g, a, k))
  <2>1. CASE k = 0
    <3>1. 1 \in 1..i /\ k # Len(a) /\ k # Len(s) /\ k + 1 = 1 /\ Succ(g, a, k) = a[1] /\ x = s[1]
      BY <1>1, <1>2, <2>1 DEF Succ
    <3> QED BY <1>6, <2>1, <3>1 DEF Cell
  <2>2. CASE k = i
    <3>1. k = Len(a) /\ k # 0 /\ i \in 1..i
      BY <1>1, <1>2, <2>2
    <3> QED BY <1>6, <2>2, <3>1 DEF Cell, Succ
  <2>3. CASE k # 0 /\ k # i
    <3>1. k \in 1..i /\ k + 1 \in 1..i /\ k # Len(a) /\ k # Len(s) /\ k \in 0..Len(s)
      BY <1>1, <1>2, <2>3
    <3>2. Cell(g, a, k) = Cell(h, s, k) /\ Succ(g, a, k) = Succ(h, s, k)
      BY <1>6, <2>3, <3>1 DEF Cell, Succ
    <3> QED BY <3>1, <3>2 DEF Beside
  <2> QED BY <2>1, <2>2, <2>3
<1>11. ASSUME NEW k \in 0..Len(b)
       PROVE  \/ k = 0 /\ Cell(h, b, k) = h /\ Succ(h, b, k) = y
              \/ Beside(L, S, Cell(h, b, k), Succ(h, b, k))
  <2> DEFINE u == i + k
  <2>1. u \in 0..Len(s) /\ Succ(h, s, u) = Succ(h, b, k) /\ (k # 0 => Cell(h, s, u) = Cell(h, b, k))
    BY <1>6
  <2>2. k = 0 => u = i
    BY <1>6
  <2> HIDE DEF u
  <2>3. CASE k = 0
    BY <2>1, <2>2, <2>3 DEF Cell
  <2>4. CASE k # 0
    <3>1. Cell(h, b, k) = Cell(h, L[h], u) /\ Succ(h, b, k) = Succ(h, L[h], u) /\ u \in 0..Len(L[h])
      BY <2>1, <2>4
    <3> QED BY <3>1 DEF Beside
  <2> QED BY <2>3, <2>4
<1>12. Beside(K, S, g, x) /\ Beside(K, S, e, g) /\ Beside(K, S, h, y)
  <2>1. 0 \in 0..Len(a) /\ i \in 0..Len(a) /\ 0 \in 0..Len(b) /\ i # 0
    BY <1>1, <1>2, <1>6
  <2>2. Cell(g, a, 0) = g /\ Succ(g, a, 0) = x
    <3>1. 0 # Len(a) /\ 1 \in 1..i /\ 0 # Len(s) /\ 0 + 1 = 1
      BY <1>1, <1>2
    <3> QED BY <1>6, <3>1 DEF Cell, Succ
  <2>3. Cell(g, a, i) = e /\ Succ(g, a, i) = g
    <3>1. i = Len(a) /\ i # 0 /\ i \in 1..i
      BY <1>1, <1>2
    <3> QED BY <1>6, <3>1 DEF Cell, Succ
  <2>4. Cell(h, b, 0) = h /\ Succ(h, b, 0) = y
    <3>1. i + 0 = i
      BY <1>6
    <3> QED BY <1>6, <2>1, <3>1 DEF Cell
  <2> QED BY <1>4, <2>1, <2>2, <2>3, <2>4 DEF Beside
<1>13. ASSUME NEW c, NEW d, Beside(K, S, c, d)
       PROVE  <<c, d>> \in {<<g, x>>, <<e, g>>, <<h, y>>} \/ Beside(L, S, c, d)
  <2>1. PICK f \in Heads \ S : \E k \in 0..Len(K[f]) :
               c = Cell(f, K[f], k) /\ d = Succ(f, K[f], k)
    BY <1>13 DEF Beside
  <2>2. PICK k \in 0..Len(K[f]) : c = Cell(f, K[f], k) /\ d = Succ(f, K[f], k)
    BY <2>1
  <2>3. CASE f = g
    BY <1>4, <1>10, <2>2, <2>3
  <2>4. CASE f = h
    BY <1>4, <1>11, <2>2, <2>4
  <2>5. CASE f \notin {g, h}
    BY <1>4, <2>2, <2>5 DEF Beside
  <2> QED BY <2>3, <2>4, <2>5
<1>14. g # e /\ h # e
  BY <1>7, CellsAssumption
<1> QED
  BY <1>3, <1>4, <1>7, <1>9, <1>12, <1>13, <1>14

-----------------------------------------------------------------------------
(* What the functions do to the rings.                                     *)

\* An entry put between two neighbours, which list_add and list_add_tail find by one of them.
LEMMA AddRings ==
  ASSUME NEW m, NEW L, NEW S, Rings(m, L, S), NEW n \in Nodes, Outside(L, n),
         NEW h \in Heads \ S, NEW q \in 0..Len(L[h]),
         NEW x, x = Cell(h, L[h], q), NEW y, y = Succ(h, L[h], q)
  PROVE  /\ Rings(list_add(m, n, x), With(L, h, q, n), S)
         /\ Rings(list_add_tail(m, n, y), With(L, h, q, n), S)
<1> DEFINE K == With(L, h, q, n)
           r == AddBetween(m, n, x, y)
           A == {<<x, n>>, <<n, y>>}
<1>1. AreLists(L, S) /\ m \in Mem /\ Beside(L, S, x, y) /\ m.next[x] = y /\ m.prev[y] = x
  BY DEF Rings, Beside
<1>2. /\ AreLists(K, S)
      /\ x \in Cells /\ y \in Cells /\ n \in Cells /\ n # x /\ n # y
      /\ Beside(K, S, x, n) /\ Beside(K, S, n, y)
      /\ \A a, b : Beside(K, S, a, b) => <<a, b>> \in A \/ Beside(L, S, a, b)
  BY <1>1, WithPairs
<1> HIDE DEF K
<1>3. /\ r \in Mem
      /\ r.next[x] = n /\ r.prev[n] = x /\ r.next[n] = y /\ r.prev[y] = n
      /\ Elsewhere(r, m, {x, n}, {n, y})
  BY <1>1, <1>2, AddWrites
<1> HIDE DEF r
<1>4. Relinks(L, S, K, S, A) /\ Wrote(r, m, A, K, S)
  BY <1>2, <1>3 DEF Relinks, Wrote, Elsewhere
<1> HIDE DEF A
<1>5. Rings(r, K, S)
  BY <1>4, Relink
<1>6. list_add(m, n, x) = r /\ list_add_tail(m, n, y) = r
  BY <1>1 DEF list_add, list_add_tail, r
<1> QED
  BY <1>5, <1>6 DEF K

LEMMA DelRings ==
  ASSUME NEW m, NEW L, NEW S, Rings(m, L, S), NEW h \in Heads \ S, NEW q \in 1..Len(L[h]),
         NEW e, e = L[h][q]
  PROVE  Rings(DelEntry(m, e), Less(L, h, q), S) /\ Alone(Less(L, h, q), S, e) /\ e \in Nodes
<1> DEFINE K == Less(L, h, q)
           x == Cell(h, L[h], q - 1)
           y == Succ(h, L[h], q)
           r == DelBetween(m, x, y)
           A == {<<x, y>>}
<1>1. AreLists(L, S) /\ m \in Mem
  BY DEF Rings
<1>2. /\ AreLists(K, S)
      /\ x \in Cells /\ y \in Cells /\ e \in Nodes
      /\ Beside(L, S, x, e) /\ Beside(L, S, e, y)
      /\ Beside(K, S, x, y) /\ Alone(K, S, e)
      /\ \A a, b : Beside(K, S, a, b) => <<a, b>> \in A \/ Beside(L, S, a, b)
  BY <1>1, LessPairs
<1> HIDE DEF K, x, y
<1>3. r \in Mem /\ r.next[x] = y /\ r.prev[y] = x /\ Elsewhere(r, m, {x}, {y})
  BY <1>1, <1>2, DelWrites
<1>6. DelEntry(m, e) = r
  BY <1>2 DEF DelEntry, Rings
<1> HIDE DEF r
<1>4. Relinks(L, S, K, S, A) /\ Wrote(r, m, A, K, S)
  BY <1>2, <1>3 DEF Relinks, Wrote, Elsewhere
<1> HIDE DEF A
<1>5. Rings(r, K, S)
  BY <1>4, Relink
<1> QED
  BY <1>2, <1>5, <1>6 DEF K

\* Whatever a struct that is in no ring is made to point to.
LEMMA LooseRings ==
  ASSUME NEW m, NEW L, NEW S, Rings(m, L, S), NEW x \in Cells, Alone(L, S, x),
         NEW r \in Mem, Elsewhere(r, m, {x}, {x})
  PROVE  Rings(r, L, S)
<1>1. Relinks(L, S, L, S, {}) /\ Wrote(r, m, {}, L, S)
  BY DEF Rings, Relinks, Wrote, Elsewhere
<1> QED
  BY <1>1, Relink

LEMMA PoisonWrites ==
  ASSUME NEW m \in Mem, NEW x \in Cells
  PROVE  LET r == SetPrev(SetNext(m, x, POISON1), x, POISON2)
         IN  r \in Mem /\ Elsewhere(r, m, {x}, {x})
<1> DEFINE a == SetNext(m, x, POISON1)
           r == SetPrev(a, x, POISON2)
<1>0. POISON1 \in Ptr /\ POISON2 \in Ptr
  BY DEF Ptr
<1>1. a \in Mem /\ a.prev = m.prev /\ \A z \in Cells \ {x} : a.next[z] = m.next[z]
  BY <1>0, NextWritten
<1> HIDE DEF a
<1>2. r \in Mem /\ r.next = a.next /\ \A z \in Cells \ {x} : r.prev[z] = a.prev[z]
  <2>1. a \in Mem
    BY <1>1
  <2> QED BY <1>0, <2>1, PrevWritten
<1> HIDE DEF r
<1>3. r \in Mem /\ Elsewhere(r, m, {x}, {x})
  BY <1>1, <1>2 DEF Elsewhere
<1> QED
  BY <1>3 DEF a, r

LEMMA DeletedRings ==
  ASSUME NEW m, NEW L, NEW S, Rings(m, L, S), NEW h \in Heads \ S, NEW q \in 1..Len(L[h]),
         NEW e, e = L[h][q]
  PROVE  /\ Rings(list_del(m, e), Less(L, h, q), S)
         /\ Rings(list_del_init(m, e), Less(L, h, q), S)
<1> DEFINE d == DelEntry(m, e)
           K == Less(L, h, q)
           r1 == SetPrev(SetNext(d, e, POISON1), e, POISON2)
           r2 == INIT_LIST_HEAD(d, e)
<1>1. Rings(d, K, S) /\ Alone(K, S, e) /\ e \in Nodes
  BY DelRings
<1>2. d \in Mem /\ e \in Cells
  BY <1>1 DEF Rings, Cells
<1> HIDE DEF d, K
<1>3. r1 \in Mem /\ Elsewhere(r1, d, {e}, {e})
  BY <1>2, PoisonWrites
<1>4. r2 \in Mem /\ Elsewhere(r2, d, {e}, {e})
  BY <1>2, InitWrites
<1> HIDE DEF r1, r2
<1>5. Rings(r1, K, S) /\ Rings(r2, K, S)
  BY <1>1, <1>2, <1>3, <1>4, LooseRings
<1> QED
  BY <1>5 DEF list_del, list_del_init, r1, r2, d, K

\* An entry taken out of one list and put at the head, or the tail, of another.
LEMMA MovedRings ==
  ASSUME NEW m, NEW L, NEW S, Rings(m, L, S), NEW h \in Heads \ S, NEW q \in 1..Len(L[h]),
         NEW e, e = L[h][q], NEW g \in Heads \ S, NEW J, J = Less(L, h, q)
  PROVE  /\ AreLists(J, S) /\ Outside(J, e) /\ e \in Nodes
         /\ 0 \in 0..Len(J[g]) /\ Len(J[g]) \in 0..Len(J[g])
         /\ Rings(list_move(m, e, g), With(J, g, 0, e), S)
         /\ Rings(list_move_tail(m, e, g), With(J, g, Len(J[g]), e), S)
<1> DEFINE d == DelEntry(m, e)
<1>1. Rings(d, J, S) /\ Alone(J, S, e) /\ e \in Nodes
  BY DelRings
<1> HIDE DEF d
<1>2. L \in [Heads -> Seq(Nodes)] /\ Once(L) /\ AreLists(J, S) /\ J[g] \in Seq(Nodes)
  BY <1>1 DEF Rings, AreLists
<1>3. Outside(J, e)
  BY <1>2, Removed
<1>4. /\ Len(J[g]) \in Nat /\ 0 \in 0..Len(J[g]) /\ Len(J[g]) \in 0..Len(J[g])
      /\ g = Cell(g, J[g], 0) /\ g = Succ(g, J[g], Len(J[g]))
  BY <1>2, LenProperties DEF Cell, Succ
<1>5. Rings(list_add(d, e, g), With(J, g, 0, e), S)
  BY <1>1, <1>3, <1>4, AddRings
<1>6. Rings(list_add_tail(d, e, g), With(J, g, Len(J[g]), e), S)
  <2> DEFINE l == Len(J[g])
  <2>1. l \in 0..Len(J[g]) /\ g = Succ(g, J[g], l)
    BY <1>4
  <2> HIDE DEF l
  <2>2. Rings(list_add_tail(d, e, g), With(J, g, l, e), S)
    BY <1>1, <1>3, <2>1, AddRings
  <2> QED BY <2>2 DEF l
<1> QED
  BY <1>1, <1>2, <1>3, <1>4, <1>5, <1>6 DEF list_move, list_move_tail, d

LEMMA ReplacedRings ==
  ASSUME NEW m, NEW L, NEW S, Rings(m, L, S), NEW h \in Heads \ S, NEW q \in 1..Len(L[h]),
         NEW o, o = L[h][q], NEW n \in Nodes, Outside(L, n)
  PROVE  LET K == With(Less(L, h, q), h, q - 1, n)
         IN  Rings(list_replace(m, o, n), K, S) /\ Rings(list_replace_init(m, o, n), K, S)
<1> DEFINE K == With(Less(L, h, q), h, q - 1, n)
           x == Cell(h, L[h], q - 1)
           y == Succ(h, L[h], q)
           r == list_replace(m, o, n)
           s == INIT_LIST_HEAD(r, o)
           A == {<<x, n>>, <<n, y>>}
<1>1. AreLists(L, S) /\ m \in Mem
  BY DEF Rings
<1>2. /\ AreLists(K, S)
      /\ x \in Cells /\ y \in Cells /\ n # x /\ n # y
      /\ Beside(K, S, x, n) /\ Beside(K, S, n, y) /\ Alone(K, S, o)
      /\ \A a, b : Beside(K, S, a, b) => <<a, b>> \in A \/ Beside(L, S, a, b)
  BY <1>1, ReplacedPairs
<1>3. o \in Nodes /\ o # x /\ o # y /\ Beside(L, S, x, o) /\ Beside(L, S, o, y)
  BY <1>1, LessPairs
<1>4. o # n /\ o \in Cells /\ n \in Cells
  BY <1>3 DEF Cells, Outside
<1> HIDE DEF K, x, y
<1>5. m.next[o] = y /\ m.prev[o] = x
  BY <1>3 DEF Rings
<1>6. /\ r \in Mem
      /\ r.next[x] = n /\ r.prev[n] = x /\ r.next[n] = y /\ r.prev[y] = n
      /\ Elsewhere(r, m, {x, n}, {n, y})
  <2>1. /\ m \in Mem /\ o \in Cells /\ n \in Cells /\ n # o /\ x \in Cells /\ y \in Cells
        /\ m.next[o] = y /\ m.prev[o] = x /\ n # x /\ n # y
    BY <1>1, <1>2, <1>4, <1>5
  <2>2. (x # o /\ y # o) \/ (x = o /\ y = o)
    BY <1>3
  <2>3. InPlace(r, m, o, n, x, y)
    BY <2>1, <2>2, ReplaceWrites
  <2> QED BY <1>3, <2>3 DEF InPlace
<1> HIDE DEF r
<1>7. Relinks(L, S, K, S, A) /\ Wrote(r, m, A, K, S)
  BY <1>2, <1>6 DEF Relinks, Wrote, Elsewhere
<1> HIDE DEF A
<1>8. Rings(r, K, S)
  BY <1>7, Relink
<1>9. s \in Mem /\ Elsewhere(s, r, {o}, {o})
  BY <1>4, <1>6, InitWrites
<1> HIDE DEF s
<1>10. Rings(s, K, S)
  BY <1>2, <1>4, <1>8, <1>9, LooseRings
<1> QED
  BY <1>8, <1>10 DEF list_replace_init, r, s, K

\* A head with no entries, spliced away or not, is initialised.
LEMMA InitialisedRings ==
  ASSUME NEW m, NEW L, NEW S, Rings(m, L, S), NEW h \in Heads, L[h] = <<>>
  PROVE  Rings(INIT_LIST_HEAD(m, h), L, S \ {h})
<1> DEFINE T == S \ {h}
           r == INIT_LIST_HEAD(m, h)
           A == {<<h, h>>}
<1>1. AreLists(L, S) /\ m \in Mem /\ h \in Cells
  BY DEF Rings, Cells
<1>2. /\ AreLists(L, T) /\ Beside(L, T, h, h)
      /\ \A a, b : Beside(L, T, a, b) => <<a, b>> \in A \/ Beside(L, S, a, b)
  BY <1>1, InitPairs
<1> HIDE DEF T
<1>3. r \in Mem /\ r.next[h] = h /\ r.prev[h] = h /\ Elsewhere(r, m, {h}, {h})
  BY <1>1, InitWrites
<1> HIDE DEF r
<1>4. Relinks(L, S, L, T, A) /\ Wrote(r, m, A, L, T)
  BY <1>2, <1>3 DEF Relinks, Wrote, Elsewhere
<1> HIDE DEF A
<1> QED
  BY <1>4, Relink DEF r, T

\* What an empty, and a single, list look like.
LEMMA EmptyTold ==
  ASSUME NEW m, NEW L, NEW S, Rings(m, L, S), NEW h \in Heads \ S
  PROVE  /\ Beside(L, S, h, m.next[h]) /\ Beside(L, S, m.prev[h], h)
         /\ m.next[h] = Succ(h, L[h], 0) /\ m.prev[h] = Cell(h, L[h], Len(L[h]))
         /\ m.next[h] \in Cells /\ m.prev[h] \in Cells
         /\ list_empty(m, h) <=> L[h] = <<>>
         /\ m.prev[h] = h <=> L[h] = <<>>
<1> DEFINE s == L[h]
<1>1. L \in [Heads -> Seq(Nodes)] /\ Once(L) /\ s \in Seq(Nodes) /\ Len(s) \in Nat /\ (s = <<>> <=> Len(s) = 0)
  BY LenProperties, EmptySeq DEF Rings, AreLists
<1>2. 0 \in 0..Len(s) /\ Len(s) \in 0..Len(s) /\ Cell(h, s, 0) = h /\ Succ(h, s, Len(s)) = h
  BY <1>1 DEF Cell, Succ
<1>3. Beside(L, S, h, Succ(h, s, 0)) /\ Beside(L, S, Cell(h, s, Len(s)), h)
  BY <1>2 DEF Beside
<1>4. m.next[h] = Succ(h, s, 0) /\ m.prev[h] = Cell(h, s, Len(s))
  BY <1>3 DEF Rings
<1>5. Succ(h, s, 0) = h <=> Len(s) = 0
  <2>1. ASSUME Len(s) # 0 PROVE Succ(h, s, 0) # h
    <3>1. \A i, j \in 0..Len(L[h]) : Succ(h, L[h], i) = Succ(h, L[h], j) => i = j
      BY <1>1, SuccPlaces
    <3> QED BY <1>2, <2>1, <3>1
  <2> QED BY <1>2, <2>1
<1>6. Cell(h, s, Len(s)) = h <=> Len(s) = 0
  <2>1. ASSUME Len(s) # 0 PROVE Cell(h, s, Len(s)) # h
    <3>1. \A i, j \in 0..Len(L[h]) : Cell(h, L[h], i) = Cell(h, L[h], j) => i = j
      BY <1>1, PlacesDiffer
    <3> QED BY <1>2, <2>1, <3>1
  <2> QED BY <1>2, <2>1
<1>7. Succ(h, s, 0) \in Cells /\ Cell(h, s, Len(s)) \in Cells
  BY <1>1, <1>2, PlacesDiffer, SuccPlaces
<1> QED
  BY <1>1, <1>3, <1>4, <1>5, <1>6, <1>7 DEF list_empty

\* The list between x and y is put between p and n.
Spliced(r, m, p, n, x, y) ==
  /\ r \in Mem
  /\ r.next[p] = x /\ r.prev[x] = p /\ r.next[y] = n /\ r.prev[n] = y
  /\ Elsewhere(r, m, {p, y}, {x, n})

\* list_whole_append writes what __list_splice before the head d does.
LEMMA AppendWrites ==
  ASSUME NEW m \in Mem, NEW g \in Cells, NEW d \in Cells, NEW p \in Cells,
         NEW x \in Cells, NEW y \in Cells, m.next[g] = x, m.prev[g] = y, m.prev[d] = p,
         p # y, d # x, g # d, g # p, g # x
  PROVE  \E r : Spliced(r, m, p, d, x, y) /\ list_whole_append(m, g, d) = INIT_LIST_HEAD(r, g)
<1> DEFINE a == SetNext(m, p, x)
           b == SetPrev(a, x, p)
           c == SetPrev(b, d, y)
           r == SetNext(c, y, d)
<1>1. a \in Mem /\ a.next[p] = x /\ a.prev = m.prev /\ \A z \in Cells \ {p} : a.next[z] = m.next[z]
  BY NextWritten, CellsArePtr
<1>2. a = SetNext(m, m.prev[d], m.next[g])
  OBVIOUS
<1>3. b = SetPrev(a, a.next[g], a.prev[d])
  <2>1. a.next[g] = x /\ a.prev[d] = p
    BY <1>1
  <2> QED BY <2>1
<1> HIDE DEF a
<1>4. b \in Mem /\ b.prev[x] = p /\ b.next = a.next /\ \A z \in Cells \ {x} : b.prev[z] = a.prev[z]
  <2>1. a \in Mem
    BY <1>1
  <2> QED BY <2>1, PrevWritten, CellsArePtr
<1>5. c = SetPrev(b, d, b.prev[g])
  <2>1. b.prev[g] = y
    BY <1>1, <1>4
  <2> QED BY <2>1
<1> HIDE DEF b
<1>6. c \in Mem /\ c.prev[d] = y /\ c.next = b.next /\ \A z \in Cells \ {d} : c.prev[z] = b.prev[z]
  <2>1. b \in Mem
    BY <1>4
  <2> QED BY <2>1, PrevWritten, CellsArePtr
<1>7. r = SetNext(c, c.prev[g], d)
  <2>1. c.prev[g] = y
    BY <1>1, <1>4, <1>6
  <2> QED BY <2>1
<1> HIDE DEF c
<1>8. r \in Mem /\ r.next[y] = d /\ r.prev = c.prev /\ \A z \in Cells \ {y} : r.next[z] = c.next[z]
  <2>1. c \in Mem
    BY <1>6
  <2> QED BY <2>1, NextWritten, CellsArePtr
<1> HIDE DEF r
<1>9. Spliced(r, m, p, d, x, y)
  BY <1>1, <1>4, <1>6, <1>8 DEF Elsewhere, Spliced
<1>10. list_whole_append(m, g, d) = INIT_LIST_HEAD(r, g)
  BY <1>2, <1>3, <1>5, <1>7 DEF list_whole_append, list_empty
<1> QED
  BY <1>9, <1>10

\* list_replace_init on the head g of a list: its list goes to the head h, which has none.
LEMMA GivenRings ==
  ASSUME NEW m, NEW L, NEW S, Rings(m, L, S), NEW g \in Heads \ S, NEW h \in Heads, g # h, L[h] = <<>>
  PROVE  Rings(list_replace_init(m, g, h), Given(L, g, h), S \ {h})
<1> DEFINE T == S \ {h}
           U == T \cup {g}
           K == Given(L, g, h)
           x == m.next[g]
           y == m.prev[g]
           r == list_replace(m, g, h)
           s == INIT_LIST_HEAD(r, g)
<1>1. AreLists(L, S) /\ m \in Mem /\ h \in Cells /\ g \in Cells /\ g \in Heads \ T /\ h \in Heads \ T
  BY DEF Rings, Cells
<1>2. /\ AreLists(L, T) /\ Beside(L, T, h, h)
      /\ \A a, b : Beside(L, T, a, b) => <<a, b>> \in {<<h, h>>} \/ Beside(L, S, a, b)
  BY <1>1, InitPairs
<1>3. /\ Beside(L, S, g, x) /\ Beside(L, S, y, g)
      /\ x = Succ(g, L[g], 0) /\ y = Cell(g, L[g], Len(L[g])) /\ x \in Cells /\ y \in Cells
      /\ x = g <=> L[g] = <<>>
      /\ y = g <=> L[g] = <<>>
  BY EmptyTold DEF list_empty
<1>4. Beside(L, T, g, x) /\ Beside(L, T, y, g) /\ h # x /\ h # y
  <2>1. \A a, b : Beside(L, S, a, b) => Beside(L, T, a, b)
    BY DEF Beside
  <2>2. AreLists(L, T) /\ Beside(L, T, h, h) /\ Beside(L, T, g, x) /\ Beside(L, T, y, g)
    BY <1>2, <1>3, <2>1
  <2> HIDE DEF x, y, T
  <2>3. h = x => g = h
    <3>1. \A a, b, c : Beside(L, T, a, c) /\ Beside(L, T, b, c) => a = b
      BY <2>2, OneNeighbour
    <3> QED BY <2>2, <3>1
  <2>4. h = y => g = h
    <3>1. \A a, b, c : Beside(L, T, a, b) /\ Beside(L, T, a, c) => b = c
      BY <2>2, OneNeighbour
    <3> QED BY <2>2, <3>1
  <2> QED BY <2>2, <2>3, <2>4
<1> HIDE DEF T, U, x, y
<1>5. InPlace(r, m, g, h, y, x)
  <2>1. (x # g /\ y # g) \/ (x = g /\ y = g)
    BY <1>3
  <2>2. m.next[g] = x /\ m.prev[g] = y
    BY DEF x, y
  <2> QED BY <1>1, <1>3, <1>4, <2>1, <2>2, ReplaceWrites
<1>6. r \in Mem
  BY <1>5 DEF InPlace
<1>7. s \in Mem /\ s.next[g] = g /\ s.prev[g] = g /\ Elsewhere(s, r, {g}, {g})
  BY <1>1, <1>6, InitWrites
<1>8. s = list_replace_init(m, g, h)
  BY DEF list_replace_init
<1> HIDE DEF r, s
<1>9. CASE L[g] = <<>>
  <2> DEFINE A == {<<h, h>>, <<g, g>>}
  <2>1. K = L
    BY <1>1, <1>9 DEF Given, AreLists
  <2>2. Beside(L, T, g, g)
    BY <1>3, <1>4, <1>9
  <2>3. r.next[h] = h /\ r.prev[h] = h /\ Elsewhere(r, m, {h}, {h, g})
    BY <1>3, <1>5, <1>9 DEF InPlace
  <2>4. Relinks(L, S, L, T, A)
    BY <1>2, <2>2 DEF Relinks
  <2>5. Wrote(s, m, A, L, T)
    BY <1>1, <1>7, <2>3 DEF Wrote, Elsewhere
  <2> HIDE DEF A, K
  <2>6. Rings(s, L, T)
    BY <2>4, <2>5, Relink
  <2> QED BY <1>8, <2>1, <2>6 DEF T, K
<1>10. CASE L[g] # <<>>
  <2> DEFINE A == {<<y, h>>, <<h, x>>, <<g, g>>}
             l == L[g]
  <2>1. K = Joined(L, g, h, l)
    BY DEF Joined, Given
  <2>2. l = L[g] \o L[h] /\ h = Succ(h, L[h], 0)
    <3>1. L[g] \in Seq(Nodes) /\ Len(L[h]) = 0
      BY <1>1 DEF AreLists
    <3> QED BY <3>1, ConcatEmptySeq DEF Succ
  <2> HIDE DEF K, l
  <2>3. AreLists(K, U) /\ K[g] = <<>>
    <3>1. l = L[g] \o L[h] \/ l = L[h] \o L[g]
      BY <2>2
    <3>2. AreLists(Joined(L, g, h, l), U)
      BY <1>1, <1>2, <3>1, JoinedLists DEF U
    <3>3. K[g] = <<>>
      BY <1>1, <2>1 DEF Joined, AreLists
    <3> QED BY <2>1, <3>2, <3>3
  <2>4. /\ Beside(K, U, h, x) /\ Beside(K, U, y, h)
        /\ \A a, b : Beside(K, U, a, b) => <<a, b>> \in {<<h, x>>, <<y, h>>} \/ Beside(L, T, a, b)
    <3>1. Joins(L, T, g, h, l, h, h, x, y)
      BY <1>1, <1>2, <1>3, <1>10, <2>2 DEF Joins
    <3>2. Hooks(L, T, g, h, l, h, h, x, y)
      BY <3>1, JoinedPairs
    <3> QED BY <2>1, <3>2 DEF Hooks, U
  <2>5. /\ AreLists(K, T) /\ Beside(K, T, g, g)
        /\ \A a, b : Beside(K, T, a, b) => <<a, b>> \in {<<g, g>>} \/ Beside(K, U, a, b)
    <3>1. T = U \ {g}
      BY <1>1 DEF T, U
    <3> QED BY <1>1, <2>3, <3>1, InitPairs
  <2>6. Beside(K, T, h, x) /\ Beside(K, T, y, h)
    <3>1. \A a, b : Beside(K, U, a, b) => Beside(K, T, a, b)
      BY DEF Beside, U
    <3> QED BY <2>4, <3>1
  <2>7. ~Beside(K, T, h, h)
    BY <1>4, <2>5, <2>6, OneNeighbour
  <2>8. Relinks(L, S, K, T, A)
    <3>1. ASSUME NEW a, NEW b, Beside(K, T, a, b) PROVE <<a, b>> \in A \/ Beside(L, S, a, b)
      BY <1>2, <2>4, <2>5, <2>7, <3>1
    <3> QED BY <2>5, <2>6, <3>1 DEF Relinks
  <2>9. /\ r.next[y] = h /\ r.prev[h] = y /\ r.next[h] = x /\ r.prev[x] = h
        /\ Elsewhere(r, m, {y, h}, {h, x}) /\ x # g /\ y # g
    BY <1>3, <1>5, <1>10 DEF InPlace
  <2>10. Wrote(s, m, A, K, T)
    BY <1>1, <1>3, <1>7, <2>9 DEF Wrote, Elsewhere
  <2> HIDE DEF A
  <2>11. Rings(s, K, T)
    BY <2>8, <2>10, Relink
  <2> QED BY <1>8, <2>11 DEF T, K
<1> QED
  BY <1>9, <1>10

\* The list of g joined to that of h by writing the two new pairs of neighbours.
LEMMA JoinedRings ==
  ASSUME NEW m, NEW L, NEW S, Rings(m, L, S), NEW g \in Heads \ S, NEW h \in Heads \ S, g # h, L[g] # <<>>,
         NEW s, NEW p, NEW n,
         \/ s = L[g] \o L[h] /\ p = h /\ n = m.next[h]
         \/ s = L[h] \o L[g] /\ p = m.prev[h] /\ n = h
  PROVE  /\ Rings(SpliceBetween(m, g, p, n), Joined(L, g, h, s), S \cup {g})
         /\ n = h => Rings(list_whole_append(m, g, h), Joined(L, g, h, s), S)
<1> DEFINE x == m.next[g]
           y == m.prev[g]
           K == Joined(L, g, h, s)
           T == S \cup {g}
           A == {<<p, x>>, <<y, n>>}
<1>1. AreLists(L, S) /\ m \in Mem /\ g \in Cells /\ h \in Cells
  BY DEF Rings, Cells
<1>2. /\ x = Succ(g, L[g], 0) /\ y = Cell(g, L[g], Len(L[g])) /\ x \in Cells /\ y \in Cells /\ x # g
      /\ m.next[h] = Succ(h, L[h], 0) /\ m.prev[h] = Cell(h, L[h], Len(L[h]))
      /\ m.next[h] \in Cells /\ m.prev[h] \in Cells
  BY EmptyTold DEF list_empty
<1>3. p \in Cells /\ n \in Cells
  BY <1>1, <1>2
<1> HIDE DEF x, y
<1>4. /\ Beside(L, S, g, x) /\ Beside(L, S, y, g) /\ Beside(L, S, p, n)
      /\ Beside(K, T, p, x) /\ Beside(K, T, y, n) /\ p # y /\ n # x
      /\ \A a, b : Beside(K, T, a, b) => <<a, b>> \in A \/ Beside(L, S, a, b)
  <2>1. Joins(L, S, g, h, s, p, n, x, y)
    BY <1>1, <1>2 DEF Joins
  <2>2. Hooks(L, S, g, h, s, p, n, x, y)
    BY <2>1, JoinedPairs
  <2> QED BY <2>2 DEF Hooks
<1>5. AreLists(K, T) /\ K[g] = <<>> /\ T \ {g} = S
  <2>1. s = L[g] \o L[h] \/ s = L[h] \o L[g]
    OBVIOUS
  <2>2. AreLists(K, T)
    BY <1>1, <2>1, JoinedLists
  <2> QED BY <1>1, <2>2 DEF Joined, AreLists
<1> HIDE DEF K, T
<1>6. ASSUME NEW r, Spliced(r, m, p, n, x, y)
      PROVE  Rings(r, K, T)
  <2>1. Relinks(L, S, K, T, A)
    BY <1>4, <1>5 DEF Relinks
  <2>2. Wrote(r, m, A, K, T)
    BY <1>6 DEF Wrote, Elsewhere, Spliced
  <2> HIDE DEF A
  <2> QED BY <2>1, <2>2, Relink
<1>7. Rings(SpliceBetween(m, g, p, n), K, T)
  <2> DEFINE r == SpliceBetween(m, g, p, n)
  <2>1. Spliced(r, m, p, n, x, y)
    <3>1. m.next[g] = x /\ m.prev[g] = y
      BY DEF x, y
    <3> QED BY <1>1, <1>2, <1>3, <1>4, <3>1, SpliceWrites DEF Spliced
  <2> HIDE DEF r
  <2>2. Rings(r, K, T)
    BY <1>6, <2>1
  <2> QED BY <2>2 DEF r
<1>8. ASSUME n = h PROVE Rings(list_whole_append(m, g, h), K, S)
  <2>1. p = m.prev[h] /\ m.next[g] = x /\ m.prev[g] = y
    BY <1>4, <1>8 DEF x, y, Rings
  <2>2. g # p
    <3>1. Beside(L, S, p, h)
      BY <1>4, <1>8
    <3>2. p = g => x = h
      BY <1>1, <1>4, <3>1, OneNeighbour
    <3> QED BY <1>4, <1>8, <3>2
  <2>3. PICK r : Spliced(r, m, p, h, x, y) /\ list_whole_append(m, g, h) = INIT_LIST_HEAD(r, g)
    <3>1. /\ m \in Mem /\ g \in Cells /\ h \in Cells /\ p \in Cells /\ x \in Cells /\ y \in Cells
          /\ m.next[g] = x /\ m.prev[g] = y /\ m.prev[h] = p
          /\ p # y /\ h # x /\ g # h /\ g # p /\ g # x
      BY <1>1, <1>2, <1>3, <1>4, <1>8, <2>1, <2>2
    <3> QED BY <3>1, AppendWrites
  <2>4. Rings(r, K, T)
    BY <1>6, <1>8, <2>3
  <2>5. Rings(INIT_LIST_HEAD(r, g), K, T \ {g})
    BY <1>5, <2>4, InitialisedRings
  <2> QED BY <1>5, <2>3, <2>5
<1> QED
  BY <1>7, <1>8 DEF K, T

\* list_cut_position gives the empty head g the first i entries of h.
LEMMA CutRings ==
  ASSUME NEW m, NEW L, NEW S, Rings(m, L, S), NEW g \in Heads \ S, NEW h \in Heads \ S, g # h, L[g] = <<>>,
         NEW i \in 0..Len(L[h]), NEW c, c = Cell(h, L[h], i)
  PROVE  Rings(list_cut_position(m, g, h, c), Parted(L, g, h, i), S)
<1> DEFINE s == L[h]
           K == Parted(L, g, h, i)
<1>1. AreLists(L, S) /\ m \in Mem /\ g \in Cells /\ h \in Cells
  BY DEF Rings, Cells
<1>2. L \in [Heads -> Seq(Nodes)] /\ Once(L) /\ s \in Seq(Nodes) /\ Len(s) \in Nat /\ i \in 0..Len(s)
  BY <1>1, LenProperties DEF AreLists
<1>3. /\ m.next[h] = Succ(h, s, 0) /\ m.prev[h] = Cell(h, s, Len(s))
      /\ list_empty(m, h) <=> s = <<>>
  BY EmptyTold
<1>4. CASE i = 0
  <2>1. c = h
    BY <1>4 DEF Cell
  <2>2. K = L
    <3> DEFINE a == SubSeq(s, 1, i)
               b == SubSeq(s, i + 1, Len(s))
    <3>1. a \in Seq(Nodes) /\ Len(a) = i /\ b \in Seq(Nodes) /\ s = a \o b
      BY <1>2, CutInTwo
    <3>2. K = [L EXCEPT ![g] = a, ![h] = b]
      BY DEF Parted
    <3> HIDE DEF a, b, s, K
    <3>3. a = <<>>
      BY <1>4, <3>1, EmptySeq
    <3>4. b = s
      BY <3>1, <3>3, ConcatEmptySeq
    <3>5. K = [L EXCEPT ![g] = L[g], ![h] = L[h]]
      BY <3>2, <3>3, <3>4 DEF s
    <3> QED BY <1>2, <3>5
  <2>3. list_cut_position(m, g, h, c) \in {m, INIT_LIST_HEAD(m, g)}
    BY <2>1 DEF list_cut_position
  <2>4. Rings(INIT_LIST_HEAD(m, g), L, S)
    <3>1. S \ {g} = S
      OBVIOUS
    <3> QED BY <3>1, InitialisedRings
  <2> QED BY <2>2, <2>3, <2>4
<1>5. CASE i # 0
  <2> DEFINE x == Succ(h, s, 0)
             y == Succ(h, s, i)
             r == CutAt(m, g, h, c)
             A == {<<g, x>>, <<c, g>>, <<h, y>>}
  <2>1. i \in 1..Len(L[h]) /\ c = L[h][i] /\ s # <<>>
    BY <1>2, <1>5, EmptySeq DEF Cell
  <2>2. /\ AreLists(K, S)
        /\ c \in Nodes /\ x \in Cells /\ y \in Cells /\ x # y /\ x # g /\ y # g /\ g # c /\ h # c
        /\ Beside(L, S, h, x) /\ Beside(L, S, c, y)
        /\ Beside(K, S, g, x) /\ Beside(K, S, c, g) /\ Beside(K, S, h, y)
        /\ \A a, b : Beside(K, S, a, b) => <<a, b>> \in A \/ Beside(L, S, a, b)
    BY <1>1, <2>1, PartedPairs
  <2>3. list_is_singular(m, h) => m.next[h] = c
    <3>1. ASSUME m.next[h] = m.prev[h] PROVE m.next[h] = c
      <4>1. Len(s) # 0 /\ 1 \in 1..Len(s) /\ Len(s) \in 1..Len(s)
        BY <1>2, <2>1
      <4>2. m.next[h] = s[1] /\ m.prev[h] = s[Len(s)]
        BY <1>2, <1>3, <4>1 DEF Succ, Cell
      <4>3. 1 = Len(s)
        <5>1. \A j, k \in 1..Len(s) : s[j] = s[k] => j = k
          BY <1>2 DEF Once
        <5> HIDE DEF s
        <5>2. s[1] = s[Len(s)]
          BY <3>1, <4>2
        <5> QED BY <4>1, <5>1, <5>2
      <4>4. i = 1
        <5>1. i \in 1..1
          BY <2>1, <4>3
        <5> QED BY <5>1
      <4> QED BY <2>1, <4>2, <4>4
    <3> QED BY <3>1 DEF list_is_singular
  <2>4. list_cut_position(m, g, h, c) = r
    BY <1>3, <2>1, <2>2, <2>3 DEF list_cut_position
  <2> HIDE DEF K, x, y
  <2>5. m.next[h] = x /\ m.next[c] = y /\ c \in Cells
    BY <2>2 DEF Rings, Cells
  <2>6. CutOff(r, m, g, h, c, x, y)
    <3>1. /\ m \in Mem /\ g \in Cells /\ h \in Cells /\ c \in Cells /\ x \in Cells /\ y \in Cells
          /\ m.next[h] = x /\ m.next[c] = y
          /\ g # h /\ g # c /\ h # c /\ x # y /\ x # g /\ y # g
      BY <1>1, <2>2, <2>5
    <3> QED BY <3>1, CutWrites
  <2> HIDE DEF r
  <2>7. Relinks(L, S, K, S, A) /\ Wrote(r, m, A, K, S)
    BY <2>2, <2>6 DEF Relinks, Wrote, Elsewhere, CutOff
  <2> HIDE DEF A
  <2>8. Rings(r, K, S)
    BY <2>7, Relink
  <2> QED BY <2>4, <2>8 DEF K
<1> QED
  BY <1>4, <1>5

\* The first of h becomes its last.
Turned(L, h) ==
  LET J == Less(L, h, 1) IN IF L[h] = <<>> THEN L ELSE With(J, h, Len(J[h]), L[h][1])

LEMMA TurnedRings ==
  ASSUME NEW m, NEW L, NEW S, Rings(m, L, S), NEW h \in Heads \ S
  PROVE  Rings(list_rotate_left(m, h), Turned(L, h), S)
<1>1. (list_empty(m, h) <=> L[h] = <<>>) /\ m.next[h] = Succ(h, L[h], 0)
  BY EmptyTold
<1>2. CASE L[h] = <<>>
  BY <1>1, <1>2 DEF list_rotate_left, Turned
<1>3. CASE L[h] # <<>>
  <2> DEFINE e == L[h][1]
             J == Less(L, h, 1)
  <2>1. L[h] \in Seq(Nodes) /\ Len(L[h]) \in Nat /\ Len(L[h]) # 0
    <3>1. L[h] \in Seq(Nodes)
      BY DEF Rings, AreLists
    <3> QED BY <1>3, <3>1, EmptySeq, LenProperties
  <2>2. 1 \in 1..Len(L[h]) /\ m.next[h] = e
    BY <1>1, <2>1 DEF Succ
  <2> HIDE DEF e
  <2>3. Rings(list_move_tail(m, e, h), With(J, h, Len(J[h]), e), S)
    BY <2>2, MovedRings DEF e
  <2> QED BY <1>1, <1>3, <2>2, <2>3 DEF list_rotate_left, Turned, e
<1> QED
  BY <1>2, <1>3

\* list_splice and list_splice_tail; g is left as it was, its list gone.
LEMMA SplicedRings ==
  ASSUME NEW m, NEW L, NEW S, Rings(m, L, S), NEW g \in Heads \ S, NEW h \in Heads \ S, g # h
  PROVE  LET T == IF L[g] = <<>> THEN S ELSE S \cup {g}
         IN  /\ Rings(list_splice(m, g, h), Joined(L, g, h, L[g] \o L[h]), T)
             /\ Rings(list_splice_tail(m, g, h), Joined(L, g, h, L[h] \o L[g]), T)
             /\ Rings(Reinit(m, g, list_splice(m, g, h)), Joined(L, g, h, L[g] \o L[h]), S)
             /\ Rings(Reinit(m, g, list_splice_tail(m, g, h)), Joined(L, g, h, L[h] \o L[g]), S)
             /\ Rings(list_whole_append(m, g, h), Joined(L, g, h, L[h] \o L[g]), S)
<1> DEFINE U == S \cup {g}
           a == L[g] \o L[h]
           b == L[h] \o L[g]
           A == Joined(L, g, h, a)
           B == Joined(L, g, h, b)
<1>1. /\ L \in [Heads -> Seq(Nodes)] /\ L[g] \in Seq(Nodes) /\ L[h] \in Seq(Nodes)
      /\ list_empty(m, g) <=> L[g] = <<>>
      /\ U \ {g} = S
  <2>1. list_empty(m, g) <=> L[g] = <<>>
    BY EmptyTold
  <2> QED BY <2>1 DEF Rings, AreLists
<1>2. CASE L[g] = <<>>
  <2>1. a = L[h] /\ b = L[h]
    BY <1>1, <1>2, ConcatEmptySeq
  <2> HIDE DEF a, b
  <2>2. A = L /\ B = L
    BY <1>1, <1>2, <2>1 DEF Joined
  <2> HIDE DEF A, B
  <2>3. list_splice(m, g, h) = m /\ list_splice_tail(m, g, h) = m /\ list_whole_append(m, g, h) = m
    BY <1>1, <1>2 DEF list_splice, list_splice_tail, list_whole_append
  <2>4. Reinit(m, g, m) = m
    BY <1>1, <1>2 DEF Reinit
  <2>5. /\ Rings(list_splice(m, g, h), A, S) /\ Rings(list_splice_tail(m, g, h), B, S)
        /\ Rings(Reinit(m, g, list_splice(m, g, h)), A, S)
        /\ Rings(Reinit(m, g, list_splice_tail(m, g, h)), B, S)
        /\ Rings(list_whole_append(m, g, h), B, S)
    BY <2>2, <2>3, <2>4
  <2> QED BY <1>2, <2>5 DEF A, B, a, b
<1>3. CASE L[g] # <<>>
  <2> DEFINE n == m.next[h]
             p == m.prev[h]
  <2>1. Rings(SpliceBetween(m, g, h, n), A, U)
    BY <1>3, JoinedRings
  <2>2. Rings(SpliceBetween(m, g, p, h), B, U) /\ Rings(list_whole_append(m, g, h), B, S)
    BY <1>3, JoinedRings
  <2>3. A[g] = <<>> /\ B[g] = <<>>
    BY <1>1 DEF Joined
  <2>4. list_splice(m, g, h) = SpliceBetween(m, g, h, n) /\ list_splice_tail(m, g, h) = SpliceBetween(m, g, p, h)
    BY <1>1, <1>3 DEF list_splice, list_splice_tail
  <2> HIDE DEF A, B, U
  <2>5. Rings(INIT_LIST_HEAD(list_splice(m, g, h), g), A, S)
    BY <1>1, <2>1, <2>3, <2>4, InitialisedRings
  <2>6. Rings(INIT_LIST_HEAD(list_splice_tail(m, g, h), g), B, S)
    BY <1>1, <2>2, <2>3, <2>4, InitialisedRings
  <2>7. /\ Reinit(m, g, list_splice(m, g, h)) = INIT_LIST_HEAD(list_splice(m, g, h), g)
        /\ Reinit(m, g, list_splice_tail(m, g, h)) = INIT_LIST_HEAD(list_splice_tail(m, g, h), g)
    BY <1>1, <1>3 DEF Reinit
  <2>8. /\ Rings(list_splice(m, g, h), A, U) /\ Rings(list_splice_tail(m, g, h), B, U)
        /\ Rings(Reinit(m, g, list_splice(m, g, h)), A, S)
        /\ Rings(Reinit(m, g, list_splice_tail(m, g, h)), B, S)
        /\ Rings(list_whole_append(m, g, h), B, S)
    BY <2>1, <2>2, <2>4, <2>5, <2>6, <2>7
  <2> QED BY <1>3, <2>8 DEF A, B, U, a, b
<1> QED
  BY <1>2, <1>3

-----------------------------------------------------------------------------
(* list_whole_move carries the entries over one by one.                    *)

\* A list without repetitions is no longer than there are entries.
LEMMA EntriesAreFew ==
  ASSUME NEW s \in Seq(Nodes), Distinct(s)
  PROVE  Cardinality(Nodes) \in Nat /\ Len(s) \in Nat /\ Len(s) <= Cardinality(Nodes)
<1> DEFINE f == [i \in 1..Len(s) |-> s[i]]
<1>1. IsFiniteSet(Nodes) /\ Cardinality(Nodes) \in Nat
  <2>1. IsFiniteSet(Nodes)
    BY CellsAssumption, FS_Subset
  <2> QED BY <2>1, FS_CardinalityType
<1>2. Len(s) \in Nat /\ \A i \in 1..Len(s) : s[i] \in Nodes
  BY LenProperties, ElementOfSeq
<1>3. f \in Injection(1..Len(s), Nodes)
  <2>1. f \in [1..Len(s) -> Nodes]
    BY <1>2
  <2>2. \A i, j \in 1..Len(s) : f[i] = f[j] => i = j
    BY DEF Distinct
  <2> QED BY <2>1, <2>2 DEF Injection, IsInjective
<1>4. Cardinality(1..Len(s)) <= Cardinality(Nodes)
  <2> HIDE DEF f
  <2> QED BY <1>1, <1>3, FS_Injection
<1>5. Cardinality(1..Len(s)) = Len(s)
  <2> DEFINE n == Len(s)
  <2> HIDE DEF n
  <2>1. n \in Nat /\ 1 \in Nat
    BY <1>2 DEF n
  <2>2. Cardinality(1..n) = n
    BY <2>1, FS_Interval
  <2> QED BY <2>2 DEF n
<1> QED
  BY <1>1, <1>2, <1>4, <1>5

LEMMA EndsOfList ==
  ASSUME NEW s \in Seq(Nodes), NEW n \in Nodes
  PROVE  /\ InsertAt(s, 1, n) = <<n>> \o s
         /\ InsertAt(s, Len(s) + 1, n) = s \o <<n>>
         /\ s # <<>> => RemoveAt(s, 1) = Tail(s) /\ Head(s) = s[1]
<1> DEFINE l == Len(s)
<1>1. l \in Nat /\ SubSeq(s, 1, l) = s /\ <<n>> \in Seq(Nodes)
  BY LenProperties, SubSeqFull
<1>2. SubSeq(s, 1, 0) = <<>> /\ SubSeq(s, l + 1, l) = <<>>
  BY <1>1, SubSeqEmpty
<1>3. <<>> \o <<n>> = <<n>> /\ (s \o <<n>>) \o <<>> = s \o <<n>>
  <2>1. s \o <<n>> \in Seq(Nodes)
    BY <1>1, ConcatProperties
  <2> QED BY <1>1, <2>1, ConcatEmptySeq
<1>4. 1 - 1 = 0 /\ (l + 1) - 1 = l /\ 1 + 1 = 2
  BY <1>1
<1> HIDE DEF l
<1>5. InsertAt(s, 1, n) = <<n>> \o s
  BY <1>1, <1>2, <1>3, <1>4 DEF InsertAt, l
<1>6. InsertAt(s, l + 1, n) = s \o <<n>>
  <2> DEFINE k == l + 1
  <2>1. k - 1 = l /\ SubSeq(s, k, l) = <<>>
    BY <1>2, <1>4
  <2> HIDE DEF k
  <2>2. InsertAt(s, k, n) = s \o <<n>>
    BY <1>1, <1>3, <2>1 DEF InsertAt, l
  <2> QED BY <2>2 DEF k
<1>7. ASSUME s # <<>> PROVE RemoveAt(s, 1) = Tail(s) /\ Head(s) = s[1]
  <2>1. Tail(s) = SubSeq(s, 2, l) /\ Tail(s) \in Seq(Nodes) /\ Head(s) = s[1]
    BY <1>7, TailIsSubSeq, TailProperties DEF l
  <2>2. <<>> \o Tail(s) = Tail(s)
    BY <2>1, ConcatEmptySeq
  <2> QED BY <1>2, <1>4, <2>1, <2>2 DEF RemoveAt, l
<1> QED
  BY <1>5, <1>6, <1>7 DEF l

\* The first of b passes to the end of a.
LEMMA FirstPassesOver ==
  ASSUME NEW a \in Seq(Nodes), NEW b \in Seq(Nodes), b # <<>>
  PROVE  InsertAt(a, Len(a) + 1, b[1]) \o RemoveAt(b, 1) = a \o b
<1> DEFINE e == b[1]
           t == Tail(b)
<1>1. e \in Nodes /\ t \in Seq(Nodes) /\ b = <<e>> \o t /\ Head(b) = e
  <2>1. Head(b) \in Nodes /\ Tail(b) \in Seq(Nodes) /\ Head(b) = b[1]
    BY HeadTailProperties, TailProperties
  <2>2. SubSeq(b, 1, Len(b)) = <<b[1]>> \o SubSeq(b, 1 + 1, Len(b))
    <3>1. 1 \in 1..Len(b) /\ Len(b) \in 1..Len(b)
      BY LenProperties, EmptySeq
    <3> QED BY <3>1, SubSeqRecursiveFirst
  <2>3. SubSeq(b, 1, Len(b)) = b /\ SubSeq(b, 1 + 1, Len(b)) = Tail(b)
    BY SubSeqFull, TailIsSubSeq
  <2> QED BY <2>1, <2>2, <2>3
<1>2. RemoveAt(b, 1) = t
  BY <1>1, EndsOfList
<1> HIDE DEF e, t
<1>3. InsertAt(a, Len(a) + 1, e) = a \o <<e>>
  BY <1>1, EndsOfList
<1>4. (a \o <<e>>) \o t = a \o (<<e>> \o t)
  <2>1. <<e>> \in Seq(Nodes)
    BY <1>1
  <2> QED BY <1>1, <2>1, ConcatAssociative
<1> QED
  BY <1>1, <1>2, <1>3, <1>4 DEF e

\* A round of list_whole_move's loop, and f, the loop after each of n rounds.
Round(r, s, d) ==
  IF r.pos = s THEN r
  ELSE LET moved == list_move_tail(r.m, r.pos, d)
       IN  [m |-> moved, pos |-> r.n, n |-> moved.next[r.n]]
Rounds(f, m, s, d, n) ==
  f = [i \in 0..n |-> IF i = 0 THEN [m |-> m, pos |-> m.next[s], n |-> m.next[m.next[s]]]
                      ELSE Round(f[i - 1], s, d)]

LEMMA RoundsExist ==
  ASSUME NEW m, NEW s, NEW d
  PROVE  \A n \in Nat : \E f : Rounds(f, m, s, d, n)
<1> DEFINE first == [m |-> m, pos |-> m.next[s], n |-> m.next[m.next[s]]]
           Step(v) == Round(v, s, d)
           IsRun(f, n) == f = [i \in 0..n |-> IF i = 0 THEN first ELSE Step(f[i - 1])]
           S == {n \in Nat : \E f : IsRun(f, n)}
<1> HIDE DEF first, Step
<1>1. 0 \in S
  <2>1. IsRun([i \in 0..0 |-> first], 0)
    OBVIOUS
  <2> QED BY <2>1
<1>2. ASSUME NEW n \in Nat, n \in S PROVE n + 1 \in S
  <2>1. PICK f : IsRun(f, n)
    BY <1>2
  <2>2. \A i \in 0..n : f[i] = IF i = 0 THEN first ELSE Step(f[i - 1])
    BY <2>1, Zenon
  <2> DEFINE g == [i \in 0..(n + 1) |-> IF i <= n THEN f[i] ELSE Step(f[i - 1])]
             k == [i \in 0..(n + 1) |-> IF i = 0 THEN first ELSE Step(g[i - 1])]
  <2>3. ASSUME NEW i \in 0..(n + 1) PROVE g[i] = k[i]
    <3>1. CASE i = 0
      BY <2>2, <3>1
    <3>2. CASE i \in 1..n
      <4>1. g[i] = f[i] /\ g[i - 1] = f[i - 1] /\ i # 0 /\ i \in 0..n /\ k[i] = Step(g[i - 1])
        BY <3>2
      <4> HIDE DEF g, k
      <4> QED BY <2>2, <4>1
    <3>3. CASE i = n + 1
      <4>1. g[i - 1] = f[i - 1] /\ g[i] = Step(f[i - 1]) /\ k[i] = Step(g[i - 1])
        BY <3>3
      <4> HIDE DEF g, k
      <4> QED BY <4>1
    <3> QED BY <3>1, <3>2, <3>3
  <2>4. g = [i \in 0..(n + 1) |-> g[i]] /\ k = [i \in 0..(n + 1) |-> k[i]]
    OBVIOUS
  <2>5. g = k
    <3> HIDE DEF g, k
    <3> QED BY <2>3, <2>4
  <2>6. IsRun(g, n + 1)
    <3> HIDE DEF g
    <3> QED BY <2>5, Zenon
  <2> HIDE DEF g, IsRun
  <2> QED BY <2>6
<1> HIDE DEF S
<1>3. Nat \subseteq S
  BY <1>1, <1>2, InductionOverPositions
<1> QED
  BY <1>3 DEF S, Rounds, Step, first

\* After i rounds r, what has gone from the front of s is behind d in the same order.
Carried(K, L, S, s, d, r, i) ==
  /\ Rings(r.m, K, S)
  /\ K[d] \o K[s] = L[d] \o L[s] /\ \A f \in Heads \ {s, d} : K[f] = L[f]
  /\ r.pos = Succ(s, K[s], 0) /\ (r.pos # s => r.n = r.m.next[r.pos])
  /\ K[s] = <<>> \/ Len(K[s]) + i <= Len(L[s])

LEMMA RoundCarries ==
  ASSUME NEW L, NEW K, NEW S, NEW s \in Heads \ S, NEW d \in Heads \ S, s # d,
         NEW r, NEW i \in Nat, Carried(K, L, S, s, d, r, i), Len(L[s]) \in Nat
  PROVE  \E J : Carried(J, L, S, s, d, Round(r, s, d), i + 1)
<1>1. /\ Rings(r.m, K, S) /\ AreLists(K, S) /\ K \in [Heads -> Seq(Nodes)]
      /\ K[s] \in Seq(Nodes) /\ K[d] \in Seq(Nodes) /\ Once(K)
      /\ Len(K[s]) \in Nat /\ Len(K[d]) \in Nat
  <2>1. Rings(r.m, K, S) /\ AreLists(K, S) /\ K \in [Heads -> Seq(Nodes)] /\ Once(K)
    BY DEF Carried, Rings, AreLists
  <2>2. K[s] \in Seq(Nodes) /\ K[d] \in Seq(Nodes)
    BY <2>1
  <2> QED BY <2>1, <2>2, LenProperties
<1>2. CASE r.pos = s
  <2>1. Round(r, s, d) = r
    BY <1>2 DEF Round
  <2>2. K[s] = <<>>
    <3>1. list_empty(r.m, s) <=> K[s] = <<>>
      BY <1>1, EmptyTold
    <3>2. r.m.next[s] = Succ(s, K[s], 0)
      BY <1>1, EmptyTold
    <3> QED BY <1>2, <3>1, <3>2 DEF Carried, list_empty
  <2> QED BY <2>1, <2>2 DEF Carried
<1>3. CASE r.pos # s
  <2> DEFINE e == K[s][1]
             J == Less(K, s, 1)
             I == With(J, d, Len(J[d]), e)
             moved == list_move_tail(r.m, e, d)
  <2>1. Len(K[s]) # 0 /\ K[s] # <<>> /\ 1 \in 1..Len(K[s]) /\ r.pos = e
    <3>1. Len(K[s]) # 0
      BY <1>1, <1>3 DEF Carried, Succ
    <3> QED BY <1>1, <3>1, EmptySeq DEF Carried, Succ
  <2>2. e \in Nodes /\ Rings(moved, I, S)
    <3>1. e \in Nodes
      BY <1>1, <2>1, MovedRings
    <3>2. Rings(list_move_tail(r.m, e, d), With(J, d, Len(J[d]), e), S)
      BY <1>1, <2>1, MovedRings
    <3> QED BY <3>1, <3>2
  <2>3. /\ I[d] = InsertAt(K[d], Len(K[d]) + 1, e) /\ I[s] = RemoveAt(K[s], 1)
        /\ \A f \in Heads \ {s, d} : I[f] = K[f]
    <3>1. J \in [Heads -> UNION {Seq(Nodes), {RemoveAt(K[s], 1)}}] /\ J[s] = RemoveAt(K[s], 1)
          /\ \A f \in Heads \ {s} : J[f] = K[f]
      BY <1>1 DEF Less
    <3> HIDE DEF J, e
    <3> QED BY <3>1 DEF With
  <2> HIDE DEF e, J, I, moved
  <2>4. I[d] \o I[s] = L[d] \o L[s]
    <3>1. InsertAt(K[d], Len(K[d]) + 1, K[s][1]) \o RemoveAt(K[s], 1) = K[d] \o K[s]
      BY <1>1, <2>1, FirstPassesOver
    <3> QED BY <2>3, <3>1 DEF Carried, e
  <2>5. /\ Len(I[s]) = Len(K[s]) - 1
        /\ \A k \in 1..(Len(K[s]) - 1) : I[s][k] = K[s][k + 1]
    <3>1. /\ Len(RemoveAt(K[s], 1)) = Len(K[s]) - 1
          /\ \A k \in 1..(Len(K[s]) - 1) : RemoveAt(K[s], 1)[k] = IF k < 1 THEN K[s][k] ELSE K[s][k + 1]
      BY <1>1, <2>1, RemoveAtProperties
    <3> QED BY <2>3, <3>1
  <2>6. r.n = Succ(s, I[s], 0)
    <3>1. Beside(K, S, K[s][1], Succ(s, K[s], 1))
      BY <1>1, <2>1, LessPairs
    <3>2. r.n = Succ(s, K[s], 1)
      BY <1>1, <1>3, <2>1, <3>1 DEF Carried, Rings, e
    <3>3. Succ(s, K[s], 1) = Succ(s, I[s], 0)
      <4>1. CASE Len(K[s]) = 1
        <5>1. Len(I[s]) = 0 /\ Len(K[s]) = 1
          BY <2>5, <4>1
        <5> QED BY <5>1 DEF Succ
      <4>2. CASE Len(K[s]) # 1
        <5>1. 1 \in 1..(Len(K[s]) - 1) /\ Len(I[s]) # 0
          <6> DEFINE n == Len(K[s])
          <6>1. n \in Nat /\ n # 0 /\ n # 1 /\ Len(I[s]) = n - 1
            BY <1>1, <2>1, <2>5, <4>2
          <6> HIDE DEF n
          <6>2. 1 \in 1..(n - 1) /\ n - 1 # 0
            BY <6>1
          <6> QED BY <6>1, <6>2 DEF n
        <5> QED BY <2>5, <4>2, <5>1 DEF Succ
      <4> QED BY <4>1, <4>2
    <3> QED BY <3>2, <3>3
  <2>7. Round(r, s, d) = [m |-> moved, pos |-> r.n, n |-> moved.next[r.n]]
    BY <1>3, <2>1 DEF Round, moved
  <2>8. Len(K[s]) + i <= Len(L[s])
    BY <2>1 DEF Carried
  <2>9. Len(I[s]) + (i + 1) <= Len(L[s])
    BY <1>1, <2>5, <2>8
  <2>10. \A f \in Heads \ {s, d} : I[f] = L[f]
    BY <2>3 DEF Carried
  <2>11. Carried(I, L, S, s, d, Round(r, s, d), i + 1)
    <3> DEFINE q == Round(r, s, d)
    <3>1. q.m = moved /\ q.pos = r.n /\ q.n = moved.next[r.n]
      BY <2>7
    <3> HIDE DEF q
    <3>2. Rings(q.m, I, S) /\ q.pos = Succ(s, I[s], 0) /\ q.n = q.m.next[q.pos]
      BY <2>2, <2>6, <3>1
    <3> QED BY <2>4, <2>9, <2>10, <3>2 DEF Carried, q
  <2> QED BY <2>11
<1> QED
  BY <1>2, <1>3

\* list_whole_move puts the list of s behind that of d, entry by entry.
LEMMA WholeMoveRings ==
  ASSUME NEW m, NEW L, NEW S, Rings(m, L, S), NEW s \in Heads \ S, NEW d \in Heads \ S, s # d
  PROVE  Rings(list_whole_move(m, s, d), Joined(L, s, d, L[d] \o L[s]), S)
<1> DEFINE N == Cardinality(Nodes)
           run == CHOOSE f : Rounds(f, m, s, d, N)
<1>1. /\ AreLists(L, S) /\ L \in [Heads -> Seq(Nodes)] /\ L[s] \in Seq(Nodes) /\ L[d] \in Seq(Nodes)
      /\ Distinct(L[s])
  BY DEF Rings, AreLists, Once, Distinct
<1>2. N \in Nat /\ Len(L[s]) \in Nat /\ Len(L[s]) <= N
  BY <1>1, EntriesAreFew
<1>3. Rounds(run, m, s, d, N)
  BY <1>2, RoundsExist
<1>4. list_whole_move(m, s, d) = INIT_LIST_HEAD(run[N].m, s)
  BY DEF list_whole_move, Rounds, Round
<1> HIDE DEF run, N
<1> DEFINE first == [m |-> m, pos |-> m.next[s], n |-> m.next[m.next[s]]]
<1>5. \A i \in 0..N : run[i] = IF i = 0 THEN first ELSE Round(run[i - 1], s, d)
  BY <1>3, Zenon DEF Rounds
<1>6. \A i \in Nat : i <= N => \E K : Carried(K, L, S, s, d, run[i], i)
  <2> DEFINE R == {i \in Nat : i <= N => \E K : Carried(K, L, S, s, d, run[i], i)}
  <2>1. 0 \in R
    <3>1. run[0] = first
      BY <1>2, <1>5
    <3>2. m.next[s] = Succ(s, L[s], 0)
      BY EmptyTold
    <3>3. Carried(L, L, S, s, d, first, 0)
      BY <1>2, <3>2 DEF Carried
    <3> HIDE DEF first
    <3> QED BY <3>1, <3>3
  <2>2. ASSUME NEW i \in Nat, i \in R PROVE i + 1 \in R
    <3> SUFFICES ASSUME i + 1 <= N PROVE \E K : Carried(K, L, S, s, d, run[i + 1], i + 1)
      OBVIOUS
    <3>1. i <= N /\ i + 1 \in 0..N /\ i + 1 # 0 /\ (i + 1) - 1 = i
      BY <1>2
    <3>2. PICK K : Carried(K, L, S, s, d, run[i], i)
      BY <2>2, <3>1
    <3>3. run[i + 1] = Round(run[i], s, d)
      BY <1>5, <3>1
    <3>4. \E J : Carried(J, L, S, s, d, Round(run[i], s, d), i + 1)
      BY <1>2, <3>2, RoundCarries
    <3> QED BY <3>3, <3>4
  <2> HIDE DEF R
  <2>3. Nat \subseteq R
    BY <2>1, <2>2, InductionOverPositions
  <2> QED BY <2>3 DEF R
<1>7. PICK K : Carried(K, L, S, s, d, run[N], N)
  BY <1>2, <1>6
<1>8. /\ Rings(run[N].m, K, S)
      /\ K \in [Heads -> Seq(Nodes)] /\ K[s] \in Seq(Nodes) /\ K[d] \in Seq(Nodes) /\ Len(K[s]) \in Nat
  <2>1. Rings(run[N].m, K, S) /\ K \in [Heads -> Seq(Nodes)]
    BY <1>7 DEF Carried, Rings, AreLists
  <2>2. K[s] \in Seq(Nodes) /\ K[d] \in Seq(Nodes)
    BY <2>1
  <2> QED BY <2>1, <2>2, LenProperties
<1>9. K[s] = <<>>
  <2>1. K[s] = <<>> \/ Len(K[s]) + N <= Len(L[s])
    BY <1>7 DEF Carried
  <2>2. ASSUME Len(K[s]) + N <= Len(L[s]) PROVE Len(K[s]) = 0
    BY <1>2, <1>8, <2>2
  <2> QED BY <1>8, <2>1, <2>2, EmptySeq
<1>10. K = Joined(L, s, d, L[d] \o L[s])
  <2>1. K[d] = L[d] \o L[s]
    <3>1. K[d] \o <<>> = K[d]
      BY <1>8, ConcatEmptySeq
    <3> QED BY <1>7, <1>9, <3>1 DEF Carried
  <2>2. \A f \in Heads \ {s, d} : K[f] = L[f]
    BY <1>7 DEF Carried
  <2> DEFINE J == Joined(L, s, d, L[d] \o L[s])
  <2>3. J = [f \in Heads |-> IF f = s THEN <<>> ELSE IF f = d THEN L[d] \o L[s] ELSE L[f]]
    BY <1>1 DEF Joined
  <2>4. \A f \in Heads : J[f] = K[f]
    BY <1>9, <2>1, <2>2, <2>3
  <2>5. J = [f \in Heads |-> J[f]] /\ K = [f \in Heads |-> K[f]]
    BY <1>8, <2>3
  <2> HIDE DEF J
  <2>6. J = K
    BY <2>4, <2>5
  <2> QED BY <2>6 DEF J
<1>11. Rings(INIT_LIST_HEAD(run[N].m, s), K, S)
  <2>1. S \ {s} = S
    OBVIOUS
  <2> QED BY <1>8, <1>9, <2>1, InitialisedRings
<1> QED
  BY <1>4, <1>10, <1>11

-----------------------------------------------------------------------------
(* The rings, read in both directions.                                     *)

LEMMA ReverseProperties ==
  ASSUME NEW s \in Seq(Nodes), Distinct(s)
  PROVE  /\ Reverse(s) \in Seq(Nodes) /\ Len(Reverse(s)) = Len(s) /\ Distinct(Reverse(s))
         /\ \A k \in 1..Len(s) : Len(s) - k + 1 \in 1..Len(s) /\ Reverse(s)[k] = s[Len(s) - k + 1]
<1> DEFINE n == Len(s)
           t == Reverse(s)
<1>1. n \in Nat /\ \A k \in 1..n : s[k] \in Nodes
  BY LenProperties, ElementOfSeq
<1> HIDE DEF n
<1>2. t = [k \in 1..n |-> s[(n - k) + 1]]
  BY DEF Reverse, n
<1>3. \A k \in 1..n : n - k + 1 \in 1..n /\ s[n - k + 1] \in Nodes
  BY <1>1
<1>4. t \in [1..n -> Nodes]
  BY <1>2, <1>3
<1>5. t \in Seq(Nodes) /\ Len(t) = n
  BY <1>1, <1>4
<1>6. \A k \in 1..n : t[k] = s[n - k + 1]
  BY <1>2
<1> HIDE DEF t
<1>7. Distinct(t)
  <2> SUFFICES ASSUME NEW i \in 1..n, NEW j \in 1..n, t[i] = t[j] PROVE i = j
    BY <1>5 DEF Distinct
  <2> DEFINE u == n - i + 1
             v == n - j + 1
  <2>1. u \in 1..n /\ v \in 1..n /\ s[u] = s[v]
    BY <1>3, <1>6
  <2>2. u = v
    <3> HIDE DEF u, v
    <3> QED BY <2>1 DEF Distinct, n
  <2> QED BY <1>1, <2>2
<1> QED
  BY <1>3, <1>5, <1>6, <1>7 DEF n, t

\* The list of h the way w, and b comes behind a in s, or is a.
Run(L, w, h)    == IF w = "next" THEN L[h] ELSE Reverse(L[h])
Toward(s, a, b) == \E i, j \in 1..Len(s) : s[i] = a /\ s[j] = b /\ i <= j

\* The pointers of either way lead from each place of a list to the next.
LEMMA RunsAlong ==
  ASSUME NEW L, Rings(M, L, stale), NEW h \in Heads \ stale, NEW w \in {"next", "prev"}
  PROVE  LET s == Run(L, w, h)
         IN  /\ s \in Seq(Nodes) /\ Distinct(s) /\ Len(s) \in Nat /\ h \notin Nodes
             /\ \A i \in 0..Len(s) : Along(w)[Cell(h, s, i)] = Succ(h, s, i)
<1> DEFINE s == L[h]
           t == Reverse(s)
           n == Len(s)
<1>1. /\ s \in Seq(Nodes) /\ Distinct(s) /\ h \notin Nodes /\ n \in Nat
      /\ \A x, y : Beside(L, stale, x, y) => next[x] = y /\ prev[y] = x
  <2>1. s \in Seq(Nodes) /\ Distinct(s) /\ h \notin Nodes
    BY CellsAssumption DEF Rings, AreLists, Once, Distinct
  <2> QED BY <2>1, LenProperties DEF Rings, M
<1>2. \A i \in 0..n : next[Cell(h, s, i)] = Succ(h, s, i) /\ prev[Succ(h, s, i)] = Cell(h, s, i)
  BY <1>1 DEF Beside
<1> HIDE DEF s
<1>3. CASE w = "next"
  BY <1>1, <1>2, <1>3 DEF Run, Along, s
<1>4. CASE w = "prev"
  <2>1. /\ t \in Seq(Nodes) /\ Len(t) = n /\ Distinct(t)
        /\ \A k \in 1..n : n - k + 1 \in 1..n /\ t[k] = s[n - k + 1]
    BY <1>1, ReverseProperties
  <2> HIDE DEF t, n
  <2>2. ASSUME NEW j \in 0..n PROVE prev[Cell(h, t, j)] = Succ(h, t, j)
    <3> DEFINE i == n - j
    <3>1. i \in 0..n /\ (j = n <=> i = 0) /\ (j = 0 <=> i = n)
      BY <1>1
    <3>2. Succ(h, s, i) = Cell(h, t, j)
      <4>1. CASE j = 0
        BY <3>1, <4>1 DEF Succ, Cell, n
      <4>2. CASE j # 0
        <5>1. j \in 1..n /\ n - j + 1 = i + 1 /\ i # n
          BY <1>1, <4>2
        <5> HIDE DEF i
        <5> QED BY <2>1, <4>2, <5>1 DEF Succ, Cell, n
      <4> QED BY <4>1, <4>2
    <3>3. j # n => j + 1 \in 1..n /\ n - (j + 1) + 1 = i
      BY <1>1
    <3> HIDE DEF i
    <3>4. Cell(h, s, i) = Succ(h, t, j)
      BY <2>1, <3>1, <3>3 DEF Cell, Succ
    <3> QED BY <1>2, <3>1, <3>2, <3>4
  <2>3. Run(L, w, h) = t /\ Along(w) = prev
    BY <1>4 DEF Run, Along, t, s
  <2> QED BY <1>1, <2>1, <2>2, <2>3
<1> QED
  BY <1>3, <1>4

\* The entries of a ring, met from its head, are its list; the other way, its list reversed.
LEMMA EntriesRead ==
  ASSUME NEW L, Rings(M, L, stale)
  PROVE  /\ \A h \in Heads : Entries(h) = L[h]
         /\ \A h \in Heads \ stale : Way(prev, h) = Reverse(L[h])
<1>1. ASSUME NEW h \in Heads \ stale, NEW w \in {"next", "prev"} PROVE Way(Along(w), h) = Run(L, w, h)
  <2> DEFINE s == Run(L, w, h)
             p == Along(w)
  <2>1. /\ s \in Seq(Nodes) /\ Distinct(s) /\ h \notin Nodes
        /\ \A i \in 0..Len(s) : p[Cell(h, s, i)] = Succ(h, s, i)
    BY RunsAlong
  <2> HIDE DEF s, p
  <2>2. \A i \in 0..Len(s) : p[Cell(h, s, i)] = IF i = Len(s) THEN h ELSE s[i + 1]
    BY <2>1 DEF Succ
  <2>3. Way(p, h) = s
    BY <2>1, <2>2, WayReads
  <2> QED BY <2>3 DEF s, p
<1>2. ASSUME NEW h \in Heads \ stale PROVE Way(next, h) = L[h] /\ Way(prev, h) = Reverse(L[h])
  <2>1. Way(Along("next"), h) = Run(L, "next", h) /\ Way(Along("prev"), h) = Run(L, "prev", h)
    BY <1>1
  <2> QED BY <2>1 DEF Along, Run
<1> QED
  BY <1>2 DEF Entries, Rings, AreLists

LEMMA InListIsNotOutside ==
  ASSUME NEW L, Rings(M, L, stale), NEW n
  PROVE  InList(n) <=> ~Outside(L, n)
<1>1. \A h \in Heads : Entries(h) = L[h] /\ L[h] \in Seq(Nodes)
  BY EntriesRead DEF Rings, AreLists
<1>2. \A h \in Heads : n \in ToSet(L[h]) <=> \E i \in 1..Len(L[h]) : L[h][i] = n
  <2> TAKE h \in Heads
  <2>1. DOMAIN L[h] = 1..Len(L[h])
    BY <1>1
  <2> QED BY <2>1 DEF ToSet
<1> QED
  BY <1>1, <1>2 DEF InList, Outside

\* The way back is the other order.
LEMMA TowardIsBefore ==
  ASSUME NEW L \in [Heads -> Seq(Nodes)], Once(L), NEW h \in Heads, NEW a, NEW b
  PROVE  /\ Toward(Run(L, "next", h), a, b) <=> Before(L, h, a, b)
         /\ Toward(Run(L, "prev", h), a, b) <=> Before(L, h, b, a)
<1> DEFINE s == L[h]
           t == Reverse(s)
           n == Len(s)
<1>1. Toward(Run(L, "next", h), a, b) <=> Before(L, h, a, b)
  BY DEF Toward, Run, Before
<1>2. s \in Seq(Nodes) /\ Distinct(s) /\ n \in Nat
  <2>1. s \in Seq(Nodes) /\ Distinct(s)
    BY DEF Once, Distinct
  <2> QED BY <2>1, LenProperties
<1> HIDE DEF s
<1>3. /\ Len(t) = n
      /\ \A k \in 1..n : n - k + 1 \in 1..n /\ t[k] = s[n - k + 1]
  BY <1>2, ReverseProperties
<1> HIDE DEF t, n
<1>4. \A i, j \in 1..n : (i <= j <=> n - j + 1 <= n - i + 1) /\ n - (n - i + 1) + 1 = i
  BY <1>2
<1>5. ASSUME Toward(t, a, b) PROVE \E i, j \in 1..n : s[i] = b /\ s[j] = a /\ i <= j
  <2>1. PICK i \in 1..n, j \in 1..n : t[i] = a /\ t[j] = b /\ i <= j
    BY <1>3, <1>5 DEF Toward
  <2> DEFINE u == n - j + 1
             v == n - i + 1
  <2>2. u \in 1..n /\ v \in 1..n /\ s[u] = b /\ s[v] = a /\ u <= v
    BY <1>3, <1>4, <2>1
  <2> HIDE DEF u, v
  <2> QED BY <2>2
<1>6. ASSUME NEW i \in 1..n, NEW j \in 1..n, s[i] = b, s[j] = a, i <= j PROVE Toward(t, a, b)
  <2> DEFINE u == n - j + 1
             v == n - i + 1
  <2>1. u \in 1..n /\ v \in 1..n /\ u <= v /\ t[u] = s[n - u + 1] /\ t[v] = s[n - v + 1]
    <3>1. u \in 1..n /\ v \in 1..n /\ u <= v
      BY <1>3, <1>4, <1>6
    <3> HIDE DEF u, v
    <3> QED BY <1>3, <3>1
  <2>2. n - u + 1 = j /\ n - v + 1 = i
    <3> HIDE DEF Toward
    <3> QED BY <1>2
  <2> HIDE DEF u, v
  <2>3. t[u] = a /\ t[v] = b
    BY <1>6, <2>1, <2>2
  <2> QED BY <1>3, <2>1, <2>3 DEF Toward
<1>7. Toward(t, a, b) <=> Before(L, h, b, a)
  BY <1>5, <1>6 DEF Before, s, n
<1> QED
  BY <1>1, <1>7 DEF Run, t, s

-----------------------------------------------------------------------------
(* The loop.                                                               *)

\* The list that is walked, in the order it is walked in.
Walked(L) == Run(L, loop.way, loop.head)

\* The loop's head is in use.  All that is to be met follows the struct the body leaves
\* alone, itself when it is the saved one: an entry of the list, or the head and
\* then all is met.
LoopOK(L) ==
  /\ loop \in [head : Heads \cup {UNSET}, way : {"next", "prev"}, safe : BOOLEAN,
               pos : Nodes \cup {UNSET}, n : Cells \cup {UNSET}]
  /\ todo \subseteq Nodes
  /\ ~Looping => loop = NoLoop /\ todo = {}
  /\ Looping => /\ Usable(loop.head)
                /\ Pinned = loop.head => todo = {}
                /\ Pinned # loop.head => Toward(Walked(L), Pinned, Pinned)
                /\ \A x \in todo : Toward(Walked(L), Pinned, x)
                /\ ~loop.safe => Pinned \notin todo

IInv == \E L : Rings(M, L, stale) /\ LoopOK(L)

\* What of the list that is walked is not in D keeps its order.
Keeps(L, K, D) ==
  Looping => \A a, b : Before(L, loop.head, a, b) /\ a \notin D /\ b \notin D
                         => Before(K, loop.head, a, b)

\* A call takes D from the lists and leaves the loop its head and the pinned struct.
Spares(D) ==
  /\ loop' = loop /\ todo' = todo \ D
  /\ Looping => Pinned \notin D /\ loop.head \notin stale'

LEMMA LoopKept ==
  ASSUME NEW L, NEW K, NEW S, NEW T, AreLists(L, S), AreLists(K, T), NEW D, LoopOK(L), Keeps(L, K, D), Spares(D)
  PROVE  LoopOK(K)'
<1>1. Pinned' = Pinned /\ Looping' = Looping /\ Walked(K)' = Walked(K) /\ loop' = loop /\ todo' = todo \ D
  BY DEF Pinned, Looping, Walked, Spares
<1>2. CASE ~Looping
  BY <1>1, <1>2 DEF LoopOK
<1>3. CASE Looping
  <2>1. /\ loop.head \in Heads /\ loop.way \in {"next", "prev"}
        /\ L \in [Heads -> Seq(Nodes)] /\ Once(L) /\ K \in [Heads -> Seq(Nodes)] /\ Once(K)
    BY <1>3 DEF Looping, LoopOK, AreLists
  <2>2. ASSUME NEW a, NEW b, Toward(Walked(L), a, b), a \notin D, b \notin D
        PROVE  Toward(Walked(K), a, b)
    <3>1. CASE loop.way = "next"
      BY <1>3, <2>1, <2>2, <3>1, TowardIsBefore DEF Walked, Keeps
    <3>2. CASE loop.way = "prev"
      BY <1>3, <2>1, <2>2, <3>2, TowardIsBefore DEF Walked, Keeps
    <3> QED BY <2>1, <3>1, <3>2
  <2>3. Usable(loop.head)' /\ Pinned \notin D
    BY <1>1, <1>3 DEF Spares, Usable
  <2>4. Pinned # loop.head => Toward(Walked(K), Pinned, Pinned)
    BY <1>3, <2>2, <2>3 DEF LoopOK
  <2>5. \A x \in todo \ D : Toward(Walked(K), Pinned, x)
    BY <1>3, <2>2, <2>3 DEF LoopOK
  <2> QED BY <1>1, <1>3, <2>3, <2>4, <2>5 DEF LoopOK
<1> QED
  BY <1>2, <1>3

\* Where b lies when it follows the i-th entry of s.
LEMMA TowardAt ==
  ASSUME NEW s, Len(s) \in Nat, Distinct(s), NEW i \in 1..Len(s)
  PROVE  \A b : Toward(s, s[i], b) <=> \E j \in i..Len(s) : s[j] = b
<1> TAKE b
<1>1. ASSUME Toward(s, s[i], b) PROVE \E j \in i..Len(s) : s[j] = b
  <2>1. PICK k \in 1..Len(s), j \in 1..Len(s) : s[k] = s[i] /\ s[j] = b /\ k <= j
    BY <1>1 DEF Toward
  <2>2. k = i
    BY <2>1 DEF Distinct
  <2>3. j \in i..Len(s)
    BY <2>1, <2>2
  <2> QED BY <2>1, <2>3
<1>2. ASSUME NEW j \in i..Len(s), s[j] = b PROVE Toward(s, s[i], b)
  <2>1. j \in 1..Len(s) /\ i <= j
    OBVIOUS
  <2> QED BY <1>2, <2>1 DEF Toward
<1> QED
  BY <1>1, <1>2

\* A loop that has come to an entry, and has all it is to meet behind it.
LEMMA LoopAt ==
  ASSUME NEW L, Rings(M, L, stale), NEW h \in Heads \ stale, NEW w \in {"next", "prev"},
         NEW i \in 1..Len(Run(L, w, h)), NEW y, y = Run(L, w, h)[i],
         NEW safe \in BOOLEAN, loop' = At(h, w, safe, y), stale' = stale, todo' \subseteq Nodes,
         \A x \in todo' : Toward(Run(L, w, h), y, x) /\ x # y
  PROVE  LoopOK(L)'
<1> DEFINE s == Run(L, w, h)
           z == Along(w)[y]
<1>1. /\ s \in Seq(Nodes) /\ Distinct(s) /\ Len(s) \in Nat /\ h \notin Nodes
      /\ \A k \in 0..Len(s) : Along(w)[Cell(h, s, k)] = Succ(h, s, k)
  BY RunsAlong
<1>2. \A k \in 1..Len(s) : s[k] \in Nodes
  BY <1>1, ElementOfSeq
<1>3. y = s[i] /\ y \in Nodes /\ i \in 1..Len(s) /\ \A x \in todo' : Toward(s, y, x) /\ x # y
  BY <1>2
<1>4. z = Succ(h, s, i)
  <2>1. i \in 0..Len(s) /\ Cell(h, s, i) = y
    BY <1>1, <1>3 DEF Cell
  <2> QED BY <1>1, <2>1
<1>5. /\ loop' = [head |-> h, way |-> w, safe |-> safe, pos |-> y, n |-> IF safe THEN z ELSE UNSET]
  BY DEF At
<1>6. Walked(L)' = s /\ Looping' /\ Usable(loop.head)' /\ Pinned' = IF safe THEN z ELSE y
  BY <1>5 DEF Walked, Looping, Usable, Pinned
<1> HIDE DEF s, z
<1>7. /\ i = Len(s) => z = h
      /\ i # Len(s) => i + 1 \in 1..Len(s) /\ z = s[i + 1] /\ z \in Nodes
  <2>1. i # Len(s) => i + 1 \in 1..Len(s)
    BY <1>1, <1>3
  <2> QED BY <1>2, <1>4, <2>1 DEF Succ
<1>8. loop' \in [head : Heads \cup {UNSET}, way : {"next", "prev"}, safe : BOOLEAN,
                 pos : Nodes \cup {UNSET}, n : Cells \cup {UNSET}]
  <2>1. z \in Cells
    BY <1>3, <1>7 DEF Cells
  <2> QED BY <1>3, <1>5, <2>1
<1>9. \A b : Toward(s, s[i], b) <=> \E j \in i..Len(s) : s[j] = b
  BY <1>1, <1>3, TowardAt
<1>10. ASSUME NEW x \in todo' PROVE \E j \in (i + 1)..Len(s) : s[j] = x
  <2>1. PICK j \in i..Len(s) : s[j] = x
    BY <1>3, <1>9
  <2>2. j # i
    BY <1>3, <2>1
  <2>3. j \in (i + 1)..Len(s)
    BY <1>1, <1>3, <2>2
  <2> QED BY <2>1, <2>3
<1>11. CASE ~safe
  <2>1. Toward(s, y, y)
    <3>1. i \in i..Len(s)
      BY <1>1, <1>3
    <3> QED BY <1>3, <1>9, <3>1
  <2>2. Pinned' = y /\ loop'.head = h /\ ~loop'.safe /\ y # h
    BY <1>1, <1>3, <1>5, <1>6, <1>11
  <2> QED BY <1>3, <1>6, <1>8, <2>1, <2>2 DEF LoopOK
<1>12. CASE safe /\ i = Len(s)
  <2>1. todo' = {}
    BY <1>1, <1>10, <1>12
  <2>2. Pinned' = h /\ loop'.head = h /\ loop'.safe
    BY <1>5, <1>6, <1>7, <1>12
  <2> QED BY <1>6, <1>8, <2>1, <2>2 DEF LoopOK
<1>13. CASE safe /\ i # Len(s)
  <2> DEFINE k == i + 1
  <2>1. k \in 1..Len(s) /\ z = s[k] /\ z \in Nodes
    BY <1>7, <1>13
  <2>2. \A x \in todo' : \E j \in k..Len(s) : s[j] = x
    BY <1>10
  <2> HIDE DEF k
  <2>3. \A b : Toward(s, s[k], b) <=> \E j \in k..Len(s) : s[j] = b
    BY <1>1, <2>1, TowardAt
  <2>4. Toward(s, z, z)
    <3>1. k \in k..Len(s)
      BY <1>1, <2>1
    <3> QED BY <2>1, <2>3, <3>1
  <2>5. \A x \in todo' : Toward(s, z, x)
    BY <2>1, <2>2, <2>3
  <2>6. Pinned' = z /\ loop'.head = h /\ loop'.safe /\ z # h
    BY <1>1, <1>5, <1>6, <1>13, <2>1
  <2> QED BY <1>6, <1>8, <2>4, <2>5, <2>6 DEF LoopOK
<1> QED
  BY <1>11, <1>12, <1>13

\* What is behind the i-th of s.
Rest(s, i) == {s[j] : j \in (i + 1)..Len(s)}

\* Ahead is what its comment says.
LEMMA AheadIsRest ==
  ASSUME NEW L, Rings(M, L, stale), NEW h \in Heads \ stale, NEW w \in {"next", "prev"},
         NEW i \in 1..Len(Run(L, w, h))
  PROVE  \A c : c = Run(L, w, h)[i] => Ahead(h, w, c) = Rest(Run(L, w, h), i)
<1> TAKE c
<1> HAVE c = Run(L, w, h)[i]
<1> DEFINE s == Run(L, w, h)
           I == {k \in 1..Len(s) : s[k] = c}
<1>1. s \in Seq(Nodes) /\ Distinct(s) /\ Len(s) \in Nat
  BY RunsAlong
<1>2. c = s[i] /\ i \in 1..Len(s)
  OBVIOUS
<1>3. s = IF w = "next" THEN Entries(h) ELSE Reverse(Entries(h))
  BY EntriesRead DEF Run
<1> HIDE DEF s
<1>5. SelectInSeq(s, LAMBDA x : x = c) = i
  <2>1. I = {i}
    BY <1>2, <1>1 DEF Distinct
  <2>2. Min(I) = i
    <3>1. i \in I /\ \A x \in I : i <= x
      BY <1>2, <2>1
    <3> HIDE DEF I
    <3> QED BY <2>1, <3>1 DEF Min
  <2>3. SelectInSeq(s, LAMBDA x : x = c) = IF I # {} THEN Min(I) ELSE 0
    BY DEF SelectInSeq
  <2> HIDE DEF I
  <2> QED BY <2>1, <2>2, <2>3
<1> DEFINE t == SubSeq(s, i + 1, Len(s))
<1>6. Ahead(h, w, c) = ToSet(t)
  BY <1>3, <1>5 DEF Ahead
<1>7. /\ t \in Seq(Nodes) /\ Len(t) = Len(s) - i
      /\ \A k \in 1..(Len(s) - i) : t[k] = s[i + k]
  <2> DEFINE m == i + 1
             l == Len(s)
  <2>1. m \in Int /\ l \in Int /\ i \in Int /\ i <= l
    BY <1>1, <1>2
  <2>2. \A k \in m..l : s[k] \in Nodes
    <3>1. \A k \in m..l : k \in 1..l
      BY <1>1, <1>2
    <3> QED BY <1>1, <3>1, ElementOfSeq
  <2> HIDE DEF m, l
  <2>3. /\ SubSeq(s, m, l) \in Seq(Nodes)
        /\ Len(SubSeq(s, m, l)) = IF m <= l THEN l - m + 1 ELSE 0
        /\ \A k \in 1..(l - m + 1) : SubSeq(s, m, l)[k] = s[m + k - 1]
    BY <2>1, <2>2, SubSeqProperties
  <2> QED BY <2>1, <2>3 DEF m, l
<1> HIDE DEF t
<1>8. ToSet(t) = {t[k] : k \in 1..(Len(s) - i)}
  BY <1>7 DEF ToSet
<1>9. ASSUME NEW k \in 1..(Len(s) - i) PROVE i + k \in (i + 1)..Len(s)
  BY <1>1, <1>2
<1>10. ASSUME NEW j \in (i + 1)..Len(s) PROVE j - i \in 1..(Len(s) - i) /\ i + (j - i) = j
  BY <1>1, <1>2
<1>11. {t[k] : k \in 1..(Len(s) - i)} = {s[j] : j \in (i + 1)..Len(s)}
  <2>1. ASSUME NEW k \in 1..(Len(s) - i) PROVE t[k] \in {s[j] : j \in (i + 1)..Len(s)}
    BY <1>7, <1>9
  <2>2. ASSUME NEW j \in (i + 1)..Len(s) PROVE s[j] \in {t[k] : k \in 1..(Len(s) - i)}
    BY <1>7, <1>10
  <2> QED BY <2>1, <2>2
<1> QED
  BY <1>6, <1>8, <1>11 DEF s, Rest

-----------------------------------------------------------------------------
(* The steps.                                                              *)

\* What a call, named by c, does to the lists.
Did(L, K, c) ==
  \/ c \in {<<"none">>, <<"INIT_LIST_HEAD">>} /\ K = L
  \/ \E n \in Nodes, h \in Heads : \E q \in 0..Len(L[h]) :
       /\ Outside(L, n) /\ K = With(L, h, q, n)
       /\ c \in {<<"list_add", n, h, Cell(h, L[h], q)>>, <<"list_add_tail", n, h, Succ(h, L[h], q)>>}
  \/ \E h \in Heads : \E q \in 1..Len(L[h]) : c = <<"list_del", L[h][q]>> /\ K = Less(L, h, q)
  \/ \E n \in Nodes, h \in Heads : \E q \in 1..Len(L[h]) :
       /\ Outside(L, n) /\ K = With(Less(L, h, q), h, q - 1, n)
       /\ c = <<"list_replace", L[h][q], n>>
  \/ \E g, h \in Heads : \E q \in 1..Len(L[h]) : \E J :
       /\ J = Less(L, h, q)
       /\ \/ c = <<"list_move", L[h][q], g>> /\ K = With(J, g, 0, L[h][q])
          \/ c = <<"list_move_tail", L[h][q], g>> /\ K = With(J, g, Len(J[g]), L[h][q])
  \/ \E h \in Heads : c = <<"list_rotate_left", h>> /\ K = Turned(L, h)
  \/ \E g, h \in Heads : \E i \in 0..Len(L[h]) :
       /\ g # h /\ L[g] = <<>> /\ K = Parted(L, g, h, i)
       /\ c = <<"list_cut_position", g, h, Cell(h, L[h], i)>>
  \/ \E g, h \in Heads :
       /\ g # h
       /\ \/ c = <<"list_splice", g, h>> /\ K = Joined(L, g, h, L[g] \o L[h])
          \/ c = <<"list_splice_tail", g, h>> /\ K = Joined(L, g, h, L[h] \o L[g])

\* A step from the lists L leads to rings again, and a loop that is right.
Goes(L) == \E K : Rings(M, K, stale)' /\ LoopOK(K)' /\ Did(L, K, call')

LEMMA BecomesRings ==
  ASSUME NEW r, NEW K, Rings(r, K, stale'), Becomes(r)
  PROVE  Rings(M, K, stale)'
BY DEF Rings, Becomes, M, Mem

LEMMA CallGoes ==
  ASSUME NEW L, Rings(M, L, stale), LoopOK(L), NEW K, NEW r, Rings(r, K, stale'), Becomes(r),
         NEW D, Keeps(L, K, D), Spares(D), Did(L, K, call')
  PROVE  Goes(L)
<1>1. AreLists(L, stale) /\ AreLists(K, stale')
  BY DEF Rings
<1>2. LoopOK(K)'
  BY <1>1, LoopKept
<1> QED
  BY <1>2, BecomesRings DEF Goes

\* Where an entry, and a place, of a list is.
LEMMA PlaceOfEntry ==
  ASSUME NEW L, Rings(M, L, stale)
  PROVE  /\ \A n : InList(n) => \E h \in Heads \ stale : \E q \in 1..Len(L[h]) : L[h][q] = n
         /\ \A h \in Heads : \A c \in ToSet(Entries(h)) :
              \E q \in 1..Len(L[h]) : q \in 0..Len(L[h]) /\ L[h][q] = c /\ Cell(h, L[h], q) = c
         /\ \A h \in Heads : \A c \in {h} \cup ToSet(Entries(h)) :
              \E q \in 0..Len(L[h]) : c = Cell(h, L[h], q)
<1>1. L \in [Heads -> Seq(Nodes)] /\ \A h \in stale : L[h] = <<>> /\ Len(L[h]) = 0
  BY DEF Rings, AreLists
<1>2. \A h \in Heads : /\ Entries(h) = L[h] /\ Len(L[h]) \in Nat
                       /\ \A c : c \in ToSet(Entries(h)) <=> \E q \in 1..Len(L[h]) : L[h][q] = c
  <2> TAKE h \in Heads
  <2>1. DOMAIN L[h] = 1..Len(L[h]) /\ Len(L[h]) \in Nat /\ Entries(h) = L[h]
    BY <1>1, EntriesRead, LenProperties
  <2> QED BY <2>1 DEF ToSet
<1>3. ASSUME NEW n, InList(n) PROVE \E h \in Heads \ stale : \E q \in 1..Len(L[h]) : L[h][q] = n
  <2>1. PICK h \in Heads : n \in ToSet(Entries(h))
    BY <1>3 DEF InList
  <2>2. PICK q \in 1..Len(L[h]) : L[h][q] = n
    BY <1>2, <2>1
  <2>3. h \notin stale
    BY <1>1, <2>2
  <2> QED BY <2>2, <2>3
<1>4. ASSUME NEW h \in Heads, NEW c \in ToSet(Entries(h))
      PROVE  \E q \in 1..Len(L[h]) : q \in 0..Len(L[h]) /\ L[h][q] = c /\ Cell(h, L[h], q) = c
  <2>1. PICK q \in 1..Len(L[h]) : L[h][q] = c
    BY <1>2
  <2>2. q \in 0..Len(L[h]) /\ q # 0
    BY <1>2
  <2> QED BY <2>1, <2>2 DEF Cell
<1>5. ASSUME NEW h \in Heads, NEW c \in {h} \cup ToSet(Entries(h))
      PROVE  \E q \in 0..Len(L[h]) : c = Cell(h, L[h], q)
  <2>1. CASE c = h
    <3>1. 0 \in 0..Len(L[h])
      BY <1>2
    <3> QED BY <2>1, <3>1 DEF Cell
  <2>2. CASE c \in ToSet(Entries(h))
    BY <1>4, <2>2
  <2> QED BY <2>1, <2>2
<1> QED
  BY <1>3, <1>4, <1>5

LEMMA AddStep ==
  ASSUME NEW L, Rings(M, L, stale), LoopOK(L), NEW n \in Nodes, NEW h \in Heads, NEW c \in Cells, Add(n, h, c)
  PROVE  Goes(L)
<1>1. /\ Outside(L, n) /\ h \in Heads \ stale /\ c \in {h} \cup ToSet(Entries(h))
      /\ UNCHANGED <<stale, loop, todo>>
  BY InListIsNotOutside DEF Add, Usable
<1>2. L \in [Heads -> Seq(Nodes)] /\ Once(L) /\ Len(L[h]) \in Nat
  BY PlacesDiffer DEF Rings, AreLists
<1>3. PICK p \in 0..Len(L[h]) : c = Cell(h, L[h], p)
  BY <1>1, PlaceOfEntry
<1>4. Spares({})
  BY <1>1 DEF Spares, LoopOK, Usable
<1>5. ASSUME NEW q \in 0..Len(L[h]) PROVE Keeps(L, With(L, h, q, n), {})
  <2> SUFFICES ASSUME Looping, NEW a, NEW b, Before(L, loop.head, a, b)
               PROVE  Before(With(L, h, q, n), loop.head, a, b)
    BY DEF Keeps
  <2>1. loop.head \in Heads
    BY DEF Looping
  <2> QED BY <1>1, <1>2, <2>1, WithKeepsOrder
<1>6. CASE Becomes(list_add(M, n, c)) /\ call' = <<"list_add", n, h, c>>
  <2> DEFINE K == With(L, h, p, n)
  <2>1. Rings(list_add(M, n, c), K, stale')
    BY <1>1, <1>3, AddRings
  <2>2. Did(L, K, call')
    BY <1>1, <1>3, <1>6 DEF Did
  <2>3. Keeps(L, K, {})
    BY <1>5
  <2> HIDE DEF K
  <2> QED BY <1>4, <1>6, <2>1, <2>2, <2>3, CallGoes
<1>7. CASE Becomes(list_add_tail(M, n, c)) /\ call' = <<"list_add_tail", n, h, c>>
  <2>1. PICK q \in 0..Len(L[h]) : c = Succ(h, L[h], q)
    <3>1. CASE p = 0
      <4>1. Len(L[h]) \in 0..Len(L[h])
        BY <1>2
      <4> QED BY <1>3, <3>1, <4>1 DEF Succ, Cell
    <3>2. CASE p # 0
      <4> DEFINE k == p - 1
      <4>1. k \in 0..Len(L[h]) /\ k # Len(L[h]) /\ k + 1 = p
        BY <1>2, <3>2
      <4> HIDE DEF k
      <4>2. c = Succ(h, L[h], k)
        BY <1>3, <3>2, <4>1 DEF Succ, Cell
      <4> QED BY <4>1, <4>2
    <3> QED BY <3>1, <3>2
  <2> DEFINE K == With(L, h, q, n)
  <2>2. Rings(list_add_tail(M, n, c), K, stale')
    BY <1>1, <2>1, AddRings
  <2>3. Did(L, K, call')
    BY <1>1, <1>7, <2>1 DEF Did
  <2>4. Keeps(L, K, {})
    BY <1>5
  <2> HIDE DEF K
  <2> QED BY <1>4, <1>7, <2>2, <2>3, <2>4, CallGoes
<1> QED
  BY <1>6, <1>7 DEF Add

\* The node taken from its place leaves the others in order.
LEMMA LessKeeps ==
  ASSUME NEW L, NEW S, AreLists(L, S), NEW h \in Heads, NEW q \in 1..Len(L[h])
  PROVE  \A n : n = L[h][q] => Keeps(L, Less(L, h, q), {n})
<1> SUFFICES ASSUME NEW n, n = L[h][q], Looping,
                    NEW a, NEW b, Before(L, loop.head, a, b), a # n, b # n
             PROVE  Before(Less(L, h, q), loop.head, a, b)
  BY DEF Keeps
<1>1. loop.head \in Heads
  BY DEF Looping
<1> QED
  BY <1>1, LessKeepsOrder DEF AreLists

\* A call on an unpinned entry spares the loop.
LEMMA EntrySpared ==
  ASSUME NEW L, LoopOK(L), NEW n, Unpinned(n), loop' = loop, todo' = todo \ {n}, stale' = stale
  PROVE  Spares({n})
BY DEF Spares, LoopOK, Unpinned, Usable

LEMMA DelStep ==
  ASSUME NEW L, Rings(M, L, stale), LoopOK(L), NEW n \in Nodes, Del(n)
  PROVE  Goes(L)
<1>1. PICK h \in Heads \ stale : \E q \in 1..Len(L[h]) : L[h][q] = n
  BY PlaceOfEntry DEF Del
<1>2. PICK q \in 1..Len(L[h]) : L[h][q] = n
  BY <1>1
<1> DEFINE K == Less(L, h, q)
<1>3. Rings(list_del(M, n), K, stale) /\ Rings(list_del_init(M, n), K, stale)
  BY <1>2, DeletedRings
<1>4. Keeps(L, K, {n})
  <2>1. AreLists(L, stale)
    BY DEF Rings
  <2> QED BY <1>2, <2>1, LessKeeps
<1>5. Spares({n})
  BY EntrySpared DEF Del
<1>6. Did(L, K, call')
  BY <1>2 DEF Did, Del
<1> HIDE DEF K
<1>7. PICK r : Becomes(r) /\ Rings(r, K, stale')
  BY <1>3 DEF Del
<1> QED
  BY <1>4, <1>5, <1>6, <1>7, CallGoes

LEMMA ReplaceStep ==
  ASSUME NEW L, Rings(M, L, stale), LoopOK(L), NEW o \in Nodes, NEW n \in Nodes, Replace(o, n)
  PROVE  Goes(L)
<1>1. PICK h \in Heads \ stale : \E q \in 1..Len(L[h]) : L[h][q] = o
  BY PlaceOfEntry DEF Replace
<1>2. PICK q \in 1..Len(L[h]) : L[h][q] = o
  BY <1>1
<1>3. Outside(L, n) /\ AreLists(L, stale)
  BY InListIsNotOutside DEF Replace, Rings
<1> DEFINE J == Less(L, h, q)
           p == q - 1
           K == With(J, h, p, n)
<1>4. Rings(list_replace(M, o, n), K, stale) /\ Rings(list_replace_init(M, o, n), K, stale)
  BY <1>2, <1>3, ReplacedRings
<1>5. Keeps(L, K, {o})
  <2>1. Keeps(L, J, {o})
    BY <1>2, <1>3, LessKeeps
  <2>2. J \in [Heads -> Seq(Nodes)] /\ Once(J) /\ Outside(J, n) /\ p \in 0..Len(J[h])
    <3>1. L \in [Heads -> Seq(Nodes)] /\ Once(L)
      BY <1>3 DEF AreLists
    <3>2. J \in [Heads -> Seq(Nodes)] /\ Once(J) /\ Len(J[h]) = Len(L[h]) - 1
      BY <3>1, Removed
    <3>3. Outside(J, n)
      BY <1>3, <3>1, LessOutside
    <3>4. Len(L[h]) \in Nat
      BY <3>1, LenProperties
    <3> HIDE DEF J
    <3>5. p \in 0..Len(J[h])
      BY <3>2, <3>4
    <3> QED BY <3>2, <3>3, <3>5
  <2> HIDE DEF J, p
  <2>3. ASSUME Looping, NEW a, NEW b, Before(J, loop.head, a, b) PROVE Before(K, loop.head, a, b)
    <3>1. loop.head \in Heads
      BY <2>3 DEF Looping
    <3> QED BY <2>2, <2>3, <3>1, WithKeepsOrder
  <2> HIDE DEF K
  <2> QED BY <2>1, <2>3 DEF Keeps
<1>6. Spares({o})
  BY EntrySpared DEF Replace
<1>7. Did(L, K, call')
  BY <1>2, <1>3 DEF Did, Replace
<1> HIDE DEF K
<1>8. PICK r : Becomes(r) /\ Rings(r, K, stale')
  BY <1>4 DEF Replace
<1> QED
  BY <1>5, <1>6, <1>7, <1>8, CallGoes

LEMMA MoveStep ==
  ASSUME NEW L, Rings(M, L, stale), LoopOK(L), NEW n \in Nodes, NEW g \in Heads, Move(n, g)
  PROVE  Goes(L)
<1>1. PICK h \in Heads \ stale : \E q \in 1..Len(L[h]) : L[h][q] = n
  BY PlaceOfEntry DEF Move
<1>2. PICK q \in 1..Len(L[h]) : L[h][q] = n
  BY <1>1
<1>3. AreLists(L, stale) /\ g \in Heads \ stale
  BY DEF Move, Rings, Usable
<1> DEFINE J == Less(L, h, q)
           l == Len(J[g])
<1>4. /\ AreLists(J, stale) /\ Outside(J, n) /\ 0 \in 0..l /\ l \in 0..l
      /\ Rings(list_move(M, n, g), With(J, g, 0, n), stale)
      /\ Rings(list_move_tail(M, n, g), With(J, g, l, n), stale)
  BY <1>2, <1>3, MovedRings
<1>5. Keeps(L, J, {n})
  BY <1>2, <1>3, LessKeeps
<1>6. Spares({n})
  BY EntrySpared DEF Move
<1>7. ASSUME NEW q1 \in {0, l}, NEW r, Becomes(r), Rings(r, With(J, g, q1, n), stale),
             Did(L, With(J, g, q1, n), call')
      PROVE  Goes(L)
  <2> DEFINE K == With(J, g, q1, n)
  <2>0. q1 \in 0..Len(J[g])
    BY <1>4
  <2> HIDE DEF J, l
  <2>1. ASSUME Looping, NEW a, NEW b, Before(J, loop.head, a, b) PROVE Before(K, loop.head, a, b)
    <3>1. loop.head \in Heads
      BY <2>1 DEF Looping
    <3>2. J \in [Heads -> Seq(Nodes)] /\ Once(J)
      BY <1>4 DEF AreLists
    <3> QED BY <1>4, <2>0, <2>1, <3>1, <3>2, WithKeepsOrder
  <2>2. Rings(r, K, stale') /\ Did(L, K, call')
    BY <1>7 DEF Move
  <2> HIDE DEF K
  <2>3. Keeps(L, K, {n})
    BY <1>5, <2>1 DEF Keeps
  <2> QED BY <1>6, <1>7, <2>2, <2>3, CallGoes
<1>8. CASE Becomes(list_move(M, n, g)) /\ call' = <<"list_move", n, g>>
  <2>1. Did(L, With(J, g, 0, n), call')
    BY <1>2, <1>8 DEF Did
  <2> HIDE DEF J
  <2> QED BY <1>4, <1>7, <1>8, <2>1
<1>9. CASE Becomes(list_move_tail(M, n, g)) /\ call' = <<"list_move_tail", n, g>>
  <2>1. Did(L, With(J, g, l, n), call')
    BY <1>2, <1>9 DEF Did
  <2> HIDE DEF J, l
  <2> QED BY <1>4, <1>7, <1>9, <2>1
<1> QED
  BY <1>8, <1>9 DEF Move

\* A call that leaves alone the list that is walked.
LEMMA OtherListGoes ==
  ASSUME NEW L, Rings(M, L, stale), LoopOK(L), NEW K, NEW r, Rings(r, K, stale'), Becomes(r),
         Looping => K[loop.head] = L[loop.head] /\ loop.head \notin stale',
         loop' = loop, todo' = todo, Did(L, K, call')
  PROVE  Goes(L)
<1>1. Keeps(L, K, {})
  BY DEF Keeps, Before
<1>2. Spares({})
  BY DEF Spares
<1> QED
  BY <1>1, <1>2, CallGoes

LEMMA RotateStep ==
  ASSUME NEW L, Rings(M, L, stale), LoopOK(L), NEW h \in Heads, Rotate(h)
  PROVE  Goes(L)
<1>1. /\ h \in Heads \ stale /\ NotLooped(h) /\ Becomes(list_rotate_left(M, h))
      /\ call' = <<"list_rotate_left", h>> /\ UNCHANGED <<stale, loop, todo>>
  BY DEF Rotate, Usable
<1> DEFINE K == Turned(L, h)
           r == list_rotate_left(M, h)
<1>2. Rings(r, K, stale')
  BY <1>1, TurnedRings
<1>3. Did(L, K, call')
  BY <1>1 DEF Did
<1>4. Looping => K[loop.head] = L[loop.head] /\ loop.head \notin stale'
  <2>1. L \in [Heads -> Seq(Nodes)]
    BY DEF Rings, AreLists
  <2>2. \A f \in Heads \ {h} : K[f] = L[f]
    BY <2>1 DEF Turned, With, Less
  <2>3. Looping => loop.head \in Heads \ {h} /\ loop.head \notin stale
    BY <1>1 DEF Looping, NotLooped, LoopOK, Usable
  <2> HIDE DEF K
  <2> QED BY <1>1, <2>2, <2>3
<1> HIDE DEF K, r
<1>5. Becomes(r)
  BY <1>1 DEF r
<1> QED
  BY <1>1, <1>2, <1>3, <1>4, <1>5, OtherListGoes

LEMMA ReplaceHeadStep ==
  ASSUME NEW L, Rings(M, L, stale), LoopOK(L), NEW g \in Heads, NEW h \in Heads, ReplaceHead(g, h)
  PROVE  Goes(L)
<1> DEFINE K == Given(L, g, h)
           r == list_replace_init(M, g, h)
<1>1. /\ g \in Heads \ stale /\ g # h /\ L[h] = <<>> /\ NotLooped(g) /\ NotLooped(h)
      /\ Becomes(r) /\ call' = <<"list_splice", g, h>>
      /\ stale' = stale \ {h} /\ UNCHANGED <<loop, todo>>
  BY EntriesRead DEF ReplaceHead, Usable
<1>2. Rings(r, K, stale')
  BY <1>1, GivenRings
<1>3. L \in [Heads -> Seq(Nodes)]
  BY DEF Rings, AreLists
<1>4. Did(L, K, call')
  <2>1. L[g] \o L[h] = L[g]
    BY <1>1, <1>3, ConcatEmptySeq
  <2>2. K = Joined(L, g, h, L[g] \o L[h])
    BY <2>1 DEF Given, Joined
  <2> HIDE DEF K
  <2> QED BY <1>1, <2>2 DEF Did
<1>5. Looping => K[loop.head] = L[loop.head] /\ loop.head \notin stale'
  BY <1>1, <1>3 DEF Given, Looping, NotLooped, LoopOK, Usable
<1> HIDE DEF K, r
<1> QED
  BY <1>1, <1>2, <1>4, <1>5, OtherListGoes

LEMMA InitHeadStep ==
  ASSUME NEW L, Rings(M, L, stale), LoopOK(L), NEW h \in Heads, InitHead(h)
  PROVE  Goes(L)
<1> DEFINE r == INIT_LIST_HEAD(M, h)
<1>1. /\ h \in stale /\ L[h] = <<>> /\ Becomes(r) /\ call' = <<"INIT_LIST_HEAD">>
      /\ stale' = stale \ {h} /\ UNCHANGED <<loop, todo>>
  BY DEF InitHead, Rings, AreLists
<1>2. Rings(r, L, stale')
  BY <1>1, InitialisedRings
<1>3. Did(L, L, call')
  BY <1>1 DEF Did
<1>4. Looping => loop.head \notin stale'
  BY <1>1 DEF LoopOK, Usable
<1> HIDE DEF r
<1> QED
  BY <1>1, <1>2, <1>3, <1>4, OtherListGoes

LEMMA CutStep ==
  ASSUME NEW L, Rings(M, L, stale), LoopOK(L), NEW g \in Heads, NEW h \in Heads, NEW c \in Cells, Cut(g, h, c)
  PROVE  Goes(L)
<1> DEFINE r == list_cut_position(M, g, h, c)
<1>1. /\ g \in Heads \ stale /\ h \in Heads \ stale /\ g # h /\ L[g] = <<>> /\ NotLooped(g) /\ NotLooped(h)
      /\ c \in {h} \cup ToSet(Entries(h)) /\ Becomes(r) /\ call' = <<"list_cut_position", g, h, c>>
      /\ UNCHANGED <<stale, loop, todo>>
  BY EntriesRead DEF Cut, Usable
<1>2. PICK i \in 0..Len(L[h]) : c = Cell(h, L[h], i)
  BY <1>1, PlaceOfEntry
<1> DEFINE K == Parted(L, g, h, i)
<1>3. Rings(r, K, stale')
  BY <1>1, <1>2, CutRings
<1>4. Did(L, K, call')
  BY <1>1, <1>2 DEF Did
<1>5. Looping => K[loop.head] = L[loop.head] /\ loop.head \notin stale'
  <2>1. L \in [Heads -> Seq(Nodes)]
    BY DEF Rings, AreLists
  <2> QED BY <1>1, <2>1 DEF Parted, Looping, NotLooped, LoopOK, Usable
<1> HIDE DEF K, r
<1> QED
  BY <1>1, <1>3, <1>4, <1>5, OtherListGoes

\* A list joined to another, which may be walked.
LEMMA JoinGoes ==
  ASSUME NEW L, Rings(M, L, stale), LoopOK(L), NEW g \in Heads \ stale, NEW h \in Heads \ stale, g # h,
         NotLooped(g), loop' = loop, todo' = todo, stale' \subseteq stale \cup {g},
         NEW s, s = L[g] \o L[h] \/ s = L[h] \o L[g],
         NEW r, Rings(r, Joined(L, g, h, s), stale'), Becomes(r),
         Did(L, Joined(L, g, h, s), call')
  PROVE  Goes(L)
<1> DEFINE K == Joined(L, g, h, s)
<1>1. \A f \in Heads \ {g} : \A x, y : Before(L, f, x, y) => Before(K, f, x, y)
  <2>1. AreLists(L, stale)
    BY DEF Rings
  <2> QED BY <2>1, JoinedLists
<1>2. Looping => loop.head \in Heads \ {g} /\ loop.head \notin stale'
  BY DEF Looping, NotLooped, LoopOK, Usable
<1>3. Rings(r, K, stale') /\ Did(L, K, call')
  OBVIOUS
<1> HIDE DEF K
<1>4. Keeps(L, K, {})
  BY <1>1, <1>2 DEF Keeps
<1>5. Spares({})
  BY <1>2 DEF Spares
<1> QED
  BY <1>3, <1>4, <1>5, CallGoes

LEMMA SpliceStep ==
  ASSUME NEW L, Rings(M, L, stale), LoopOK(L), NEW g \in Heads, NEW h \in Heads, Splice(g, h)
  PROVE  Goes(L)
<1>1. /\ g \in Heads \ stale /\ h \in Heads \ stale /\ g # h /\ NotLooped(g) /\ UNCHANGED <<loop, todo>>
      /\ stale' = IF list_empty(M, g) THEN stale ELSE stale \cup {g}
  BY DEF Splice, Usable
<1>2. stale' = IF L[g] = <<>> THEN stale ELSE stale \cup {g}
  BY <1>1, EmptyTold
<1>3. stale' \subseteq stale \cup {g}
  BY <1>2
<1> DEFINE T == IF L[g] = <<>> THEN stale ELSE stale \cup {g}
<1>6. /\ Rings(list_splice(M, g, h), Joined(L, g, h, L[g] \o L[h]), T)
      /\ Rings(list_splice_tail(M, g, h), Joined(L, g, h, L[h] \o L[g]), T)
  BY <1>1, SplicedRings
<1>7. T = stale'
  BY <1>2
<1> HIDE DEF T
<1>4. CASE Becomes(list_splice(M, g, h)) /\ call' = <<"list_splice", g, h>>
  <2> DEFINE s == L[g] \o L[h]
             r == list_splice(M, g, h)
  <2>1. Rings(r, Joined(L, g, h, s), stale')
    BY <1>6, <1>7
  <2>2. Did(L, Joined(L, g, h, s), call')
    BY <1>1, <1>4 DEF Did
  <2>3. (s = L[g] \o L[h] \/ s = L[h] \o L[g]) /\ Becomes(r)
    BY <1>4
  <2> HIDE DEF s, r
  <2> QED BY <1>1, <1>3, <2>1, <2>2, <2>3, JoinGoes
<1>5. CASE Becomes(list_splice_tail(M, g, h)) /\ call' = <<"list_splice_tail", g, h>>
  <2> DEFINE s == L[h] \o L[g]
             r == list_splice_tail(M, g, h)
  <2>1. Rings(r, Joined(L, g, h, s), stale')
    BY <1>6, <1>7
  <2>2. Did(L, Joined(L, g, h, s), call')
    BY <1>1, <1>5 DEF Did
  <2>3. (s = L[g] \o L[h] \/ s = L[h] \o L[g]) /\ Becomes(r)
    BY <1>5
  <2> HIDE DEF s, r
  <2> QED BY <1>1, <1>3, <2>1, <2>2, <2>3, JoinGoes
<1> QED
  BY <1>4, <1>5 DEF Splice

LEMMA SpliceInitStep ==
  ASSUME NEW L, Rings(M, L, stale), LoopOK(L), NEW g \in Heads, NEW h \in Heads, SpliceInit(g, h)
  PROVE  Goes(L)
<1>1. /\ g \in Heads \ stale /\ h \in Heads \ stale /\ g # h /\ NotLooped(g) /\ UNCHANGED <<stale, loop, todo>>
  BY DEF SpliceInit, Usable
<1>2. stale' \subseteq stale \cup {g}
  BY <1>1
<1>3. CASE Becomes(Reinit(M, g, list_splice(M, g, h))) /\ call' = <<"list_splice", g, h>>
  <2> DEFINE s == L[g] \o L[h]
             r == Reinit(M, g, list_splice(M, g, h))
  <2>1. Rings(r, Joined(L, g, h, s), stale')
    BY <1>1, SplicedRings
  <2>2. Did(L, Joined(L, g, h, s), call')
    BY <1>1, <1>3 DEF Did
  <2>3. (s = L[g] \o L[h] \/ s = L[h] \o L[g]) /\ Becomes(r)
    BY <1>3
  <2> HIDE DEF s, r
  <2> QED BY <1>1, <1>2, <2>1, <2>2, <2>3, JoinGoes
<1>4. CASE /\ \/ Becomes(Reinit(M, g, list_splice_tail(M, g, h)))
              \/ Becomes(list_whole_move(M, g, h))
              \/ Becomes(list_whole_append(M, g, h))
           /\ call' = <<"list_splice_tail", g, h>>
  <2> DEFINE s == L[h] \o L[g]
  <2>1. /\ Rings(Reinit(M, g, list_splice_tail(M, g, h)), Joined(L, g, h, s), stale')
        /\ Rings(list_whole_move(M, g, h), Joined(L, g, h, s), stale')
        /\ Rings(list_whole_append(M, g, h), Joined(L, g, h, s), stale')
    BY <1>1, SplicedRings, WholeMoveRings
  <2>2. Did(L, Joined(L, g, h, s), call')
    BY <1>1, <1>4 DEF Did
  <2>3. s = L[g] \o L[h] \/ s = L[h] \o L[g]
    OBVIOUS
  <2> HIDE DEF s
  <2>4. PICK r : Becomes(r) /\ Rings(r, Joined(L, g, h, s), stale')
    BY <1>4, <2>1
  <2> QED BY <1>1, <1>2, <2>2, <2>3, <2>4, JoinGoes
<1> QED
  BY <1>3, <1>4 DEF SpliceInit

\* A step of the loop leaves the rings.
StepsOn == UNCHANGED <<next, prev, stale>> /\ call' = <<"none">>

LEMMA StepGoes ==
  ASSUME NEW L, Rings(M, L, stale), StepsOn, LoopOK(L)'
  PROVE  Goes(L)
<1>1. Rings(M, L, stale)'
  BY DEF StepsOn, M
<1>2. Did(L, L, call')
  BY DEF StepsOn, Did
<1> QED
  BY <1>1, <1>2 DEF Goes

\* A loop that ends has met all there was.
LEMMA LoopOver ==
  ASSUME NEW L, loop' = NoLoop, todo' = {}
  PROVE  LoopOK(L)'
<1>1. UNSET \notin Heads
  BY CellsAssumption
<1> QED
  BY <1>1 DEF LoopOK, NoLoop, Looping, Pinned

\* Where an entry of a list is on the way that is walked.
LEMMA OnTheWay ==
  ASSUME NEW s, NEW a, Toward(s, a, a)
  PROVE  \E i \in 1..Len(s) : s[i] = a
BY DEF Toward

LEMMA LoopStartStep ==
  ASSUME NEW L, Rings(M, L, stale), NEW h \in Heads, NEW w \in {"next", "prev"}, NEW safe \in BOOLEAN,
         NEW c \in Nodes, LoopStart(h, w, safe, c)
  PROVE  Goes(L)
<1>1. /\ h \in Heads \ stale /\ c \in ToSet(Entries(h)) /\ StepsOn
      /\ loop' = At(h, w, safe, c) /\ todo' = Ahead(h, w, c) /\ stale' = stale
  BY DEF LoopStart, Usable, StepsOn
<1>2. L \in [Heads -> Seq(Nodes)] /\ Once(L)
  BY DEF Rings, AreLists
<1> DEFINE s == Run(L, w, h)
<1>3. PICK i \in 1..Len(s) : s[i] = c
  <2>1. PICK q \in 1..Len(L[h]) : L[h][q] = c
    BY <1>1, PlaceOfEntry
  <2>2. q <= q
    BY <1>2, LenProperties
  <2>3. Before(L, h, c, c)
    BY <2>1, <2>2 DEF Before
  <2>4. Toward(s, c, c)
    BY <1>2, <2>3, TowardIsBefore
  <2> HIDE DEF s
  <2> QED BY <2>4, OnTheWay
<1>4. s \in Seq(Nodes) /\ Distinct(s) /\ Len(s) \in Nat
  BY <1>1, RunsAlong
<1>5. todo' = {s[j] : j \in (i + 1)..Len(s)}
  <2>1. h \in Heads \ stale /\ i \in 1..Len(Run(L, w, h)) /\ c = Run(L, w, h)[i]
    BY <1>1, <1>3
  <2>2. Ahead(h, w, c) = Rest(Run(L, w, h), i)
    <3> HIDE DEF s
    <3> QED BY <2>1, AheadIsRest
  <2> QED BY <1>1, <2>2 DEF Rest
<1>6. todo' \subseteq Nodes /\ \A x \in todo' : Toward(s, c, x) /\ x # c
  <2> HIDE DEF s
  <2> SUFFICES ASSUME NEW j \in (i + 1)..Len(s) PROVE s[j] \in Nodes /\ Toward(s, c, s[j]) /\ s[j] # c
    BY <1>5
  <2>1. j \in 1..Len(s) /\ i <= j /\ i # j
    BY <1>3, <1>4
  <2> QED BY <1>3, <1>4, <2>1, ElementOfSeq DEF Toward, Distinct
<1>7. LoopOK(L)'
  BY <1>1, <1>3, <1>6, LoopAt
<1> QED
  BY <1>1, <1>7, StepGoes

\* The loop is at its head and in its list.
LEMMA WalkedIs ==
  ASSUME NEW L, Rings(M, L, stale), LoopOK(L), Looping
  PROVE  /\ loop.head \in Heads \ stale /\ loop.way \in {"next", "prev"} /\ loop.safe \in BOOLEAN
         /\ Walked(L) = Run(L, loop.way, loop.head)
         /\ Walked(L) \in Seq(Nodes) /\ Distinct(Walked(L)) /\ Len(Walked(L)) \in Nat
         /\ \A i \in 0..Len(Walked(L)) :
              Along(loop.way)[Cell(loop.head, Walked(L), i)] = Succ(loop.head, Walked(L), i)
<1>1. /\ loop.head \in Heads \ stale /\ loop.way \in {"next", "prev"} /\ loop.safe \in BOOLEAN
  BY DEF LoopOK, Looping, Usable
<1> QED
  BY <1>1, RunsAlong DEF Walked

\* All of X comes behind a, or may be a itself.
Follow(s, a, X)      == \A x \in X : Toward(s, a, x)
FollowAfter(s, a, X) == Follow(s, a, X) /\ a \notin X
IsOf(s, y)           == \E k \in 1..Len(s) : s[k] = y

\* The entry behind the i-th, and what is to be met when that one is left out.
LEMMA Behinds ==
  ASSUME NEW s \in Seq(Nodes), Distinct(s), Len(s) \in Nat, NEW i \in 1..Len(s), NEW h,
         NEW X, FollowAfter(s, s[i], X), NEW y, y = Succ(h, s, i), h \notin Nodes
  PROVE  (y = h => X = {}) /\ (y # h => IsOf(s, y) /\ Follow(s, y, X))
<1>0. \A x \in X : Toward(s, s[i], x) /\ x # s[i]
  BY DEF FollowAfter, Follow
<1>1. \A b : Toward(s, s[i], b) <=> \E j \in i..Len(s) : s[j] = b
  BY TowardAt
<1>2. ASSUME NEW x \in X PROVE \E j \in (i + 1)..Len(s) : s[j] = x
  <2>1. PICK j \in i..Len(s) : s[j] = x
    BY <1>0, <1>1
  <2>2. j # i
    BY <1>0, <2>1
  <2>3. j \in (i + 1)..Len(s)
    BY <2>2
  <2> QED BY <2>1, <2>3
<1>3. CASE i = Len(s)
  BY <1>2, <1>3 DEF Succ
<1>4. CASE i # Len(s)
  <2> DEFINE k == i + 1
  <2>1. k \in 1..Len(s) /\ y = s[k]
    BY <1>4 DEF Succ
  <2>2. \A x \in X : \E j \in k..Len(s) : s[j] = x
    BY <1>2
  <2> HIDE DEF k
  <2>3. \A b : Toward(s, s[k], b) <=> \E j \in k..Len(s) : s[j] = b
    BY <2>1, TowardAt
  <2>4. \A x \in X : Toward(s, y, x)
    BY <2>1, <2>2, <2>3
  <2>5. y # h
    BY <2>1, ElementOfSeq
  <2> QED BY <2>1, <2>4, <2>5 DEF IsOf, Follow
<1> QED
  BY <1>3, <1>4

LEMMA LoopStepStep ==
  ASSUME NEW L, Rings(M, L, stale), LoopOK(L), LoopStep
  PROVE  Goes(L)
<1> DEFINE y == Following
           h == loop.head
           w == loop.way
           s == Walked(L)
<1>1. /\ Looping /\ StepsOn /\ stale' = stale /\ todo' = todo \ {y}
      /\ loop' = IF y = h THEN NoLoop ELSE At(h, w, loop.safe, y)
  BY DEF LoopStep, StepsOn
<1>2. /\ h \in Heads \ stale /\ w \in {"next", "prev"} /\ loop.safe \in BOOLEAN
      /\ s = Run(L, w, h) /\ s \in Seq(Nodes) /\ Distinct(s) /\ Len(s) \in Nat
      /\ \A i \in 0..Len(s) : Along(w)[Cell(h, s, i)] = Succ(h, s, i)
  BY <1>1, WalkedIs
<1>3. todo \subseteq Nodes /\ todo' \subseteq Nodes
  BY <1>1 DEF LoopOK
\* Where the loop goes from what it knew: to its head when there is nothing left.
<1>4. /\ y = h => todo' = {}
      /\ y # h => \E k \in 1..Len(s) : y = s[k] /\ \A x \in todo' : Toward(s, y, x)
  <2>1. CASE loop.safe
    <3>1. y = Pinned
      BY <2>1 DEF Following, Pinned
    <3>2. /\ y = h => todo = {}
          /\ y # h => Toward(s, y, y)
          /\ \A x \in todo : Toward(s, y, x)
      BY <1>1, <3>1 DEF LoopOK
    <3> HIDE DEF y, s, h
    <3> QED BY <1>1, <3>2, OnTheWay
  <2>2. CASE ~loop.safe
    <3>1. y = Along(w)[Pinned] /\ Pinned \in Nodes \cup {UNSET}
      BY <2>2 DEF Following, Pinned, LoopOK
    <3>2. Pinned # h /\ h \notin Nodes
      BY <1>2, <3>1, CellsAssumption
    <3>3. Toward(s, Pinned, Pinned) /\ \A x \in todo : Toward(s, Pinned, x) /\ x # Pinned
      BY <1>1, <2>2, <3>2 DEF LoopOK
    <3> HIDE DEF y, s, h, w
    <3>4. PICK i \in 1..Len(s) : s[i] = Pinned
      BY <3>3, OnTheWay
    <3>5. i \in 0..Len(s) /\ Cell(h, s, i) = Pinned
      BY <1>2, <3>4 DEF Cell
    <3>6. y = Succ(h, s, i)
      BY <1>2, <3>1, <3>5
    <3>7. \A x \in todo' : Toward(s, s[i], x) /\ x # s[i]
      BY <1>1, <3>3, <3>4
    <3> DEFINE X == todo'
    <3>8. /\ s \in Seq(Nodes) /\ Distinct(s) /\ Len(s) \in Nat /\ i \in 1..Len(s) /\ h \notin Nodes
          /\ y = Succ(h, s, i) /\ FollowAfter(s, s[i], X)
      BY <1>2, <3>2, <3>6, <3>7 DEF FollowAfter, Follow
    <3> HIDE DEF X
    <3>9. (y = h => X = {}) /\ (y # h => IsOf(s, y) /\ Follow(s, y, X))
      BY <3>8, Behinds
    <3> QED BY <3>9 DEF X, IsOf, Follow
  <2> QED BY <2>1, <2>2
<1>5. CASE y = h
  BY <1>1, <1>4, <1>5, LoopOver, StepGoes
<1>6. CASE y # h
  <2>1. PICK k \in 1..Len(s) : y = s[k] /\ \A x \in todo' : Toward(s, y, x)
    BY <1>4, <1>6
  <2>2. loop' = At(h, w, loop.safe, y) /\ \A x \in todo' : Toward(s, y, x) /\ x # y
    BY <1>1, <1>6, <2>1
  <2> HIDE DEF y, s, h, w
  <2>3. LoopOK(L)'
    BY <1>1, <1>2, <1>3, <2>1, <2>2, LoopAt
  <2> QED BY <1>1, <2>3, StepGoes
<1> QED
  BY <1>5, <1>6

LEMMA LetGoStep ==
  ASSUME NEW L, Rings(M, L, stale), LoopOK(L), LetGo
  PROVE  Goes(L)
<1> DEFINE h == loop.head
           s == L[h]
           y == loop.pos
<1>1. /\ Looping /\ StepsOn /\ stale' = stale /\ todo' = todo
      /\ loop.safe /\ loop.way = "next" /\ y \in ToSet(Entries(h)) /\ loop.n = next[y]
      /\ loop' = [loop EXCEPT !.safe = FALSE, !.n = UNSET]
  BY DEF LetGo, StepsOn
<1>2. loop' = At(h, "next", FALSE, y) /\ todo' \subseteq Nodes
  <2>1. loop = [head |-> h, way |-> "next", safe |-> loop.safe, pos |-> y, n |-> loop.n]
    BY <1>1 DEF LoopOK
  <2> QED BY <1>1, <2>1 DEF At, LoopOK
<1>3. /\ h \in Heads \ stale /\ h \notin Nodes
      /\ Walked(L) = s /\ Run(L, "next", h) = s /\ s \in Seq(Nodes) /\ Distinct(s) /\ Len(s) \in Nat
      /\ \A i \in 0..Len(s) : next[Cell(h, s, i)] = Succ(h, s, i)
  <2>1. h \in Heads \ stale
    BY <1>1, WalkedIs
  <2>2. Run(L, "next", h) = s /\ Along("next") = next
    BY DEF Run, Along
  <2>3. Walked(L) = s
    BY <1>1, <2>2 DEF Walked
  <2> QED BY <2>1, <2>2, <2>3, RunsAlong
<1>4. PICK i \in 1..Len(s) : i \in 0..Len(s) /\ s[i] = y /\ Cell(h, s, i) = y
  BY <1>1, <1>3, PlaceOfEntry
<1>5. Pinned = Succ(h, s, i)
  BY <1>1, <1>3, <1>4 DEF Pinned
<1>6. /\ Pinned = h => todo = {}
      /\ \A x \in todo : Toward(s, Pinned, x)
  BY <1>1, <1>3 DEF LoopOK
<1>7. ASSUME NEW x \in todo' PROVE Toward(s, y, x) /\ x # y
  <2> HIDE DEF s, h, y
  <2>1. i # Len(s)
    BY <1>1, <1>5, <1>6, <1>7 DEF Succ
  <2> DEFINE k == i + 1
  <2>2. k \in 1..Len(s) /\ Pinned = s[k]
    BY <1>3, <1>5, <2>1 DEF Succ
  <2>3. Toward(s, s[k], x)
    BY <1>1, <1>6, <1>7, <2>2
  <2>4. PICK j \in k..Len(s) : s[j] = x
    <3> HIDE DEF k
    <3> QED BY <1>3, <2>2, <2>3, TowardAt
  <2>5. j \in 1..Len(s) /\ i <= j /\ i # j
    BY <1>3, <1>4, <2>4
  <2> QED BY <1>3, <1>4, <2>4, <2>5 DEF Toward, Distinct
<1>8. LoopOK(L)'
  <2>1. i \in 1..Len(Run(L, "next", h)) /\ y = Run(L, "next", h)[i]
    BY <1>3, <1>4
  <2>2. \A x \in todo' : Toward(Run(L, "next", h), y, x) /\ x # y
    BY <1>3, <1>7
  <2>3. PICK w \in {"next", "prev"}, f \in BOOLEAN : w = "next" /\ f = FALSE
    OBVIOUS
  <2>4. i \in 1..Len(Run(L, w, h)) /\ y = Run(L, w, h)[i] /\ loop' = At(h, w, f, y)
    BY <1>2, <2>1, <2>3
  <2>5. \A x \in todo' : Toward(Run(L, w, h), y, x) /\ x # y
    BY <2>2, <2>3
  <2>6. h \in Heads \ stale /\ stale' = stale /\ todo' \subseteq Nodes
    BY <1>1, <1>2, <1>3
  <2> HIDE DEF s, h, y
  <2> QED BY <2>4, <2>5, <2>6, LoopAt
<1> QED
  BY <1>1, <1>8, StepGoes

LEMMA ResetStep ==
  ASSUME NEW L, Rings(M, L, stale), LoopOK(L), list_safe_reset_next
  PROVE  Goes(L)
<1> DEFINE h == loop.head
           s == Run(L, "next", h)
           y == loop.pos
<1>1. /\ Looping /\ StepsOn /\ stale' = stale /\ todo' = todo
      /\ ~loop.safe /\ loop.way = "next" /\ loop' = At(h, "next", TRUE, y)
  BY DEF list_safe_reset_next, StepsOn, ResetNext
<1>2. h \in Heads \ stale /\ Walked(L) = s
  BY <1>1, WalkedIs
<1>3. Pinned = y /\ y \in Nodes \cup {UNSET} /\ todo' \subseteq Nodes
  BY <1>1 DEF Pinned, LoopOK
<1>4. y # h
  BY <1>2, <1>3, CellsAssumption
<1>5. Toward(s, y, y) /\ \A x \in todo' : Toward(s, y, x) /\ x # y
  BY <1>1, <1>2, <1>3, <1>4 DEF LoopOK
<1> HIDE DEF h, y
<1>6. PICK i \in 1..Len(s) : s[i] = y
  BY <1>5, OnTheWay
<1>7. LoopOK(L)'
  BY <1>1, <1>2, <1>3, <1>5, <1>6, LoopAt
<1> QED
  BY <1>1, <1>7, StepGoes

LEMMA NextGoes ==
  ASSUME NEW L, Rings(M, L, stale), LoopOK(L), Next
  PROVE  Goes(L)
<1>1. ASSUME NEW n \in Nodes, NEW h \in Heads, NEW c \in Cells, Add(n, h, c) PROVE Goes(L)
  BY <1>1, AddStep
<1>2. ASSUME NEW n \in Nodes, Del(n) PROVE Goes(L)
  BY <1>2, DelStep
<1>3. ASSUME NEW n \in Nodes, NEW o \in Nodes, Replace(o, n) PROVE Goes(L)
  BY <1>3, ReplaceStep
<1>4. ASSUME NEW n \in Nodes, NEW h \in Heads, Move(n, h) PROVE Goes(L)
  BY <1>4, MoveStep
<1>5. ASSUME NEW h \in Heads, Rotate(h) \/ InitHead(h) PROVE Goes(L)
  BY <1>5, RotateStep, InitHeadStep
<1>6. ASSUME NEW g \in Heads, NEW h \in Heads, ReplaceHead(g, h) \/ Splice(g, h) \/ SpliceInit(g, h)
      PROVE  Goes(L)
  BY <1>6, ReplaceHeadStep, SpliceStep, SpliceInitStep
<1>7. ASSUME NEW g \in Heads, NEW h \in Heads, NEW c \in Cells, Cut(g, h, c) PROVE Goes(L)
  BY <1>7, CutStep
<1>8. ASSUME NEW h \in Heads, NEW c \in Nodes, NEW w \in {"next", "prev"}, NEW safe \in BOOLEAN,
             LoopStart(h, w, safe, c)
      PROVE  Goes(L)
  BY <1>8, LoopStartStep
<1>9. ASSUME LoopStep \/ LetGo \/ list_safe_reset_next PROVE Goes(L)
  BY <1>9, LoopStepStep, LetGoStep, ResetStep
<1> QED
  BY <1>1, <1>2, <1>3, <1>4, <1>5, <1>6, <1>7, <1>8, <1>9 DEF Next

\* The lists before the first call.
NoEntries == [h \in Heads |-> <<>>]

LEMMA InitRings == Init => Rings(M, NoEntries, stale) /\ LoopOK(NoEntries)
<1> SUFFICES ASSUME Init PROVE Rings(M, NoEntries, stale) /\ LoopOK(NoEntries)
  OBVIOUS
<1> DEFINE L == NoEntries
<1>1. /\ L \in [Heads -> Seq(Nodes)] /\ \A h \in Heads : L[h] = <<>> /\ Len(L[h]) = 0
  <2>1. <<>> \in Seq(Nodes) /\ Len(<<>>) = 0
    BY EmptySeq
  <2> QED BY <2>1 DEF NoEntries
<1> HIDE DEF L
<1>2. AreLists(L, stale)
  BY <1>1 DEF AreLists, Once, Init
<1>3. M \in Mem
  <2>1. UNSET \in Ptr /\ \A c \in Heads : c \in Ptr
    BY DEF Ptr, Cells
  <2> QED BY <2>1 DEF Init, Mem, M
<1>4. \A h \in Heads : next[h] = h /\ prev[h] = h
  BY DEF Init, Cells
<1>5. ASSUME NEW x, NEW y, Beside(L, stale, x, y) PROVE M.next[x] = y /\ M.prev[y] = x
  <2>1. PICK h \in Heads : \E i \in 0..Len(L[h]) : x = Cell(h, L[h], i) /\ y = Succ(h, L[h], i)
    BY <1>5 DEF Beside
  <2>2. PICK i \in 0..Len(L[h]) : x = Cell(h, L[h], i) /\ y = Succ(h, L[h], i)
    BY <2>1
  <2>3. i = 0 /\ i = Len(L[h])
    BY <1>1
  <2>4. x = h /\ y = h
    BY <2>2, <2>3 DEF Cell, Succ
  <2> QED BY <1>4, <2>4 DEF M
<1>6. Rings(M, L, stale)
  BY <1>2, <1>3, <1>5 DEF Rings
<1>7. LoopOK(L)
  BY CellsAssumption DEF LoopOK, NoLoop, Looping, Init
<1> QED
  BY <1>6, <1>7 DEF L

LEMMA InitIInv == Init => IInv
BY InitRings DEF IInv

LEMMA NextIInv == IInv /\ [Next]_vars => IInv'
<1> SUFFICES ASSUME IInv, [Next]_vars PROVE IInv'
  OBVIOUS
<1>0. PICK L : Rings(M, L, stale) /\ LoopOK(L)
  BY DEF IInv
<1>1. CASE Next
  BY <1>0, <1>1, NextGoes DEF Goes, IInv
<1>2. CASE UNCHANGED vars
  <2>1. Rings(M, L, stale)' /\ LoopOK(L)'
    BY <1>0, <1>2 DEF vars, M, LoopOK, Looping, Pinned, Walked, Usable
  <2> QED BY <2>1 DEF IInv
<1> QED
  BY <1>1, <1>2

-----------------------------------------------------------------------------
(* What follows from it.                                                   *)

LEMMA IInvTypeOK == IInv => TypeOK
BY DEF IInv, TypeOK, Rings, AreLists, Mem, M, LoopOK

\* The invariant RingsClosedBothWays of the runs: whatever calls ran, every list that is not
\* spliced away is a ring without repetitions, closed at its last entry, the same read backward,
\* and no entry is in two lists.
THEOREM RingsStayClosed == Spec => []RingsClosedBothWays
<1>1. IInv => RingsClosedBothWays
  <2> SUFFICES ASSUME NEW L, Rings(M, L, stale), IInv PROVE RingsClosedBothWays
    BY DEF IInv
  <2>1. /\ L \in [Heads -> Seq(Nodes)] /\ Once(L) /\ TypeOK
        /\ \A h \in Heads : Entries(h) = L[h]
        /\ \A h \in Heads \ stale : Way(prev, h) = Reverse(L[h])
    BY IInvTypeOK, EntriesRead DEF Rings, AreLists
  <2>2. \A h \in Heads : Len(L[h]) \in Nat /\ DOMAIN L[h] = 1..Len(L[h])
    BY <2>1, LenProperties
  <2>3. ASSUME NEW h \in Heads \ stale
        PROVE  LET s == L[h]
               IN  /\ IsInjective(s)
                   /\ \A e \in ToSet(s) : list_is_last(M, e, h) <=> e = Last(s)
                   /\ list_empty_careful(M, h) <=> s = <<>>
    <3> DEFINE s == L[h]
    <3>1. IsInjective(s)
      BY <2>1, <2>2 DEF IsInjective, Once
    <3>2. ASSUME NEW e \in ToSet(s) PROVE list_is_last(M, e, h) <=> e = Last(s)
      <4>1. PICK i \in 1..Len(s) : s[i] = e
        BY <2>2, <3>2 DEF ToSet
      <4>2. i \in 0..Len(s) /\ Cell(h, s, i) = e /\ Len(s) \in 1..Len(s) /\ Len(s) \in Nat
        BY <2>2, <4>1 DEF Cell
      <4>3. next[e] = Succ(h, s, i)
        <5>1. Beside(L, stale, e, Succ(h, s, i))
          BY <4>2 DEF Beside
        <5> QED BY <5>1 DEF Rings, M
      <4>4. h \notin Nodes /\ \A j \in 1..Len(s) : s[j] \in Nodes /\ (s[i] = s[j] => i = j)
        BY <2>1, PlacesDiffer, CellsAssumption DEF Once
      <4> HIDE DEF s
      <4>5. next[e] = h <=> i = Len(s)
        <5>1. i # Len(s) => i + 1 \in 1..Len(s)
          BY <4>2
        <5> QED BY <4>3, <4>4, <5>1 DEF Succ
      <4>6. e = Last(s) <=> i = Len(s)
        BY <4>1, <4>2, <4>4 DEF Last
      <4> QED BY <4>5, <4>6 DEF list_is_last, M
    <3>3. list_empty_careful(M, h) <=> s = <<>>
      BY EmptyTold DEF list_empty_careful, list_empty
    <3> QED BY <3>1, <3>2, <3>3
  <2>4. ASSUME NEW g \in Heads, NEW h \in Heads, g # h PROVE ToSet(L[g]) \cap ToSet(L[h]) = {}
    BY <2>1, <2>2, <2>4 DEF ToSet, Once
  <2> QED BY <2>1, <2>3, <2>4 DEF RingsClosedBothWays
<1> QED
  BY <1>1, InitIInv, NextIInv, PTL DEF Spec

\* The invariant LoopMeetsAll of the runs: whatever a loop's body adds, removes, replaces or moves,
\* the loop, forward or backward, stays in its list and ends having met all that lay ahead of
\* it and that nobody took out.
THEOREM LoopsMeetAll == Spec => []LoopMeetsAll
<1>1. IInv => LoopMeetsAll
  <2> SUFFICES ASSUME NEW L, Rings(M, L, stale), LoopOK(L) PROVE LoopMeetsAll
    BY DEF IInv
  <2>1. ASSUME Looping, Pinned # loop.head PROVE Pinned \in ToSet(Entries(loop.head))
    <3>1. Toward(Walked(L), Pinned, Pinned) /\ loop.head \in Heads /\ loop.way \in {"next", "prev"}
      BY <2>1 DEF LoopOK, Looping
    <3>2. L \in [Heads -> Seq(Nodes)] /\ Once(L) /\ Entries(loop.head) = L[loop.head]
      BY <3>1, EntriesRead DEF Rings, AreLists
    <3>3. Before(L, loop.head, Pinned, Pinned)
      BY <3>1, <3>2, TowardIsBefore DEF Walked
    <3>4. DOMAIN L[loop.head] = 1..Len(L[loop.head])
      BY <3>1, <3>2
    <3> QED BY <3>2, <3>3, <3>4 DEF Before, ToSet
  <2> QED BY <2>1 DEF LoopMeetsAll, LoopOK
<1> QED
  BY <1>1, InitIInv, NextIInv, PTL DEF Spec

-----------------------------------------------------------------------------
(* The lists of the comments.                                              *)

\* s with n in the place of o.
Renamed(s, o, n) == [i \in 1..Len(s) |-> IF s[i] = o THEN n ELSE s[i]]

LEMMA EntryReplaced ==
  ASSUME NEW s \in Seq(Nodes), Distinct(s), NEW q \in 1..Len(s), NEW n \in Nodes
  PROVE  InsertAt(RemoveAt(s, q), q, n) = Renamed(s, s[q], n)
<1> DEFINE l == Len(s)
           r == RemoveAt(s, q)
           t == InsertAt(r, q, n)
<1>1. /\ l \in Nat /\ q \in 1..l /\ r \in Seq(Nodes) /\ Len(r) = l - 1
      /\ \A k \in 1..(l - 1) : r[k] = IF k < q THEN s[k] ELSE s[k + 1]
  BY LenProperties, RemoveAtProperties
<1> HIDE DEF l, r
<1>2. q \in 1..(Len(r) + 1) /\ Len(r) + 1 = l
  BY <1>1
<1>3. /\ t \in Seq(Nodes) /\ Len(t) = Len(r) + 1
      /\ \A k \in 1..(Len(r) + 1) : t[k] = IF k < q THEN r[k] ELSE IF k = q THEN n ELSE r[k - 1]
  <2>1. r \in Seq(Nodes) /\ q \in 1..(Len(r) + 1) /\ n \in Nodes
    BY <1>1, <1>2
  <2>2. /\ InsertAt(r, q, n) \in Seq(Nodes) /\ Len(InsertAt(r, q, n)) = Len(r) + 1
        /\ \A k \in 1..(Len(r) + 1) : InsertAt(r, q, n)[k] =
             IF k < q THEN r[k] ELSE IF k = q THEN n ELSE r[k - 1]
    BY <2>1, InsertAtProperties
  <2> QED BY <2>2
<1> HIDE DEF t
<1>4. ASSUME NEW i \in 1..l PROVE t[i] = IF s[i] = s[q] THEN n ELSE s[i]
  <2>1. s[i] = s[q] <=> i = q
    BY <1>1 DEF Distinct, l
  <2>2. CASE i < q
    <3>1. i \in 1..(l - 1) /\ i # q
      BY <1>1, <2>2
    <3> QED BY <1>1, <1>2, <1>3, <2>1, <2>2, <3>1
  <2>3. CASE i = q
    BY <1>1, <1>2, <1>3, <2>1, <2>3
  <2>4. CASE q < i
    <3> DEFINE k == i - 1
    <3>1. k \in 1..(l - 1) /\ ~ (k < q) /\ k + 1 = i /\ ~ (i < q) /\ i # q
      BY <1>1, <2>4
    <3>2. t[i] = r[k]
      BY <1>2, <1>3, <3>1
    <3> HIDE DEF k
    <3> QED BY <1>1, <2>1, <3>1, <3>2
  <2> QED BY <1>1, <2>2, <2>3, <2>4
<1>5. DOMAIN t = 1..l /\ t = [i \in DOMAIN t |-> t[i]]
  BY <1>2, <1>3
<1> QED
  BY <1>4, <1>5 DEF l, t, r, Renamed

LEMMA WithoutIsRemoveAt ==
  ASSUME NEW S, NEW s \in Seq(S), Distinct(s), NEW n
  PROVE  /\ \A q \in 1..Len(s) : s[q] = n => Abstract!Without(s, n) = RemoveAt(s, q)
         /\ (\A q \in 1..Len(s) : s[q] # n) => Abstract!Without(s, n) = s
<1> DEFINE I == {i \in 1..Len(s) : s[i] = n}
           p == Abstract!SelectInSeq(s, LAMBDA x : x = n)
<1>1. Abstract!Without(s, n) = IF \E i \in 1..Len(s) : s[i] = n THEN RemoveAt(s, p) ELSE s
  BY DEF Abstract!Without, Abstract!RemoveFirst, Abstract!RemoveAt, RemoveAt
<1>2. ASSUME NEW q \in 1..Len(s), s[q] = n PROVE p = q
  <2>1. Len(s) \in Nat
    BY LenProperties
  <2>2. I = {q}
    BY <1>2 DEF Distinct
  <2>3. Abstract!Min(I) = q
    <3>1. q \in I /\ \A x \in I : q <= x
      BY <2>1, <2>2
    <3> HIDE DEF I
    <3> QED BY <2>2, <3>1 DEF Abstract!Min
  <2>4. p = IF I # {} THEN Abstract!Min(I) ELSE 0
    BY DEF Abstract!SelectInSeq
  <2> HIDE DEF I, p
  <2> QED BY <2>2, <2>3, <2>4
<1> HIDE DEF p
<1> QED
  BY <1>1, <1>2

\* The lists without the entry n.
AllWithout(L, n) == [g \in Heads |-> Abstract!Without(L[g], n)]

LEMMA LessIsWithout ==
  ASSUME NEW L \in [Heads -> Seq(Nodes)], Once(L), NEW h \in Heads, NEW q \in 1..Len(L[h])
  PROVE  \A n : n = L[h][q] => Less(L, h, q) = AllWithout(L, n)
<1> TAKE n
<1> HAVE n = L[h][q]
<1>1. \A g \in Heads : Abstract!Without(L[g], n) = IF g = h THEN RemoveAt(L[h], q) ELSE L[g]
  <2> TAKE g \in Heads
  <2>1. L[g] \in Seq(Nodes) /\ Distinct(L[g])
    BY DEF Once, Distinct
  <2>2. g # h => \A i \in 1..Len(L[g]) : L[g][i] # n
    BY DEF Once
  <2> QED BY <2>1, <2>2, WithoutIsRemoveAt
<1> QED
  BY <1>1 DEF Less, AllWithout

\* Entries has read the lists.
AllRead == \A L : Rings(M, L, stale) => [h \in Heads |-> Entries(h)] = L

LEMMA ListsAreRead == AllRead
<1> SUFFICES ASSUME NEW L, Rings(M, L, stale) PROVE [h \in Heads |-> Entries(h)] = L
  BY DEF AllRead
<1>1. L = [h \in Heads |-> L[h]]
  BY DEF Rings, AreLists
<1> QED
  BY <1>1, EntriesRead

\* The lists the comments speak of were L, and are K.
FromTo(L, K) ==
  /\ [h \in Heads |-> Entries(h)] = L /\ [h \in Heads |-> Entries(h)]' = K
  /\ L \in [Heads -> Seq(Nodes)] /\ Once(L)

\* What the comments call a place, and a loose entry.
LEMMA PlacesTold ==
  ASSUME NEW L, NEW K, FromTo(L, K)
  PROVE  /\ \A n : Outside(L, n) => Abstract!Loose(n)
         /\ \A h \in Heads : \A q \in 0..Len(L[h]) :
              /\ Abstract!IsPlace(h, Cell(h, L[h], q))
              /\ Abstract!Pos(L[h], h, Cell(h, L[h], q)) = q
         /\ \A h \in Heads : \A q \in 0..Len(L[h]) : \A n :
              Abstract!Put(L[h], q, <<n>>) = InsertAt(L[h], q + 1, n)
<1> DEFINE lists == [h \in Heads |-> Entries(h)]
<1>1. /\ L \in [Heads -> Seq(Nodes)] /\ Once(L)
      /\ \A h \in Heads : lists[h] = L[h] /\ DOMAIN L[h] = 1..Len(L[h]) /\ Len(L[h]) \in Nat /\ Distinct(L[h])
  <2>1. L \in [Heads -> Seq(Nodes)] /\ Once(L) /\ lists = L
    BY DEF FromTo
  <2>2. \A h \in Heads : Len(L[h]) \in Nat /\ DOMAIN L[h] = 1..Len(L[h]) /\ Distinct(L[h])
    BY <2>1, LenProperties DEF Distinct, Once
  <2> QED BY <2>1, <2>2
<1>2. ASSUME NEW n, Outside(L, n) PROVE Abstract!Loose(n)
  BY <1>1, <1>2 DEF Abstract!Loose, Abstract!Holds, Abstract!ToSet, Outside
<1>3. ASSUME NEW h \in Heads, NEW q \in 0..Len(L[h])
      PROVE  Abstract!IsPlace(h, Cell(h, L[h], q)) /\ Abstract!Pos(L[h], h, Cell(h, L[h], q)) = q
  <2>1. CASE q = 0
    BY <2>1 DEF Cell, Abstract!IsPlace, Abstract!Pos
  <2>2. CASE q # 0
    <3> DEFINE x == L[h][q]
    <3>1. q \in 1..Len(L[h]) /\ x \in Nodes /\ x # h /\ Cell(h, L[h], q) = x
      BY <1>1, <2>2, PlacesDiffer, CellsAssumption DEF Cell
    <3>2. Abstract!Holds(h, x)
      BY <1>1, <3>1 DEF Abstract!Holds, Abstract!ToSet
    <3>3. \A i \in 1..Len(L[h]) : L[h][i] = x <=> i = q
      BY <1>1, <3>1 DEF Distinct
    <3> HIDE DEF x
    <3>4. (CHOOSE i \in 1..Len(L[h]) : L[h][i] = x) = q
      BY <3>1, <3>3
    <3> QED BY <3>1, <3>2, <3>4 DEF Abstract!IsPlace, Abstract!Pos
  <2> QED BY <2>1, <2>2
<1>4. ASSUME NEW h \in Heads, NEW q \in 0..Len(L[h]), NEW n
      PROVE  Abstract!Put(L[h], q, <<n>>) = InsertAt(L[h], q + 1, n)
  <2>1. (q + 1) - 1 = q
    BY <1>1
  <2> QED BY <2>1 DEF Abstract!Put, InsertAt
<1> QED
  BY <1>2, <1>3, <1>4

LEMMA AddIsEffect ==
  ASSUME NEW L, NEW K, FromTo(L, K), NEW n \in Nodes, NEW h \in Heads, NEW q \in 0..Len(L[h]),
         Outside(L, n), K = With(L, h, q, n)
  PROVE  /\ Abstract!list_add(n, h, Cell(h, L[h], q))
         /\ Abstract!list_add_tail(n, h, Succ(h, L[h], q))
<1> DEFINE lists == [f \in Heads |-> Entries(f)]
           p == Abstract!Put(L[h], q, <<n>>)
<1>1. lists = L /\ lists' = K /\ L \in [Heads -> Seq(Nodes)] /\ Once(L)
  BY DEF FromTo
<1>2. Abstract!Loose(n) /\ K = [L EXCEPT ![h] = p]
  BY PlacesTold DEF With
<1>3. Abstract!list_add(n, h, Cell(h, L[h], q))
  <2> DEFINE c == Cell(h, L[h], q)
  <2>1. Abstract!IsPlace(h, c) /\ Abstract!Pos(L[h], h, c) = q
    BY PlacesTold
  <2> HIDE DEF c
  <2>2. K = [L EXCEPT ![h] = Abstract!Put(@, Abstract!Pos(@, h, c), <<n>>)]
    BY <1>2, <2>1
  <2> QED BY <1>1, <1>2, <2>1, <2>2 DEF Abstract!list_add, c
<1>4. Abstract!list_add_tail(n, h, Succ(h, L[h], q))
  <2> DEFINE c == Succ(h, L[h], q)
             l == Len(L[h])
  <2>1. Abstract!IsPlace(h, c) /\ q = IF c = h THEN l ELSE Abstract!Pos(L[h], h, c) - 1
    <3>1. CASE q = l
      <4>1. c = h /\ c = Cell(h, L[h], 0) /\ 0 \in 0..l
        BY <1>1, <3>1, LenProperties DEF Succ, Cell
      <4>2. Abstract!IsPlace(h, c)
        <5> HIDE DEF c
        <5> QED BY <4>1, PlacesTold
      <4> QED BY <3>1, <4>1, <4>2
    <3>2. CASE q # l
      <4> DEFINE k == q + 1
      <4>1. k \in 1..l /\ k \in 0..l /\ k - 1 = q /\ k # 0 /\ c = L[h][k]
        BY <1>1, <3>2, LenProperties DEF Succ
      <4> HIDE DEF k, c
      <4>2. c = Cell(h, L[h], k) /\ c # h
        BY <1>1, <4>1, PlacesDiffer, CellsAssumption DEF Cell
      <4>3. Abstract!IsPlace(h, c) /\ Abstract!Pos(L[h], h, c) = k
        BY <4>1, <4>2, PlacesTold
      <4> QED BY <4>1, <4>2, <4>3
    <3> QED BY <3>1, <3>2
  <2> HIDE DEF c
  <2>2. K = [L EXCEPT ![h] = Abstract!Put(@, IF c = h THEN Len(@) ELSE Abstract!Pos(@, h, c) - 1, <<n>>)]
    BY <1>2, <2>1
  <2> QED BY <1>1, <1>2, <2>1, <2>2 DEF Abstract!list_add_tail, c
<1> QED
  BY <1>3, <1>4

LEMMA DelIsEffect ==
  ASSUME NEW L, NEW K, FromTo(L, K), NEW h \in Heads, NEW q \in 1..Len(L[h]), NEW n, n = L[h][q],
         K = Less(L, h, q)
  PROVE  Abstract!list_del(n)
<1> DEFINE lists == [f \in Heads |-> Entries(f)]
<1>1. lists = L /\ lists' = K /\ L \in [Heads -> Seq(Nodes)] /\ Once(L)
  BY DEF FromTo
<1>2. K = AllWithout(L, n)
  BY <1>1, LessIsWithout
<1> HIDE DEF lists
<1>3. lists' = [g \in Heads |-> Abstract!Without(lists[g], n)]
  BY <1>1, <1>2 DEF AllWithout
<1> QED
  BY <1>3 DEF Abstract!list_del, lists

LEMMA ReplaceIsEffect ==
  ASSUME NEW L, NEW K, FromTo(L, K), NEW h \in Heads, NEW q \in 1..Len(L[h]), NEW o, o = L[h][q],
         NEW n \in Nodes, Outside(L, n), K = With(Less(L, h, q), h, q - 1, n)
  PROVE  Abstract!list_replace(o, n)
<1> DEFINE lists == [f \in Heads |-> Entries(f)]
<1>1. lists = L /\ lists' = K /\ L \in [Heads -> Seq(Nodes)] /\ Once(L)
  BY DEF FromTo
<1>2. (q - 1) + 1 = q /\ L[h] \in Seq(Nodes) /\ Distinct(L[h])
  BY <1>1, LenProperties DEF Distinct, Once
<1>3. K = [L EXCEPT ![h] = InsertAt(RemoveAt(L[h], q), q, n)]
  BY <1>1, <1>2 DEF With, Less
<1>4. InsertAt(RemoveAt(L[h], q), q, n) = Renamed(L[h], o, n)
  BY <1>2, EntryReplaced
<1>5. ASSUME NEW g \in Heads, g # h PROVE Renamed(L[g], o, n) = L[g]
  <2>1. \A i \in 1..Len(L[g]) : L[g][i] # o
    BY <1>1, <1>5 DEF Once
  <2>2. L[g] = [i \in 1..Len(L[g]) |-> L[g][i]]
    BY <1>1
  <2> QED BY <2>1, <2>2 DEF Renamed
<1>6. K = [g \in Heads |-> Renamed(L[g], o, n)]
  BY <1>1, <1>3, <1>4, <1>5
<1>7. Abstract!Loose(n)
  BY PlacesTold
<1> QED
  BY <1>1, <1>6, <1>7 DEF Abstract!list_replace, Renamed

LEMMA MoveIsEffect ==
  ASSUME NEW L, NEW K, FromTo(L, K), NEW h \in Heads, NEW q \in 1..Len(L[h]), NEW n, n = L[h][q],
         NEW g \in Heads, NEW J, J = Less(L, h, q)
  PROVE  /\ K = With(J, g, 0, n) => Abstract!list_move(n, g)
         /\ K = With(J, g, Len(J[g]), n) => Abstract!list_move_tail(n, g)
<1> DEFINE lists == [f \in Heads |-> Entries(f)]
<1>1. lists = L /\ lists' = K /\ L \in [Heads -> Seq(Nodes)] /\ Once(L) /\ n \in Nodes
  BY PlacesDiffer DEF FromTo
<1>2. J = AllWithout(L, n) /\ J \in [Heads -> Seq(Nodes)]
  <2>1. J \in [Heads -> Seq(Nodes)]
    BY <1>1, Removed
  <2>2. L \in [Heads -> Seq(Nodes)] /\ Once(L) /\ h \in Heads /\ q \in 1..Len(L[h]) /\ n = L[h][q]
    BY <1>1
  <2>3. Less(L, h, q) = AllWithout(L, n)
    BY <2>2, LessIsWithout
  <2> QED BY <2>1, <2>3
<1>3. /\ InsertAt(J[g], 1, n) = <<n>> \o J[g]
      /\ InsertAt(J[g], Len(J[g]) + 1, n) = J[g] \o <<n>>
  BY <1>1, <1>2, EndsOfList
<1>4. \A f \in Heads : <<>> \o J[f] = J[f] /\ J[f] \o <<>> = J[f]
  BY <1>2, ConcatEmptySeq
<1>5. ASSUME K = With(J, g, 0, n) PROVE Abstract!list_move(n, g)
  <2>0. 0 + 1 = 1
    OBVIOUS
  <2>1. K = [J EXCEPT ![g] = <<n>> \o J[g]]
    BY <1>3, <1>5, <2>0 DEF With
  <2>2. K = [f \in Heads |-> (IF f = g THEN <<n>> ELSE <<>>) \o J[f]]
    BY <1>2, <1>4, <2>1
  <2>3. K = [f \in Heads |-> (IF f = g THEN <<n>> ELSE <<>>) \o Abstract!Without(L[f], n)]
    BY <1>2, <2>2 DEF AllWithout
  <2> QED BY <1>1, <2>3 DEF Abstract!list_move
<1>6. ASSUME K = With(J, g, Len(J[g]), n) PROVE Abstract!list_move_tail(n, g)
  <2>1. K = [J EXCEPT ![g] = J[g] \o <<n>>]
    BY <1>3, <1>6 DEF With
  <2>2. K = [f \in Heads |-> J[f] \o (IF f = g THEN <<n>> ELSE <<>>)]
    BY <1>2, <1>4, <2>1
  <2>3. K = [f \in Heads |-> Abstract!Without(L[f], n) \o (IF f = g THEN <<n>> ELSE <<>>)]
    BY <1>2, <2>2 DEF AllWithout
  <2> QED BY <1>1, <2>3 DEF Abstract!list_move_tail
<1> QED
  BY <1>5, <1>6

LEMMA RotateIsEffect ==
  ASSUME NEW L, NEW K, FromTo(L, K), NEW h \in Heads, K = Turned(L, h)
  PROVE  Abstract!list_rotate_left(h)
<1> DEFINE lists == [f \in Heads |-> Entries(f)]
           s == L[h]
<1>1. lists = L /\ lists' = K /\ L \in [Heads -> Seq(Nodes)] /\ s \in Seq(Nodes)
  BY DEF FromTo
<1>2. K = [L EXCEPT ![h] = IF s = <<>> THEN s ELSE Tail(s) \o <<Head(s)>>]
  <2>1. CASE s = <<>>
    BY <1>1, <2>1 DEF Turned
  <2>2. CASE s # <<>>
    <3> DEFINE J == Less(L, h, 1)
    <3>1. Tail(s) \in Seq(Nodes) /\ Head(s) = s[1] /\ s[1] \in Nodes
      BY <1>1, <2>2, TailProperties, HeadTailProperties
    <3>2. RemoveAt(s, 1) = Tail(s)
      BY <1>1, <2>2, <3>1, EndsOfList
    <3>3. J = [L EXCEPT ![h] = Tail(s)] /\ J[h] = Tail(s)
      BY <1>1, <3>2 DEF Less
    <3>4. InsertAt(Tail(s), Len(Tail(s)) + 1, s[1]) = Tail(s) \o <<s[1]>>
      BY <3>1, EndsOfList
    <3>5. K = With(J, h, Len(J[h]), s[1])
      BY <2>2 DEF Turned
    <3> HIDE DEF J
    <3>6. K = [J EXCEPT ![h] = Tail(s) \o <<Head(s)>>]
      BY <3>1, <3>3, <3>4, <3>5 DEF With
    <3> QED BY <1>1, <2>2, <3>3, <3>6
  <2> QED BY <2>1, <2>2
<1> QED
  BY <1>1, <1>2 DEF Abstract!list_rotate_left

LEMMA CutIsEffect ==
  ASSUME NEW L, NEW K, FromTo(L, K), NEW g \in Heads, NEW h \in Heads, g # h, L[g] = <<>>,
         NEW i \in 0..Len(L[h]), NEW c, c = Cell(h, L[h], i), K = Parted(L, g, h, i)
  PROVE  Abstract!list_cut_position(g, h, c)
<1> DEFINE lists == [f \in Heads |-> Entries(f)]
<1>1. lists = L /\ lists' = K /\ L \in [Heads -> Seq(Nodes)]
  BY DEF FromTo
<1>2. Abstract!IsPlace(h, c) /\ Abstract!Pos(L[h], h, c) = i
  BY PlacesTold
<1>3. K = [L EXCEPT ![g] = SubSeq(L[h], 1, i), ![h] = SubSeq(@, i + 1, Len(@))]
  BY <1>1 DEF Parted
<1> QED
  BY <1>1, <1>2, <1>3 DEF Abstract!list_cut_position

LEMMA SpliceIsEffect ==
  ASSUME NEW L, NEW K, FromTo(L, K), NEW g \in Heads, NEW h \in Heads, g # h
  PROVE  /\ K = Joined(L, g, h, L[g] \o L[h]) => Abstract!list_splice(g, h)
         /\ K = Joined(L, g, h, L[h] \o L[g]) => Abstract!list_splice_tail(g, h)
BY DEF FromTo, Joined, Abstract!list_splice, Abstract!list_splice_tail

\* What a call does to the lists is what the comment on its function says.
LEMMA DidIsEffect ==
  ASSUME NEW L, NEW K, FromTo(L, K), Did(L, K, call')
  PROVE  Abstract!Effect(call')
<1>1. CASE call' \in {<<"none">>, <<"INIT_LIST_HEAD">>} /\ K = L
  BY <1>1 DEF Abstract!Effect, FromTo
<1>2. ASSUME NEW n \in Nodes, NEW h \in Heads, NEW q \in 0..Len(L[h]),
             Outside(L, n), K = With(L, h, q, n),
             call' \in {<<"list_add", n, h, Cell(h, L[h], q)>>, <<"list_add_tail", n, h, Succ(h, L[h], q)>>}
      PROVE  Abstract!Effect(call')
  BY <1>2, AddIsEffect DEF Abstract!Effect
<1>3. ASSUME NEW h \in Heads, NEW q \in 1..Len(L[h]), call' = <<"list_del", L[h][q]>>, K = Less(L, h, q)
      PROVE  Abstract!Effect(call')
  BY <1>3, DelIsEffect DEF Abstract!Effect
<1>4. ASSUME NEW n \in Nodes, NEW h \in Heads, NEW q \in 1..Len(L[h]),
             Outside(L, n), K = With(Less(L, h, q), h, q - 1, n), call' = <<"list_replace", L[h][q], n>>
      PROVE  Abstract!Effect(call')
  BY <1>4, ReplaceIsEffect DEF Abstract!Effect
<1>5. ASSUME NEW g \in Heads, NEW h \in Heads, NEW q \in 1..Len(L[h]), NEW J, J = Less(L, h, q),
             \/ call' = <<"list_move", L[h][q], g>> /\ K = With(J, g, 0, L[h][q])
             \/ call' = <<"list_move_tail", L[h][q], g>> /\ K = With(J, g, Len(J[g]), L[h][q])
      PROVE  Abstract!Effect(call')
  BY <1>5, MoveIsEffect DEF Abstract!Effect
<1>6. ASSUME NEW h \in Heads, call' = <<"list_rotate_left", h>>, K = Turned(L, h)
      PROVE  Abstract!Effect(call')
  BY <1>6, RotateIsEffect DEF Abstract!Effect
<1>7. ASSUME NEW g \in Heads, NEW h \in Heads, NEW i \in 0..Len(L[h]), g # h, L[g] = <<>>,
             K = Parted(L, g, h, i), call' = <<"list_cut_position", g, h, Cell(h, L[h], i)>>
      PROVE  Abstract!Effect(call')
  BY <1>7, CutIsEffect DEF Abstract!Effect
<1>8. ASSUME NEW g \in Heads, NEW h \in Heads, g # h,
             \/ call' = <<"list_splice", g, h>> /\ K = Joined(L, g, h, L[g] \o L[h])
             \/ call' = <<"list_splice_tail", g, h>> /\ K = Joined(L, g, h, L[h] \o L[g])
      PROVE  Abstract!Effect(call')
  BY <1>8, SpliceIsEffect DEF Abstract!Effect
<1> QED
  BY <1>1, <1>2, <1>3, <1>4, <1>5, <1>6, <1>7, <1>8 DEF Did

\* The property RefinesLists of the runs: each function of the header, seen through the
\* entries its loop macros meet, does what the comment on it says.
THEOREM RingsRefine == Spec => RefinesLists
<1>1. Init => Abstract!Init
  <2> SUFFICES ASSUME Init PROVE Abstract!Init
    OBVIOUS
  <2>1. [h \in Heads |-> Entries(h)] = NoEntries
    BY InitRings, ListsAreRead DEF AllRead
  <2> QED BY <2>1 DEF Init, NoEntries, Abstract!Init
<1>2. IInv /\ [Next]_vars => [Abstract!Effect(call')]_(Abstract!vars)
  <2> SUFFICES ASSUME IInv, [Next]_vars PROVE [Abstract!Effect(call')]_(Abstract!vars)
    OBVIOUS
  <2>1. PICK L : Rings(M, L, stale) /\ LoopOK(L)
    BY DEF IInv
  <2>2. CASE Next
    <3>1. PICK K : Rings(M, K, stale)' /\ Did(L, K, call')
      BY <2>1, <2>2, NextGoes DEF Goes
    <3>2. AllRead'
      BY ListsAreRead, PTL
    <3>3. FromTo(L, K)
      BY <2>1, <3>1, <3>2, ListsAreRead DEF AllRead, FromTo, Rings, AreLists
    <3> QED BY <3>1, <3>3, DidIsEffect
  <2>3. CASE UNCHANGED vars
    BY <2>3 DEF vars, Abstract!vars, Entries
  <2> QED BY <2>2, <2>3
<1> QED
  BY <1>1, <1>2, InitIInv, NextIInv, PTL DEF Spec, RefinesLists, Abstract!Spec

-----------------------------------------------------------------------------
(* The demo program's older header.                                        *)

\* Writes of different fields can be swapped, and a write undoes an earlier one.
LEMMA WritesCommute ==
  ASSUME NEW m \in Mem, NEW x, NEW y, NEW v, NEW w
  PROVE  /\ SetPrev(SetNext(m, x, v), y, w) = SetNext(SetPrev(m, y, w), x, v)
         /\ SetPrev(SetPrev(m, x, v), x, w) = SetPrev(m, x, w)
BY DEF Mem, SetPrev, SetNext

LEMMA OlderDeletes ==
  ASSUME NEW m \in Mem, NEW e \in Cells, m.next[e] \in Ptr, m.prev[e] \in Ptr
  PROVE  /\ Old!DelBetween(m, m.prev[e], m.next[e]) = DelEntry(m, e)
         /\ SetPrev(Old!list_del(m, e), e, POISON2) = list_del(m, e)
<1> DEFINE x == m.prev[e]
           y == m.next[e]
           d == DelEntry(m, e)
<1>1. Old!DelBetween(m, x, y) = d
  <2>1. SetPrev(SetNext(m, x, y), y, x) = SetNext(SetPrev(m, y, x), x, y)
    BY WritesCommute
  <2> QED BY <2>1 DEF Old!DelBetween, Old!SetPrev, Old!SetNext, DelEntry, DelBetween, SetPrev, SetNext
<1>2. d \in [next : [Cells -> Ptr], prev : [Cells -> Ptr]]
  BY DEF DelEntry, DelBetween, SetPrev, SetNext, Mem
<1> HIDE DEF x, y, d
<1>3. Old!list_del(m, e) = SetPrev(SetNext(d, e, POISON1), e, POISON1)
  BY <1>1 DEF Old!list_del, Old!SetPrev, Old!SetNext, SetPrev, SetNext, x, y
<1>4. SetNext(d, e, POISON1) \in Mem
  BY <1>2 DEF SetNext, Ptr, Mem
<1>5. SetPrev(Old!list_del(m, e), e, POISON2) = SetPrev(SetNext(d, e, POISON1), e, POISON2)
  BY <1>3, <1>4, WritesCommute
<1> QED
  BY <1>1, <1>5 DEF list_del, d, x, y

\* The invariant OlderHeaderAgrees of the runs: the demo's list.h and util_list.h leave the same
\* memory, on every memory of the right types that calls lead to, but for a deleted entry's poison.
THEOREM HeadersAgree == Spec => []OlderHeaderAgrees
<1>1. IInv => OlderHeaderAgrees
  <2> SUFFICES ASSUME IInv PROVE OlderHeaderAgrees
    OBVIOUS
  <2>1. M \in Mem
    BY DEF IInv, Rings
  <2>2. \A e \in Nodes : e \in Cells /\ M.next[e] \in Ptr /\ M.prev[e] \in Ptr
    BY <2>1 DEF Mem, Cells
  <2>3. /\ \A h \in Heads : Old!list_empty(M, h) <=> list_empty(M, h)
        /\ \A n, c : /\ Old!list_add(M, n, c) = list_add(M, n, c)
                     /\ Old!list_add_tail(M, n, c) = list_add_tail(M, n, c)
    BY DEF Old!list_empty, list_empty, Old!list_add, list_add, Old!list_add_tail, list_add_tail,
           Old!AddBetween, AddBetween, Old!SetPrev, Old!SetNext, SetPrev, SetNext
  <2>4. \A g, h : /\ Old!list_splice(M, g, h) = list_splice(M, g, h)
                  /\ Old!list_replace(M, g, h) = list_replace(M, g, h)
                  /\ Old!list_replace_init(M, g, h) = list_replace_init(M, g, h)
    BY DEF Old!list_splice, list_splice, SpliceBetween, Old!list_empty, list_empty,
           Old!list_replace_init, list_replace_init, Old!list_replace, list_replace,
           Old!INIT_LIST_HEAD, INIT_LIST_HEAD, Old!SetPrev, Old!SetNext, SetPrev, SetNext
  <2>5. ASSUME NEW e \in Nodes, NEW h
        PROVE  /\ SetPrev(Old!list_del(M, e), e, POISON2) = list_del(M, e)
               /\ Old!list_move(M, e, h) = list_move(M, e, h)
               /\ Old!list_move_tail(M, e, h) = list_move_tail(M, e, h)
    <3>1. /\ Old!DelBetween(M, M.prev[e], M.next[e]) = DelEntry(M, e)
          /\ SetPrev(Old!list_del(M, e), e, POISON2) = list_del(M, e)
      BY <2>1, <2>2, OlderDeletes
    <3> QED BY <3>1 DEF Old!list_move, list_move, Old!list_move_tail, list_move_tail,
               Old!list_add, list_add, Old!list_add_tail, list_add_tail,
               Old!AddBetween, AddBetween, Old!SetPrev, Old!SetNext, SetPrev, SetNext
  <2> QED BY <2>3, <2>4, <2>5 DEF OlderHeaderAgrees
<1> QED
  BY <1>1, InitIInv, NextIInv, PTL DEF Spec
=============================================================================
