---------------------------- MODULE PartsProofs ----------------------------
(***************************************************************************)
(* The theorems about the parts that do not meet (Parts).                  *)
(*                                                                         *)
(* For any number of heads and nodes, the chains of UtilHlist stay chains  *)
(* under every sequence of calls, their back pointers agree with them, and *)
(* a loop meets what its body leaves there.  The pointers are described by *)
(* the sequences they stand for, one per head; each function of the header *)
(* is a change of one or two of them.                                      *)
(*                                                                         *)
(* For any number of entries, the output of the list demo does not tell    *)
(* that test_set_first has run.                                            *)
(*                                                                         *)
(* For any buffer, any limits and any packets and names that fit, a        *)
(* translated name has its labels in front of the buffer, a name is        *)
(* measured as it is there, and test_seg finds its suffixes.               *)
(*                                                                         *)
(* For any rules, a mask keeps the bits in front of it, and the text of an *)
(* address denotes it; only the encapsulated ones have none.               *)
(***************************************************************************)
EXTENDS Parts, ListLemmas

\* The pointers p stand for the lists L, and the back pointers b agree.
Forward(p, L) ==
  \A h \in Heads : \A i \in 0..Len(L[h]) :
    p[Cell(h, L[h], i)] = IF i = Len(L[h]) THEN NULL ELSE L[h][i + 1]
Back(b, L) ==
  \A h \in Heads : \A i \in 1..Len(L[h]) : b[L[h][i]] = Cell(h, L[h], i - 1)

\* What the two fields of a node hold that is in no list: it was never initialised,
\* it has been deleted, or it was initialised and may have been made a fake list.
Free(next, back, n) ==
  \/ next = UNSET /\ back = UNSET
  \/ next = POISON1 /\ back = POISON2
  \/ next = NULL /\ back \in {NULL, n}
Others(p, b, L) == \A n \in Nodes : Outside(L, n) => Free(p[n], b[n], n)

\* f is a function on S.
On(f, S) == f = [x \in S |-> f[x]]

Chains(m, L) ==
  /\ L \in [Heads -> Seq(Nodes)] /\ Once(L)
  /\ On(m.ptr, Cells) /\ On(m.pprev, Nodes)
  /\ Forward(m.ptr, L) /\ Back(m.pprev, L) /\ Others(m.ptr, m.pprev, L)

-----------------------------------------------------------------------------
(* What each function writes, seen as a change of the lists.               *)

\* m with the pointers p and the back pointers b.
Memory(p, b) == [ptr |-> p, pprev |-> b]

\* Linking a node behind a place.
LEMMA LinkKeeps ==
  ASSUME NEW m, NEW L, Chains(m, L), NEW n \in Nodes, Outside(L, n),
         NEW h \in Heads, NEW q \in 0..Len(L[h]), NEW c, c = Cell(h, L[h], q),
         NEW p, NEW b, On(p, Cells), On(b, Nodes),
         \A x \in Cells : p[x] = IF x = c THEN n ELSE IF x = n THEN m.ptr[c] ELSE m.ptr[x],
         \A x \in Nodes : b[x] = IF x = n THEN c ELSE IF x = m.ptr[c] THEN n ELSE m.pprev[x]
  PROVE  Chains(Memory(p, b), With(L, h, q, n))
<1> DEFINE s == L[h]
           K == With(L, h, q, n)
           t == K[h]
<1>1. /\ L \in [Heads -> Seq(Nodes)] /\ Once(L)
      /\ Forward(m.ptr, L) /\ Back(m.pprev, L) /\ Others(m.ptr, m.pprev, L)
  BY DEF Chains
<1>2. /\ K \in [Heads -> Seq(Nodes)] /\ Once(K) /\ Len(t) = Len(s) + 1
      /\ \A g \in Heads \ {h} : K[g] = L[g]
      /\ \A i \in 0..Len(t) :
           Cell(h, t, i) = IF i <= q THEN Cell(h, s, i)
                           ELSE IF i = q + 1 THEN n ELSE Cell(h, s, i - 1)
  BY <1>1, Inserted
<1>3. K[h] = t /\ \A g \in Heads \ {h} : K[g] = L[g]
  BY <1>2
<1>4. Len(s) \in Nat /\ q \in Nat /\ q <= Len(s)
  BY <1>1, PlacesDiffer
<1>5. \A g \in Heads : \A i \in 0..Len(L[g]) : Cell(g, L[g], i) # n
  <2> TAKE g \in Heads
  <2> TAKE i \in 0..Len(L[g])
  <2>1. CASE i = 0
    BY <2>1, CellsAssumption DEF Cell
  <2>2. CASE i # 0
    BY <1>1, <2>2, PlacesDiffer DEF Cell, Outside
  <2> QED BY <2>1, <2>2
<1>6. \A g \in Heads : \A i \in 0..Len(L[g]) : Cell(g, L[g], i) = c => g = h /\ i = q
  BY <1>1, PlacesDiffer
<1>7. \A g \in Heads : \A i \in 0..Len(L[g]) : Cell(g, L[g], i) \in Cells
  BY <1>1, PlacesDiffer
<1>8. \A g \in Heads : \A i \in 0..Len(L[g]) :
        m.ptr[Cell(g, L[g], i)] = IF i = Len(L[g]) THEN NULL ELSE L[g][i + 1]
  BY <1>1 DEF Forward
<1>9. \A g \in Heads : \A i \in 1..Len(L[g]) :
        m.pprev[L[g][i]] = Cell(g, L[g], i - 1) /\ L[g][i] \in Nodes
  BY <1>1, PlacesDiffer DEF Back
<1>10. m.ptr[c] = IF q = Len(s) THEN NULL ELSE s[q + 1]
  BY <1>8
<1>11. n \in Cells /\ NULL \notin Nodes /\ c \in Cells
  BY <1>7, CellsAssumption DEF Cells
<1> HIDE DEF t, K
<1>12. ASSUME NEW i \in 0..Len(t)
       PROVE  p[Cell(h, t, i)] = IF i = Len(t) THEN NULL ELSE t[i + 1]
  <2>0. i # Len(t) => t[i + 1] = Cell(h, t, i + 1) /\ i + 1 \in 0..Len(t)
    BY <1>2, <1>4 DEF Cell
  <2>1. CASE i < q
    <3>1. i \in 0..Len(s) /\ i # q /\ i # Len(s) /\ i # Len(t) /\ i <= q /\ i + 1 <= q
      BY <1>2, <1>4, <2>1
    <3>2. p[Cell(h, t, i)] = s[i + 1]
      BY <1>2, <1>5, <1>6, <1>7, <1>8, <3>1
    <3>3. t[i + 1] = s[i + 1]
      BY <1>2, <2>0, <3>1 DEF Cell
    <3> QED BY <3>1, <3>2, <3>3
  <2>2. CASE i = q
    <3>1. i # Len(t) /\ i <= q /\ ~ (i + 1 <= q)
      BY <1>2, <1>4, <2>2
    <3>2. t[i + 1] = n
      BY <1>2, <2>0, <2>2, <3>1
    <3>3. Cell(h, t, i) = c
      BY <1>2, <2>2, <3>1
    <3> QED BY <1>11, <3>1, <3>2, <3>3
  <2>3. CASE i = q + 1
    <3>1. ~ (i <= q) /\ (i = Len(t) <=> q = Len(s)) /\ ~ (i + 1 <= q) /\ i + 1 # q + 1
          /\ (i + 1) - 1 = q + 1 /\ q + 1 # 0
      BY <1>2, <1>4, <2>3
    <3>2. Cell(h, t, i) = n
      BY <1>2, <2>3, <3>1
    <3>3. p[n] = m.ptr[c]
      BY <1>5, <1>11
    <3>4. i # Len(t) => t[i + 1] = s[q + 1]
      BY <1>2, <2>0, <3>1 DEF Cell
    <3> QED BY <1>10, <3>1, <3>2, <3>3, <3>4
  <2>4. CASE i > q + 1
    <3>1. /\ i - 1 \in 0..Len(s) /\ i - 1 # q /\ ~ (i <= q) /\ i # q + 1
          /\ (i = Len(t) <=> i - 1 = Len(s)) /\ ~ (i + 1 <= q) /\ i + 1 # q + 1
          /\ (i + 1) - 1 = i /\ i # 0 /\ (i - 1) + 1 = i
      BY <1>2, <1>4, <2>4
    <3>2. p[Cell(h, t, i)] = IF i - 1 = Len(s) THEN NULL ELSE s[i]
      <4> DEFINE j == i - 1
      <4> HIDE DEF j
      <4>1. j \in 0..Len(s) /\ j # q /\ (j = Len(s) <=> i - 1 = Len(s)) /\ j + 1 = i
        BY <3>1 DEF j
      <4>2. Cell(h, t, i) = Cell(h, s, j)
        BY <1>2, <3>1 DEF j
      <4>3. p[Cell(h, s, j)] = m.ptr[Cell(h, s, j)]
        BY <1>5, <1>6, <1>7, <4>1
      <4> QED BY <1>8, <4>1, <4>2, <4>3
    <3>3. i # Len(t) => t[i + 1] = s[i]
      BY <1>2, <2>0, <3>1 DEF Cell
    <3> QED BY <3>1, <3>2, <3>3
  <2> QED BY <1>2, <1>4, <2>1, <2>2, <2>3, <2>4
<1>13. ASSUME NEW i \in 1..Len(t)
       PROVE  b[t[i]] = Cell(h, t, i - 1)
  <2>0. i \in 0..Len(t) /\ i - 1 \in 0..Len(t) /\ t[i] = Cell(h, t, i) /\ i # 0
    BY <1>2, <1>4 DEF Cell
  <2>1. CASE i <= q
    <3>1. i \in 1..Len(s) /\ i - 1 <= q /\ i \in 0..Len(s)
      BY <1>2, <1>4, <2>1
    <3>2. t[i] = s[i] /\ Cell(h, t, i - 1) = Cell(h, s, i - 1)
      BY Zenon, <1>2, <2>0, <2>1, <3>1 DEF Cell
    <3>3. s[i] # n /\ s[i] \in Nodes
      BY <1>9, <3>1 DEF Outside
    <3>4. s[i] # m.ptr[c]
      <4>1. CASE q = Len(s)
        BY <1>10, <1>11, <3>3, <4>1
      <4>2. CASE q # Len(s)
        <5>1. q + 1 \in 1..Len(s) /\ i # q + 1
          BY <1>4, <2>1, <4>2
        <5> QED BY <1>1, <1>10, <3>1, <4>2, <5>1 DEF Once
      <4> QED BY <4>1, <4>2
    <3> QED BY <1>9, <3>1, <3>2, <3>3, <3>4
  <2>2. CASE i = q + 1
    <3>1. t[i] = n /\ Cell(h, t, i - 1) = c
      BY <1>2, <1>4, <2>0, <2>2
    <3> QED BY <3>1
  <2>3. CASE i = q + 2
    <3>1. /\ ~ (i <= q) /\ i # q + 1 /\ i - 1 = q + 1 /\ ~ (q + 1 <= q)
          /\ q # Len(s) /\ q + 1 \in 1..Len(s) /\ q + 1 # 0
      BY <1>2, <1>4, <2>3
    <3>2. t[i] = s[q + 1] /\ Cell(h, t, i - 1) = n
      BY <1>2, <2>0, <3>1 DEF Cell
    <3>3. s[q + 1] = m.ptr[c] /\ s[q + 1] # n /\ s[q + 1] \in Nodes
      BY <1>9, <1>10, <3>1 DEF Outside
    <3> QED BY <3>2, <3>3
  <2>4. CASE i > q + 2
    <3>1. /\ ~ (i <= q) /\ i # q + 1 /\ i - 1 \in 1..Len(s) /\ i - 1 # 0
          /\ ~ (i - 1 <= q) /\ i - 1 # q + 1 /\ (i - 1) - 1 \in 0..Len(s)
      BY <1>2, <1>4, <2>4
    <3>2. t[i] = s[i - 1] /\ Cell(h, t, i - 1) = Cell(h, s, (i - 1) - 1)
      BY Zenon, <1>2, <2>0, <3>1 DEF Cell
    <3>3. s[i - 1] # n /\ s[i - 1] \in Nodes
      BY <1>9, <3>1 DEF Outside
    <3>4. s[i - 1] # m.ptr[c]
      <4>1. CASE q = Len(s)
        BY <1>10, <1>11, <3>3, <4>1
      <4>2. CASE q # Len(s)
        <5>1. q + 1 \in 1..Len(s)
          BY <1>4, <4>2
        <5> QED BY <1>1, <1>10, <3>1, <4>2, <5>1 DEF Once
      <4> QED BY <4>1, <4>2
    <3> QED BY <1>9, <3>1, <3>2, <3>3, <3>4
  <2> QED BY <1>2, <1>4, <2>1, <2>2, <2>3, <2>4
<1>14. Forward(p, K)
  <2> SUFFICES ASSUME NEW g \in Heads, NEW i \in 0..Len(K[g])
               PROVE  p[Cell(g, K[g], i)] = IF i = Len(K[g]) THEN NULL ELSE K[g][i + 1]
    BY DEF Forward
  <2>1. CASE g = h
    BY <1>3, <1>12, <2>1
  <2>2. CASE g # h
    BY <1>3, <1>5, <1>6, <1>7, <1>8, <2>2
  <2> QED BY <2>1, <2>2
<1>15. Back(b, K)
  <2> SUFFICES ASSUME NEW g \in Heads, NEW i \in 1..Len(K[g])
               PROVE  b[K[g][i]] = Cell(g, K[g], i - 1)
    BY DEF Back
  <2>1. CASE g = h
    BY <1>3, <1>13, <2>1
  <2>2. CASE g # h
    <3>1. i \in 1..Len(L[g]) /\ K[g] = L[g]
      BY <1>3, <2>2
    <3>2. L[g][i] # n /\ L[g][i] \in Nodes
      BY <1>9, <3>1 DEF Outside
    <3>3. L[g][i] # m.ptr[c]
      <4>1. CASE q = Len(s)
        BY <1>10, <1>11, <3>2, <4>1
      <4>2. CASE q # Len(s)
        <5>1. q + 1 \in 1..Len(s)
          BY <1>4, <4>2
        <5> QED BY <1>1, <1>10, <2>2, <3>1, <4>2, <5>1 DEF Once
      <4> QED BY <4>1, <4>2
    <3> QED BY <1>9, <3>1, <3>2, <3>3
  <2> QED BY <2>1, <2>2
<1>16. ASSUME NEW x \in Nodes, Outside(K, x)
       PROVE  Outside(L, x) /\ x # n
  <2>1. q + 1 \in 1..Len(K[h]) /\ K[h][q + 1] = n
    <3>1. q + 1 \in 0..Len(t) /\ ~ (q + 1 <= q) /\ q + 1 # 0 /\ q + 1 \in 1..Len(t)
      BY <1>2, <1>4
    <3> QED BY <1>2, <1>3, <3>1 DEF Cell
  <2>2. x # n
    BY <1>16, <2>1 DEF Outside
  <2>3. ASSUME NEW g \in Heads, NEW i \in 1..Len(L[g]), L[g][i] = x PROVE FALSE
    <3>1. CASE g # h
      BY <1>3, <1>16, <2>3, <3>1 DEF Outside
    <3>2. CASE g = h /\ i <= q
      <4>1. i \in 1..Len(t) /\ i \in 0..Len(t) /\ i # 0
        BY <1>2, <1>4, <3>2
      <4>2. t[i] = s[i]
        BY <1>2, <3>2, <4>1 DEF Cell
      <4> QED BY <1>3, <1>16, <2>3, <3>2, <4>1, <4>2 DEF Outside
    <3>3. CASE g = h /\ i > q
      <4>1. /\ i + 1 \in 1..Len(t) /\ i + 1 \in 0..Len(t) /\ i + 1 # 0 /\ ~ (i + 1 <= q)
            /\ i + 1 # q + 1 /\ (i + 1) - 1 = i /\ i # 0
        BY <1>2, <1>4, <3>3
      <4>2. t[i + 1] = s[i]
        BY <1>2, <4>1 DEF Cell
      <4> QED BY <1>3, <1>16, <2>3, <3>3, <4>1, <4>2 DEF Outside
    <3> QED BY <1>4, <3>1, <3>2, <3>3
  <2> QED BY <2>2, <2>3 DEF Outside
<1>17. Others(p, b, K)
  <2> SUFFICES ASSUME NEW x \in Nodes, Outside(K, x)
               PROVE  Free(p[x], b[x], x)
    BY DEF Others
  <2>1. Outside(L, x) /\ x # n
    BY <1>16
  <2>2. x # c
    <3>1. q # 0 => q \in 1..Len(s) /\ c = s[q]
      BY <1>4 DEF Cell
    <3>2. q = 0 => c \in Heads
      BY DEF Cell
    <3> QED BY <2>1, <3>1, <3>2, CellsAssumption DEF Outside
  <2>3. x # m.ptr[c]
    <3>1. q # Len(s) => q + 1 \in 1..Len(s)
      BY <1>4
    <3> QED BY <1>10, <1>11, <2>1, <3>1 DEF Outside
  <2>4. x \in Cells
    BY DEF Cells
  <2>5. p[x] = m.ptr[x] /\ b[x] = m.pprev[x]
    BY <2>1, <2>2, <2>3, <2>4
  <2> QED BY <1>1, <2>1, <2>5 DEF Others
<1> QED
  BY <1>2, <1>14, <1>15, <1>17 DEF Chains, Memory, K

\* Taking the node behind a place out.
LEMMA UnlinkKeeps ==
  ASSUME NEW m, NEW L, Chains(m, L), NEW h \in Heads, NEW q \in 1..Len(L[h]),
         NEW n, n = L[h][q], NEW c, c = Cell(h, L[h], q - 1),
         NEW p, NEW b, On(p, Cells), On(b, Nodes),
         \A x \in Cells \ {n} : p[x] = IF x = c THEN m.ptr[n] ELSE m.ptr[x],
         \A x \in Nodes \ {n} : b[x] = IF x = m.ptr[n] THEN c ELSE m.pprev[x],
         Free(p[n], b[n], n)
  PROVE  Chains(Memory(p, b), Less(L, h, q))
<1> DEFINE s == L[h]
           K == Less(L, h, q)
           t == K[h]
           o(i) == IF i < q THEN i ELSE i + 1
<1>1. /\ L \in [Heads -> Seq(Nodes)] /\ Once(L)
      /\ Forward(m.ptr, L) /\ Back(m.pprev, L) /\ Others(m.ptr, m.pprev, L)
  BY DEF Chains
<1>2. /\ K \in [Heads -> Seq(Nodes)] /\ Once(K) /\ Len(t) = Len(s) - 1
      /\ \A g \in Heads \ {h} : K[g] = L[g]
      /\ \A i \in 0..Len(t) : Cell(h, t, i) = Cell(h, s, o(i))
      /\ Outside(K, n)
  BY <1>1, Removed
<1>3. Len(s) \in Nat /\ q \in Nat /\ 1 <= q /\ q <= Len(s)
  BY <1>1, PlacesDiffer
<1>4. /\ \A g \in Heads : \A i \in 0..Len(L[g]) : Cell(g, L[g], i) \in Cells
      /\ \A f, g \in Heads : \A i \in 0..Len(L[f]), j \in 0..Len(L[g]) :
           Cell(f, L[f], i) = Cell(g, L[g], j) => f = g /\ i = j
  BY Zenon, <1>1, PlacesDiffer
<1>5. n = Cell(h, s, q) /\ n \in Nodes
  BY <1>1, <1>3, PlacesDiffer DEF Cell
<1>6. \A g \in Heads : \A i \in 0..Len(L[g]) :
        m.ptr[Cell(g, L[g], i)] = IF i = Len(L[g]) THEN NULL ELSE L[g][i + 1]
  BY <1>1 DEF Forward
<1>7. \A g \in Heads : \A i \in 1..Len(L[g]) :
        m.pprev[L[g][i]] = Cell(g, L[g], i - 1) /\ L[g][i] \in Nodes
  BY <1>1, PlacesDiffer DEF Back
<1>8. m.ptr[n] = IF q = Len(s) THEN NULL ELSE s[q + 1]
  BY <1>3, <1>5, <1>6
<1>9. \A g \in Heads : \A i \in 0..Len(L[g]) :
        /\ Cell(g, L[g], i) = n => g = h /\ i = q
        /\ Cell(g, L[g], i) = c => g = h /\ i = q - 1
  BY <1>3, <1>4, <1>5
<1> HIDE DEF K
<1>10. ASSUME NEW i \in 0..Len(t)
       PROVE  p[Cell(h, t, i)] = IF i = Len(t) THEN NULL ELSE t[i + 1]
  <2>1. i # Len(t) => t[i + 1] = s[o(i + 1)]
    <3>1. i # Len(t) => /\ i + 1 \in 0..Len(t) /\ i + 1 # 0
                        /\ o(i + 1) # 0
      BY <1>2, <1>3
    <3> QED BY Zenon, <1>2, <3>1 DEF Cell
  <2>2. o(i) \in 0..Len(s) /\ o(i) # q /\ (i = q - 1 <=> o(i) = q - 1)
    BY <1>2, <1>3
  <2>3. CASE i = q - 1
    <3>1. Cell(h, t, i) = c /\ c # n /\ c \in Cells
      BY <1>2, <1>3, <1>4, <1>9, <2>2, <2>3
    <3>2. p[c] = m.ptr[n]
      BY <3>1
    <3>3. (i = Len(t) <=> q = Len(s)) /\ o(i + 1) = q + 1
      BY <1>2, <1>3, <2>3
    <3> QED BY <1>8, <2>1, <3>1, <3>2, <3>3
  <2>4. CASE i # q - 1
    <3>1. (i = Len(t) <=> o(i) = Len(s)) /\ o(i + 1) = o(i) + 1
      BY <1>2, <1>3, <2>4
    <3> HIDE DEF o
    <3> DEFINE x == Cell(h, s, o(i))
    <3>2. x \in Cells /\ x # n /\ x # c
      BY <1>4, <1>9, <2>2, <2>4
    <3>3. m.ptr[x] = IF o(i) = Len(s) THEN NULL ELSE s[o(i) + 1]
      BY <1>6, <2>2
    <3> QED BY <1>2, <2>1, <3>1, <3>2, <3>3
  <2> QED BY <2>3, <2>4
<1>11. ASSUME NEW g \in Heads, NEW i \in 1..Len(L[g]), L[g][i] # n,
              ~ (g = h /\ i = q + 1)
       PROVE  b[L[g][i]] = Cell(g, L[g], i - 1)
  <2>1. L[g][i] # m.ptr[n]
    <3>1. CASE q = Len(s)
      BY <1>7, <1>8, <3>1, CellsAssumption
    <3>2. CASE q # Len(s)
      <4>1. q + 1 \in 1..Len(s)
        BY <1>3, <3>2
      <4> QED BY <1>1, <1>8, <1>11, <3>2, <4>1 DEF Once
    <3> QED BY <3>1, <3>2
  <2> QED BY Zenon, <1>7, <1>11, <2>1
<1>12. ASSUME NEW i \in 1..Len(t)
       PROVE  b[t[i]] = Cell(h, t, i - 1)
  <2>1. i \in 0..Len(t) /\ i - 1 \in 0..Len(t) /\ i # 0 /\ o(i) # 0
        /\ o(i) \in 1..Len(s) /\ o(i) # q
    BY <1>2, <1>3
  <2>2. t[i] = s[o(i)] /\ Cell(h, t, i - 1) = Cell(h, s, o(i - 1))
    BY <1>2, <2>1 DEF Cell
  <2>3. s[o(i)] # n
    BY <1>1, <2>1 DEF Once
  <2>4. CASE i = q
    <3>1. o(i) = q + 1 /\ o(i - 1) = q - 1 /\ q # Len(s)
      BY <1>3, <2>1, <2>4
    <3>2. s[q + 1] = m.ptr[n] /\ s[q + 1] \in Nodes
      BY <1>7, <1>8, <2>1, <3>1
    <3> QED BY <2>2, <2>3, <3>1, <3>2
  <2>5. CASE i # q
    <3>0. i \in Nat
      BY <1>2, <1>3
    <3>1. o(i - 1) = o(i) - 1 /\ o(i) # q + 1
      BY <1>3, <2>5, <3>0
    <3>2. b[L[h][o(i)]] = Cell(h, L[h], o(i) - 1)
      BY Zenon, <1>11, <2>1, <2>3, <3>1
    <3> HIDE DEF o
    <3> QED BY <2>2, <3>1, <3>2
  <2> QED BY <2>4, <2>5
<1>13. Forward(p, K)
  <2> SUFFICES ASSUME NEW g \in Heads, NEW i \in 0..Len(K[g])
               PROVE  p[Cell(g, K[g], i)] = IF i = Len(K[g]) THEN NULL ELSE K[g][i + 1]
    BY DEF Forward
  <2>1. CASE g = h
    BY <1>10, <2>1
  <2>2. CASE g # h
    <3>1. K[g] = L[g] /\ Cell(g, L[g], i) # n /\ Cell(g, L[g], i) # c /\ Cell(g, L[g], i) \in Cells
      BY <1>2, <1>4, <1>9, <2>2
    <3> QED BY <1>6, <3>1
  <2> QED BY <2>1, <2>2
<1>14. Back(b, K)
  <2> SUFFICES ASSUME NEW g \in Heads, NEW i \in 1..Len(K[g])
               PROVE  b[K[g][i]] = Cell(g, K[g], i - 1)
    BY DEF Back
  <2>1. CASE g = h
    BY <1>12, <2>1
  <2>2. CASE g # h
    <3>1. K[g] = L[g] /\ i \in 1..Len(L[g])
      BY <1>2, <2>2
    <3>2. L[g][i] # n
      BY <1>1, <2>2, <3>1 DEF Once
    <3> QED BY <1>11, <2>2, <3>1, <3>2
  <2> QED BY <2>1, <2>2
<1>15. ASSUME NEW x \in Nodes, x # n, Outside(K, x)
       PROVE  Outside(L, x)
  <2> SUFFICES ASSUME NEW g \in Heads, NEW i \in 1..Len(L[g]), L[g][i] = x PROVE FALSE
    BY DEF Outside
  <2>1. CASE g # h
    BY <1>2, <1>15, <2>1 DEF Outside
  <2>2. CASE g = h
    <3> DEFINE j == IF i < q THEN i ELSE i - 1
    <3>1. i # q
      BY <1>15, <2>2
    <3>2. j \in 1..Len(t) /\ j \in 0..Len(t) /\ o(j) = i /\ j # 0 /\ i # 0
      BY <1>2, <1>3, <2>2, <3>1
    <3>3. t[j] = s[i]
      <4>1. Cell(h, t, j) = Cell(h, s, o(j))
        BY Zenon, <1>2, <3>2
      <4> HIDE DEF j, o
      <4> QED BY <3>2, <4>1 DEF Cell
    <3>4. t[j] # x
      <4> HIDE DEF j
      <4> QED BY <1>15, <3>2 DEF Outside
    <3> QED BY <2>2, <3>3, <3>4
  <2> QED BY <2>1, <2>2
<1>16. Others(p, b, K)
  <2> SUFFICES ASSUME NEW x \in Nodes, x # n, Outside(K, x)
               PROVE  Free(p[x], b[x], x)
    BY DEF Others
  <2>1. Outside(L, x)
    BY <1>15
  <2>2. x # c
    <3>1. q - 1 # 0 => q - 1 \in 1..Len(s) /\ c = s[q - 1]
      BY <1>3 DEF Cell
    <3>2. q - 1 = 0 => c \in Heads
      BY DEF Cell
    <3> QED BY <2>1, <3>1, <3>2, CellsAssumption DEF Outside
  <2>3. x # m.ptr[n]
    <3>1. q # Len(s) => q + 1 \in 1..Len(s)
      BY <1>3
    <3> QED BY <1>8, <2>1, <3>1, CellsAssumption DEF Outside
  <2>4. p[x] = m.ptr[x] /\ b[x] = m.pprev[x]
    BY <2>2, <2>3 DEF Cells
  <2> QED BY <1>1, <2>1, <2>4 DEF Others
<1> QED
  BY <1>2, <1>13, <1>14, <1>16 DEF Chains, Memory, K

\* Changing a node that is in no list.
LEMMA OutsideKeeps ==
  ASSUME NEW m, NEW L, Chains(m, L), NEW n \in Nodes, Outside(L, n),
         NEW p, NEW b, On(p, Cells), On(b, Nodes),
         \A x \in Cells \ {n} : p[x] = m.ptr[x],
         \A x \in Nodes \ {n} : b[x] = m.pprev[x],
         Free(p[n], b[n], n)
  PROVE  Chains(Memory(p, b), L)
<1>1. /\ L \in [Heads -> Seq(Nodes)] /\ Once(L)
      /\ Forward(m.ptr, L) /\ Back(m.pprev, L) /\ Others(m.ptr, m.pprev, L)
  BY DEF Chains
<1>2. /\ \A g \in Heads : Len(L[g]) \in Nat
      /\ \A g \in Heads : \A i \in 1..Len(L[g]) : L[g][i] \in Nodes \ {n}
      /\ \A g \in Heads : \A i \in 0..Len(L[g]) : Cell(g, L[g], i) \in Cells
  BY <1>1, PlacesDiffer DEF Outside
<1>3. \A g \in Heads : \A i \in 0..Len(L[g]) : Cell(g, L[g], i) \in Cells \ {n}
  <2> TAKE g \in Heads
  <2> TAKE i \in 0..Len(L[g])
  <2>1. i # 0 => i \in 1..Len(L[g])
    BY <1>2
  <2> QED BY <1>2, <2>1, CellsAssumption DEF Cell
<1>4. Forward(p, L)
  BY <1>1, <1>3 DEF Forward
<1>5. Back(b, L)
  BY <1>1, <1>2 DEF Back
<1>6. Others(p, b, L)
  BY <1>1 DEF Others, Cells
<1> QED
  BY <1>1, <1>4, <1>5, <1>6 DEF Chains, Memory

\* Giving a list to an empty head.
LEMMA GivenKeeps ==
  ASSUME NEW m, NEW L, Chains(m, L), NEW g \in Heads, NEW h \in Heads, g # h, L[h] = <<>>,
         NEW p, NEW b, On(p, Cells), On(b, Nodes),
         \A x \in Cells : p[x] = IF x = h THEN m.ptr[g] ELSE IF x = g THEN NULL ELSE m.ptr[x],
         \A x \in Nodes : b[x] = IF x = m.ptr[g] THEN h ELSE m.pprev[x]
  PROVE  Chains(Memory(p, b), Given(L, g, h))
<1> DEFINE K == Given(L, g, h)
<1>1. /\ L \in [Heads -> Seq(Nodes)] /\ Once(L)
      /\ Forward(m.ptr, L) /\ Back(m.pprev, L) /\ Others(m.ptr, m.pprev, L)
  BY DEF Chains
<1>2. K \in [Heads -> Seq(Nodes)] /\ K[h] = L[g] /\ K[g] = <<>> /\ Len(K[g]) = 0
      /\ \A f \in Heads \ {g, h} : K[f] = L[f]
  BY <1>1 DEF Given
<1>3. /\ \A f \in Heads : Len(L[f]) \in Nat
      /\ \A f \in Heads : \A i \in 1..Len(L[f]) : L[f][i] \in Nodes
  BY <1>1, PlacesDiffer
<1>4. m.ptr[g] = IF Len(L[g]) = 0 THEN NULL ELSE L[g][1]
  <2>1. 0 \in 0..Len(L[g]) /\ Cell(g, L[g], 0) = g
    BY <1>3 DEF Cell
  <2> QED BY <1>1, <1>3, <2>1 DEF Forward
<1> HIDE DEF K
<1> DEFINE o(f) == IF f = h THEN g ELSE f
<1>5. \A f \in Heads : o(f) \in Heads /\ (f # g => K[f] = L[o(f)]) /\ (f = g => Len(K[f]) = 0)
  BY <1>2
<1>6. Once(K)
  <2> SUFFICES ASSUME NEW e \in Heads, NEW f \in Heads,
                      NEW i \in 1..Len(K[e]), NEW j \in 1..Len(K[f]), K[e][i] = K[f][j]
               PROVE  e = f /\ i = j
    BY DEF Once
  <2>1. e # g /\ f # g
    BY <1>5
  <2>2. o(e) = o(f) /\ i = j
    <3> HIDE DEF o
    <3> QED BY <1>1, <1>5, <2>1 DEF Once
  <2> QED BY <2>1, <2>2
<1>7. Forward(p, K)
  <2> SUFFICES ASSUME NEW f \in Heads, NEW i \in 0..Len(K[f])
               PROVE  p[Cell(f, K[f], i)] = IF i = Len(K[f]) THEN NULL ELSE K[f][i + 1]
    BY DEF Forward
  <2>1. CASE i # 0
    <3>1. f # g /\ i \in 1..Len(L[o(f)]) /\ i \in 0..Len(L[o(f)])
      BY <1>3, <1>5, <2>1
    <3>2. L[o(f)][i] \in Nodes /\ L[o(f)][i] \in Cells \ Heads
      BY <1>3, <1>5, <3>1, CellsAssumption DEF Cells
    <3>3. m.ptr[L[o(f)][i]] = IF i = Len(L[o(f)]) THEN NULL ELSE L[o(f)][i + 1]
      <4> HIDE DEF o
      <4> QED BY <1>1, <1>5, <2>1, <3>1 DEF Forward, Cell
    <3> QED BY <1>5, <2>1, <3>1, <3>2, <3>3 DEF Cell
  <2>2. CASE i = 0 /\ f \in {g, h}
    BY <1>2, <1>4, <2>2 DEF Cell, Cells
  <2>3. CASE i = 0 /\ f \notin {g, h}
    <3>1. m.ptr[f] = IF 0 = Len(L[f]) THEN NULL ELSE L[f][0 + 1]
      BY <1>1, <1>3, <2>3 DEF Forward, Cell
    <3> QED BY <1>2, <2>3, <3>1 DEF Cell, Cells
  <2> QED BY <2>1, <2>2, <2>3
<1>8. Back(b, K)
  <2> SUFFICES ASSUME NEW f \in Heads, NEW i \in 1..Len(K[f])
               PROVE  b[K[f][i]] = Cell(f, K[f], i - 1)
    BY DEF Back
  <2>1. f # g /\ i \in 1..Len(L[o(f)]) /\ K[f] = L[o(f)] /\ i \in Nat
    BY <1>3, <1>5
  <2>2. L[o(f)][i] \in Nodes /\ m.pprev[L[o(f)][i]] = Cell(o(f), L[o(f)], i - 1)
    BY <1>1, <1>3, <1>5, <2>1 DEF Back
  <2>3. L[o(f)][i] = m.ptr[g] <=> f = h /\ i = 1
    <3>1. CASE Len(L[g]) = 0
      BY <1>4, <2>1, <2>2, <3>1, CellsAssumption
    <3>2. CASE Len(L[g]) # 0
      <4>1. 1 \in 1..Len(L[g]) /\ m.ptr[g] = L[g][1]
        BY <1>3, <1>4, <3>2
      <4>2. L[o(f)][i] = L[g][1] <=> o(f) = g /\ i = 1
        <5> HIDE DEF o
        <5> QED BY <1>1, <1>5, <2>1, <4>1 DEF Once
      <4> QED BY <2>1, <4>1, <4>2
    <3> QED BY <3>1, <3>2
  <2>4. CASE i = 1
    BY <2>1, <2>2, <2>3, <2>4 DEF Cell
  <2>5. CASE i # 1
    BY <2>1, <2>2, <2>3, <2>5 DEF Cell
  <2> QED BY <2>4, <2>5
<1>9. Others(p, b, K)
  <2> SUFFICES ASSUME NEW x \in Nodes, Outside(K, x)
               PROVE  Free(p[x], b[x], x)
    BY DEF Others
  <2>1. Outside(L, x)
    <3> SUFFICES ASSUME NEW f \in Heads, NEW i \in 1..Len(L[f]) PROVE L[f][i] # x
      BY DEF Outside
    <3> DEFINE e == IF f = g THEN h ELSE f
    <3>1. f # h
      OBVIOUS
    <3>2. e \in Heads /\ K[e] = L[f]
      BY <1>2, <3>1
    <3> QED BY <3>2 DEF Outside
  <2>2. x # m.ptr[g]
    BY <1>3, <1>4, <2>1, CellsAssumption DEF Outside
  <2>3. x \in Cells /\ x # g /\ x # h
    BY CellsAssumption DEF Cells
  <2> QED BY <1>1, <2>1, <2>2, <2>3 DEF Others
<1> QED
  BY <1>2, <1>6, <1>7, <1>8, <1>9 DEF Chains, Memory, K

-----------------------------------------------------------------------------
(* What the functions of the header write.                                 *)

Put(f, x, v) == [f EXCEPT ![x] = v]

LEMMA Writes ==
  ASSUME NEW p, NEW b, NEW x, NEW v
  PROVE  /\ Memory(p, b).ptr = p /\ Memory(p, b).pprev = b
         /\ SetPtr(Memory(p, b), x, v) = Memory(Put(p, x, v), b)
         /\ SetPprev(Memory(p, b), x, v) = Memory(p, Put(b, x, v))
BY DEF Memory, SetPtr, SetPprev, Put

LEMMA PutValues ==
  ASSUME NEW S, NEW f, On(f, S), NEW x, NEW v
  PROVE  /\ On(Put(f, x, v), S)
         /\ \A y \in S : Put(f, x, v)[y] = IF y = x THEN v ELSE f[y]
<1>1. f = [y \in S |-> f[y]]
  BY DEF On
<1>2. Put(f, x, v) = [y \in S |-> IF y = x THEN v ELSE f[y]]
  BY <1>1 DEF Put
<1> QED
  BY <1>2 DEF On

\* The next of a place is a node behind it, or NULL.
LEMMA NextOfPlace ==
  ASSUME NEW m, NEW L, Chains(m, L), NEW h \in Heads, NEW q \in 0..Len(L[h])
  PROVE  LET c == Cell(h, L[h], q)
         IN  /\ c \in Cells /\ (q # 0 => c \in Nodes /\ c = L[h][q])
             /\ m.ptr[c] = IF q = Len(L[h]) THEN NULL ELSE L[h][q + 1]
             /\ q # Len(L[h]) => /\ q + 1 \in 1..Len(L[h]) /\ m.ptr[c] \in Nodes
                                 /\ m.ptr[c] # c /\ m.ptr[c] # NULL
<1> DEFINE s == L[h]
           c == Cell(h, s, q)
<1>1. /\ L \in [Heads -> Seq(Nodes)] /\ Once(L) /\ Forward(m.ptr, L)
  BY DEF Chains
<1>2. Len(s) \in Nat /\ c \in Cells /\ \A i \in 1..Len(s) : s[i] \in Nodes
  BY <1>1, PlacesDiffer
<1>3. q # 0 => q \in 1..Len(s) /\ c \in Nodes /\ c = s[q]
  BY <1>2 DEF Cell
<1>4. m.ptr[c] = IF q = Len(s) THEN NULL ELSE s[q + 1]
  BY <1>1 DEF Forward
<1>5. ASSUME q # Len(s)
      PROVE  q + 1 \in 1..Len(s) /\ s[q + 1] \in Nodes /\ s[q + 1] # c /\ s[q + 1] # NULL
  <2>1. q + 1 \in 1..Len(s) /\ q + 1 # q
    BY <1>2, <1>5
  <2>2. q = 0 => c \in Heads
    BY DEF Cell
  <2>3. s[q + 1] \in Nodes
    BY <1>2, <2>1
  <2>4. q # 0 => s[q + 1] # s[q]
    BY <1>1, <1>3, <2>1 DEF Once
  <2> QED BY <1>3, <2>1, <2>2, <2>3, <2>4, CellsAssumption
<1> QED
  BY <1>2, <1>3, <1>4, <1>5

\* hlist_add_head and hlist_add_behind.
LEMMA AddAfterChains ==
  ASSUME NEW p, NEW b, NEW L, Chains(Memory(p, b), L), NEW n \in Nodes, Outside(L, n),
         NEW h \in Heads, NEW q \in 0..Len(L[h]), NEW c, c = Cell(h, L[h], q)
  PROVE  Chains(AddAfter(Memory(p, b), n, c), With(L, h, q, n))
<1> DEFINE first == p[c]
           p1 == Put(Put(p, n, first), c, n)
           b1 == Put(b, n, c)
           b2 == IF first = NULL THEN b1 ELSE Put(b1, first, n)
<1>1. AddAfter(Memory(p, b), n, c) = Memory(p1, b2)
  <2>1. Memory(p, b).ptr[c] = first
    BY Writes
  <2>2. SetPprev(SetPtr(SetPtr(Memory(p, b), n, first), c, n), n, c) = Memory(p1, b1)
    BY Writes
  <2>3. SetPprev(Memory(p1, b1), first, n) = Memory(p1, Put(b1, first, n))
    BY Writes
  <2> HIDE DEF first, p1, b1
  <2> QED BY <2>1, <2>2, <2>3 DEF AddAfter
<1>2. On(p, Cells) /\ On(b, Nodes) /\ Memory(p, b).ptr = p /\ Memory(p, b).pprev = b
  BY Zenon, Writes DEF Chains
<1> HIDE DEF first
<1>3. /\ c \in Cells /\ (q # 0 => c = L[h][q])
      /\ first = NULL \/ (first \in Nodes /\ first # c /\ first # NULL)
      /\ first # NULL => q + 1 \in 1..Len(L[h]) /\ first = L[h][q + 1]
  BY <1>2, NextOfPlace DEF first
<1>4. n \in Cells /\ n # c /\ n # first /\ NULL \notin Nodes
  <2>1. q # 0 => q \in 1..Len(L[h])
    BY PlacesDiffer DEF Chains
  <2>2. q = 0 => c \in Heads
    BY DEF Cell
  <2>3. NULL \notin Nodes /\ n \notin Heads /\ n \in Cells
    BY CellsAssumption DEF Cells
  <2> QED BY <1>3, <2>1, <2>2, <2>3 DEF Outside
<1>5. On(p1, Cells) /\ On(b2, Nodes)
  BY <1>2, PutValues
<1>6. \A x \in Cells : p1[x] = IF x = c THEN n ELSE IF x = n THEN first ELSE p[x]
  BY <1>2, PutValues
<1>7. \A x \in Nodes : b2[x] = IF x = n THEN c ELSE IF x = first THEN n ELSE b[x]
  BY <1>2, <1>3, <1>4, PutValues
<1> HIDE DEF p1, b1, b2
<1>8. Chains(Memory(p1, b2), With(L, h, q, n))
  BY <1>2, <1>5, <1>6, <1>7, LinkKeeps DEF first
<1> QED
  BY <1>1, <1>8

\* hlist_add_before.
LEMMA AddBeforeChains ==
  ASSUME NEW p, NEW b, NEW L, Chains(Memory(p, b), L), NEW n \in Nodes, Outside(L, n),
         NEW h \in Heads, NEW q \in 1..Len(L[h]), NEW nxt, nxt = L[h][q]
  PROVE  Chains(hlist_add_before(Memory(p, b), n, nxt), With(L, h, q - 1, n))
<1> DEFINE c == b[nxt]
           p1 == Put(Put(p, n, nxt), c, n)
           b1 == Put(Put(b, n, c), nxt, n)
<1>1. On(p, Cells) /\ On(b, Nodes) /\ Memory(p, b).ptr = p /\ Memory(p, b).pprev = b
  BY Zenon, Writes DEF Chains
<1>2. Len(L[h]) \in Nat /\ q - 1 \in 0..Len(L[h]) /\ q - 1 # Len(L[h]) /\ (q - 1) + 1 = q
  BY PlacesDiffer DEF Chains
<1>3. c = Cell(h, L[h], q - 1)
  BY <1>1 DEF Chains, Back
<1> HIDE DEF c
<1>4. /\ c \in Cells /\ (q - 1 # 0 => q - 1 \in 1..Len(L[h]) /\ c = L[h][q - 1])
      /\ (q - 1 = 0 => c \in Heads)
      /\ p[c] = nxt /\ nxt \in Nodes /\ nxt # c
  <2>1. \A i \in 0..Len(L[h]) : i # 0 => i \in 1..Len(L[h])
    BY <1>2
  <2>2. q - 1 = 0 => c \in Heads
    BY <1>3 DEF Cell
  <2> QED BY <1>1, <1>2, <1>3, <2>1, <2>2, NextOfPlace
<1>5. n \in Cells /\ n \notin Heads /\ n # nxt /\ n # c
  <2>1. n \in Cells /\ n \notin Heads
    BY CellsAssumption DEF Cells
  <2> QED BY <1>4, <2>1 DEF Outside
<1>6. hlist_add_before(Memory(p, b), n, nxt) = Memory(p1, b1)
  <2>1. SetPprev(SetPtr(SetPprev(Memory(p, b), n, c), n, nxt), nxt, n) = Memory(Put(p, n, nxt), b1)
    BY Writes
  <2>2. Memory(Put(p, n, nxt), b1).pprev[n] = c
    <3>1. b1[n] = c
      BY <1>1, <1>5, PutValues
    <3> HIDE DEF b1
    <3> QED BY <3>1, Writes
  <2>3. SetPtr(Memory(Put(p, n, nxt), b1), c, n) = Memory(p1, b1)
    BY Writes
  <2>4. Memory(p, b).pprev[nxt] = c
    BY <1>1 DEF c
  <2> HIDE DEF p1, b1
  <2> QED BY <2>1, <2>2, <2>3, <2>4 DEF hlist_add_before
<1>7. On(p1, Cells) /\ On(b1, Nodes)
  BY <1>1, PutValues
<1>8. \A x \in Cells : p1[x] = IF x = c THEN n ELSE IF x = n THEN p[c] ELSE p[x]
  BY <1>1, <1>4, PutValues
<1>9. \A x \in Nodes : b1[x] = IF x = n THEN c ELSE IF x = p[c] THEN n ELSE b[x]
  BY <1>1, <1>4, <1>5, PutValues
<1> HIDE DEF p1, b1
<1>10. Chains(Memory(p1, b1), With(L, h, q - 1, n))
  BY <1>1, <1>2, <1>3, <1>7, <1>8, <1>9, LinkKeeps
<1> QED
  BY <1>6, <1>10

\* hlist_del and hlist_del_init of a node of a list.
LEMMA UnlinkChains ==
  ASSUME NEW p, NEW b, NEW L, Chains(Memory(p, b), L), NEW h \in Heads, NEW q \in 1..Len(L[h]),
         NEW n, n = L[h][q], NEW v, NEW w, Free(v, w, n)
  PROVE  Chains(SetPprev(SetPtr(Unlink(Memory(p, b), n), n, v), n, w), Less(L, h, q))
<1> DEFINE c  == b[n]
           nx == p[n]
           p1 == Put(Put(p, c, nx), n, v)
           b1 == IF nx = NULL THEN b ELSE Put(b, nx, c)
           b2 == Put(b1, n, w)
<1>1. On(p, Cells) /\ On(b, Nodes) /\ Memory(p, b).ptr = p /\ Memory(p, b).pprev = b
  BY Zenon, Writes DEF Chains
<1>2. Len(L[h]) \in Nat /\ q \in 0..Len(L[h]) /\ q # 0
  BY PlacesDiffer DEF Chains
<1>3. c = Cell(h, L[h], q - 1)
  BY <1>1 DEF Chains, Back
<1>4. n = Cell(h, L[h], q)
  BY <1>2 DEF Cell
<1>5. n \in Cells /\ n \in Nodes /\ (nx = NULL \/ (nx \in Nodes /\ nx # NULL))
  BY <1>1, <1>2, <1>4, NextOfPlace
<1> HIDE DEF c, nx
<1>6. SetPprev(SetPtr(Unlink(Memory(p, b), n), n, v), n, w) = Memory(p1, b2)
  <2>1. Memory(p, b).pprev[n] = c /\ Memory(p, b).ptr[n] = nx
    BY <1>1 DEF c, nx
  <2>2. SetPtr(Memory(p, b), c, nx) = Memory(Put(p, c, nx), b)
    BY Writes
  <2>3. SetPprev(Memory(Put(p, c, nx), b), nx, c) = Memory(Put(p, c, nx), Put(b, nx, c))
    BY Writes
  <2>4. Unlink(Memory(p, b), n) = Memory(Put(p, c, nx), b1)
    BY <2>1, <2>2, <2>3 DEF Unlink
  <2> HIDE DEF b1
  <2>5. SetPprev(SetPtr(Memory(Put(p, c, nx), b1), n, v), n, w) = Memory(p1, b2)
    BY Writes
  <2> HIDE DEF p1, b2
  <2> QED BY <2>4, <2>5
<1>7. On(p1, Cells) /\ On(b1, Nodes) /\ On(b2, Nodes)
  BY <1>1, PutValues
<1>8. \A x \in Cells \ {n} : p1[x] = IF x = c THEN nx ELSE p[x]
  BY <1>1, PutValues
<1>9. \A x \in Nodes \ {n} : b2[x] = IF x = nx THEN c ELSE b[x]
  <2>1. \A x \in Nodes : b1[x] = IF x = nx THEN c ELSE b[x]
    BY <1>1, <1>5, PutValues, CellsAssumption
  <2> HIDE DEF b1
  <2> QED BY <1>7, <2>1, PutValues
<1>10. Free(p1[n], b2[n], n)
  BY <1>1, <1>5, <1>7, PutValues
<1> HIDE DEF p1, b2
<1>11. Chains(Memory(p1, b2), Less(L, h, q))
  BY <1>1, <1>3, <1>7, <1>8, <1>9, <1>10, UnlinkKeeps DEF nx
<1> QED
  BY <1>6, <1>11

\* INIT_HLIST_NODE, hlist_add_fake and the deletion of a node that is in no list.
LEMMA OutsideChains ==
  ASSUME NEW p, NEW b, NEW L, Chains(Memory(p, b), L), NEW n \in Nodes, Outside(L, n)
  PROVE  /\ \A v, w : Free(v, w, n) => Chains(SetPprev(SetPtr(Memory(p, b), n, v), n, w), L)
         /\ b[n] = NULL => Chains(SetPprev(Memory(p, b), n, n), L)
         /\ b[n] = n => \A v, w : Free(v, w, n) =>
              Chains(SetPprev(SetPtr(Unlink(Memory(p, b), n), n, v), n, w), L)
<1>1. On(p, Cells) /\ On(b, Nodes) /\ Memory(p, b).ptr = p /\ Memory(p, b).pprev = b
  BY Zenon, Writes DEF Chains
<1>2. ASSUME NEW v, NEW w, Free(v, w, n)
      PROVE  /\ SetPprev(SetPtr(Memory(p, b), n, v), n, w) = Memory(Put(p, n, v), Put(b, n, w))
             /\ Chains(Memory(Put(p, n, v), Put(b, n, w)), L)
  <2> DEFINE p1 == Put(p, n, v)
             b1 == Put(b, n, w)
  <2>1. SetPprev(SetPtr(Memory(p, b), n, v), n, w) = Memory(p1, b1)
    BY Writes
  <2>2. /\ On(p1, Cells) /\ On(b1, Nodes)
        /\ \A x \in Cells \ {n} : p1[x] = p[x]
        /\ \A x \in Nodes \ {n} : b1[x] = b[x]
        /\ p1[n] = v /\ b1[n] = w
    BY <1>1, PutValues DEF Cells
  <2> HIDE DEF p1, b1
  <2>3. Chains(Memory(p1, b1), L)
    BY <1>1, <1>2, <2>2, OutsideKeeps
  <2> QED BY <2>1, <2>3 DEF p1, b1
<1>3. Free(p[n], b[n], n)
  BY <1>1 DEF Chains, Others
<1>4. ASSUME b[n] = NULL \/ b[n] = n PROVE p[n] = NULL
  BY <1>3, <1>4, CellsAssumption DEF Free
<1>5. ASSUME p[n] = NULL
      PROVE  /\ SetPprev(Memory(p, b), n, n) = Memory(p, Put(b, n, n))
             /\ Chains(Memory(p, Put(b, n, n)), L)
  <2> DEFINE b1 == Put(b, n, n)
  <2>1. /\ On(b1, Nodes)
        /\ \A x \in Nodes \ {n} : b1[x] = b[x]
        /\ b1[n] = n
    BY <1>1, PutValues
  <2> HIDE DEF b1
  <2>2. Free(p[n], b1[n], n)
    BY <1>5, <2>1 DEF Free
  <2>3. Chains(Memory(p, b1), L)
    BY <1>1, <2>1, <2>2, OutsideKeeps
  <2> QED BY <2>3, Writes DEF b1
<1>6. ASSUME b[n] = n, NEW v, NEW w, Free(v, w, n)
      PROVE  Chains(SetPprev(SetPtr(Unlink(Memory(p, b), n), n, v), n, w), L)
  <2> DEFINE p0 == Put(p, n, NULL)
             p1 == Put(p0, n, v)
             b1 == Put(b, n, w)
  <2>1. Unlink(Memory(p, b), n) = Memory(p0, b)
    <3>1. SetPtr(Memory(p, b), n, NULL) = Memory(p0, b)
      BY Writes
    <3> HIDE DEF p0
    <3> QED BY <1>1, <1>4, <1>6, <3>1 DEF Unlink
  <2>2. SetPprev(SetPtr(Memory(p0, b), n, v), n, w) = Memory(p1, b1)
    BY Writes
  <2>3. On(p0, Cells) /\ \A x \in Cells \ {n} : p0[x] = p[x]
    BY <1>1, PutValues
  <2> HIDE DEF p0
  <2>4. /\ On(p1, Cells) /\ On(b1, Nodes)
        /\ \A x \in Cells \ {n} : p1[x] = p[x]
        /\ \A x \in Nodes \ {n} : b1[x] = b[x]
        /\ p1[n] = v /\ b1[n] = w
    BY <1>1, <2>3, PutValues DEF Cells
  <2> HIDE DEF p1, b1
  <2>5. Chains(Memory(p1, b1), L)
    BY <1>1, <1>6, <2>4, OutsideKeeps
  <2> QED BY <2>1, <2>2, <2>5
<1> QED
  BY <1>2, <1>4, <1>5, <1>6

\* hlist_move_list.
LEMMA MoveChains ==
  ASSUME NEW p, NEW b, NEW L, Chains(Memory(p, b), L),
         NEW g \in Heads, NEW h \in Heads, g # h, L[h] = <<>>
  PROVE  Chains(hlist_move_list(Memory(p, b), g, h), Given(L, g, h))
<1> DEFINE first == p[g]
           p0 == Put(p, h, first)
           p1 == Put(p0, g, NULL)
           b1 == IF first = NULL THEN b ELSE Put(b, first, h)
<1>1. On(p, Cells) /\ On(b, Nodes) /\ Memory(p, b).ptr = p /\ Memory(p, b).pprev = b
  BY Zenon, Writes DEF Chains
<1>2. Len(L[g]) \in Nat /\ 0 \in 0..Len(L[g]) /\ g = Cell(g, L[g], 0)
  BY PlacesDiffer DEF Chains, Cell
<1>3. first = NULL \/ (first \in Nodes /\ first # NULL)
  BY <1>1, <1>2, NextOfPlace
<1> HIDE DEF first
<1>4. hlist_move_list(Memory(p, b), g, h) = Memory(p1, b1)
  <2>1. Memory(p, b).ptr[g] = first
    BY <1>1 DEF first
  <2>2. SetPtr(Memory(p, b), h, first) = Memory(p0, b)
    BY Writes
  <2>3. Memory(p0, b).ptr[h] = first
    <3>1. h \in Cells
      BY DEF Cells
    <3>2. p0[h] = first
      BY <1>1, <3>1, PutValues
    <3> HIDE DEF p0
    <3> QED BY Zenon, <3>2, Writes
  <2> HIDE DEF p0
  <2>4. SetPprev(Memory(p0, b), first, h) = Memory(p0, Put(b, first, h))
    BY Writes
  <2>5. SetPtr(Memory(p0, b1), g, NULL) = Memory(p1, b1)
    BY Writes
  <2>6. (IF first = NULL THEN Memory(p0, b) ELSE Memory(p0, Put(b, first, h))) = Memory(p0, b1)
    OBVIOUS
  <2> HIDE DEF p1, b1
  <2> QED BY <2>1, <2>2, <2>3, <2>4, <2>5, <2>6 DEF hlist_move_list
<1>5. On(p1, Cells) /\ On(b1, Nodes)
  BY <1>1, PutValues
<1>6. \A x \in Cells : p1[x] = IF x = h THEN first ELSE IF x = g THEN NULL ELSE p[x]
  BY <1>1, PutValues
<1>7. \A x \in Nodes : b1[x] = IF x = first THEN h ELSE b[x]
  BY <1>1, <1>3, PutValues, CellsAssumption
<1> HIDE DEF p1, b1
<1>8. Chains(Memory(p1, b1), Given(L, g, h))
  BY <1>1, <1>5, <1>6, <1>7, GivenKeeps DEF first
<1> QED
  BY <1>4, <1>8

-----------------------------------------------------------------------------
(* The walk of Entries reads the lists off the pointers.                   *)

LEMMA EntriesAreLists ==
  ASSUME NEW L, Chains(M, L), NEW h \in Heads
  PROVE  Entries(h) = L[h]
<1> DEFINE s == L[h]
<1>1. /\ L \in [Heads -> Seq(Nodes)] /\ Once(L)
      /\ \A i \in 0..Len(s) : ptr[Cell(h, s, i)] = IF i = Len(s) THEN NULL ELSE s[i + 1]
  BY DEF Chains, Forward, M
<1>2. s \in Seq(Nodes) /\ Distinct(s) /\ NULL \notin Nodes
  BY <1>1, CellsAssumption DEF Once, Distinct
<1>3. Way(ptr, h) = s
  <2> HIDE DEF s
  <2> QED BY <1>1, <1>2, WayReads
<1> QED
  BY <1>3 DEF Entries

LEMMA InListIsNotOutside ==
  ASSUME NEW L, Chains(M, L), NEW n
  PROVE  InList(n) <=> ~Outside(L, n)
<1>1. \A h \in Heads : Entries(h) = L[h] /\ L[h] \in Seq(Nodes)
  BY EntriesAreLists DEF Chains
<1>2. \A h \in Heads : n \in ToSet(L[h]) <=> \E i \in 1..Len(L[h]) : L[h][i] = n
  <2> TAKE h \in Heads
  <2>1. DOMAIN L[h] = 1..Len(L[h])
    BY <1>1
  <2> QED BY <2>1 DEF ToSet
<1> QED
  BY <1>1, <1>2 DEF InList, Outside

-----------------------------------------------------------------------------
(* The loop.                                                               *)

\* b is a, or it comes behind a in one of the lists L.
Follows(L, a, b) ==
  \E h \in Heads : Before(L, h, a, b)

\* All that is to be met follows the node the body leaves alone: itself, when it is
\* the saved one.  It is in a list, and where there is none the loop has met all.
LoopOK(L) ==
  /\ loop \in [safe : BOOLEAN, pos : Nodes \cup {NULL}, n : Nodes \cup {NULL}]
  /\ Looping \/ loop = NoLoop
  /\ todo \subseteq Nodes
  /\ Pinned = NULL => todo = {}
  /\ Pinned # NULL => Follows(L, Pinned, Pinned)
  /\ \A x \in todo : Follows(L, Pinned, x)
  /\ ~loop.safe => Pinned \notin todo

IInv == \E L : Chains(M, L) /\ LoopOK(L)

LEMMA FollowsSelf ==
  ASSUME NEW L \in [Heads -> Seq(Nodes)], NEW n
  PROVE  Follows(L, n, n) <=> ~Outside(L, n)
<1>1. \A h \in Heads : Len(L[h]) \in Nat
  BY LenProperties
<1>2. ASSUME ~Outside(L, n) PROVE Follows(L, n, n)
  <2>1. PICK h \in Heads : \E i \in 1..Len(L[h]) : L[h][i] = n
    BY <1>2 DEF Outside
  <2>2. PICK i \in 1..Len(L[h]) : L[h][i] = n
    BY <2>1
  <2>3. i <= i
    BY <1>1
  <2> QED BY <2>2, <2>3 DEF Follows, Before
<1> QED
  BY <1>2 DEF Follows, Before, Outside

LEMMA GivenKeepsOrder ==
  ASSUME NEW L \in [Heads -> Seq(Nodes)], NEW g \in Heads, NEW h \in Heads, g # h, L[h] = <<>>,
         NEW a, NEW b, Follows(L, a, b)
  PROVE  Follows(Given(L, g, h), a, b)
<1>1. PICK f \in Heads : \E i, j \in 1..Len(L[f]) : L[f][i] = a /\ L[f][j] = b /\ i <= j
  BY DEF Follows, Before
<1>2. f # h
  BY <1>1
<1> DEFINE e == IF f = g THEN h ELSE f
<1>3. e \in Heads /\ Given(L, g, h)[e] = L[f]
  BY <1>2 DEF Given
<1> HIDE DEF e
<1> QED BY Zenon, <1>1, <1>3 DEF Follows, Before

\* A call that deletes D, and leaves the pinned node, keeps what the loop knows.
LEMMA LoopKept ==
  ASSUME NEW L, NEW K, NEW D, LoopOK(L), Pinned \notin D,
         \A a, b : Follows(L, a, b) /\ a \notin D /\ b \notin D => Follows(K, a, b),
         loop' = loop, todo' = todo \ D
  PROVE  LoopOK(K)'
<1>1. Pinned' = Pinned /\ Looping' = Looping
  BY DEF Pinned, Looping
<1>2. Pinned # NULL => Follows(K, Pinned, Pinned)
  BY DEF LoopOK
<1>3. \A x \in todo' : Follows(K, Pinned, x)
  BY DEF LoopOK
<1> QED
  BY <1>1, <1>2, <1>3 DEF LoopOK

\* Where b lies when it follows the i-th node of the list of h.
LEMMA FollowsAt ==
  ASSUME NEW L \in [Heads -> Seq(Nodes)], Once(L), NEW h \in Heads, NEW i \in 1..Len(L[h])
  PROVE  \A b : Follows(L, L[h][i], b) <=> \E j \in i..Len(L[h]) : L[h][j] = b
<1> TAKE b
<1>0. Len(L[h]) \in Nat
  BY LenProperties
<1>1. ASSUME Follows(L, L[h][i], b) PROVE \E j \in i..Len(L[h]) : L[h][j] = b
  <2>1. PICK g \in Heads : \E k, j \in 1..Len(L[g]) : L[g][k] = L[h][i] /\ L[g][j] = b /\ k <= j
    BY <1>1 DEF Follows, Before
  <2>2. PICK k \in 1..Len(L[g]), j \in 1..Len(L[g]) : L[g][k] = L[h][i] /\ L[g][j] = b /\ k <= j
    BY <2>1
  <2>3. g = h /\ k = i
    BY <2>2 DEF Once
  <2>4. j \in i..Len(L[h])
    BY <1>0, <2>2, <2>3
  <2> QED BY <2>2, <2>3, <2>4
<1>2. ASSUME NEW j \in i..Len(L[h]), L[h][j] = b PROVE Follows(L, L[h][i], b)
  <2>1. j \in 1..Len(L[h]) /\ i <= j
    BY <1>0
  <2> QED BY <1>2, <2>1 DEF Follows, Before
<1> QED
  BY <1>1, <1>2

\* A loop that has come to a node, and has all it is to meet behind it.
LEMMA LoopAt ==
  ASSUME NEW L, Chains(M, L), NEW h \in Heads, NEW i \in 1..Len(L[h]), NEW y, y = L[h][i],
         NEW safe \in BOOLEAN, loop' = At(safe, y), todo' \subseteq Nodes,
         \A x \in todo' : Follows(L, y, x) /\ x # y
  PROVE  LoopOK(L)'
<1>0. \A b : Follows(L, L[h][i], b) <=> \E j \in i..Len(L[h]) : L[h][j] = b
  BY Zenon, FollowsAt DEF Chains
<1>1. L \in [Heads -> Seq(Nodes)] /\ Once(L) /\ NULL \notin Nodes
  BY CellsAssumption DEF Chains
<1>2. Len(L[h]) \in Nat /\ y \in Nodes /\ i \in 0..Len(L[h]) /\ y = Cell(h, L[h], i)
  BY <1>1, PlacesDiffer DEF Cell
<1>3. /\ M.ptr = ptr
      /\ ptr[y] = IF i = Len(L[h]) THEN NULL ELSE L[h][i + 1]
      /\ i # Len(L[h]) => i + 1 \in 1..Len(L[h]) /\ ptr[y] \in Nodes
  <2>1. M.ptr = ptr
    BY DEF M
  <2> QED BY <1>2, <2>1, NextOfPlace
<1>4. /\ loop' = [safe |-> safe, pos |-> y, n |-> IF safe THEN ptr[y] ELSE NULL]
      /\ loop' \in [safe : BOOLEAN, pos : Nodes \cup {NULL}, n : Nodes \cup {NULL}]
      /\ Looping' /\ Pinned' = IF safe THEN ptr[y] ELSE y
      /\ loop'.safe = safe
  BY <1>1, <1>2, <1>3 DEF At, Looping, Pinned
<1>5. \A x \in todo' : \E j \in (i + 1)..Len(L[h]) : L[h][j] = x
  <2> TAKE x \in todo'
  <2>1. PICK j \in i..Len(L[h]) : L[h][j] = x
    BY <1>0
  <2>2. j # i
    BY <2>1
  <2>3. j \in (i + 1)..Len(L[h])
    BY <1>2, <2>2
  <2> QED BY <2>1, <2>3
<1>6. CASE ~safe
  <2>1. Follows(L, y, y)
    BY <1>1, FollowsSelf DEF Outside
  <2> QED BY <1>1, <1>2, <1>4, <1>6, <2>1 DEF LoopOK
<1>7. CASE safe /\ i = Len(L[h])
  <2>1. todo' = {} /\ ptr[y] = NULL
    BY <1>2, <1>3, <1>5, <1>7
  <2>2. Pinned' = NULL
    BY <1>4, <1>7, <2>1
  <2> QED BY <1>4, <1>7, <2>1, <2>2 DEF LoopOK
<1>8. CASE safe /\ i # Len(L[h])
  <2> DEFINE z == ptr[y]
             k == i + 1
  <2>1. k \in 1..Len(L[h]) /\ z = L[h][k] /\ z \in Nodes
    BY <1>3, <1>8
  <2>2. \A x \in todo' : \E j \in k..Len(L[h]) : L[h][j] = x
    BY <1>5
  <2> HIDE DEF z, k
  <2>3. Follows(L, z, z)
    BY <1>1, <2>1, FollowsSelf DEF Outside
  <2>4. \A x \in todo' : Follows(L, z, x)
    BY Zenon, <1>1, <2>1, <2>2, FollowsAt
  <2>5. Pinned' = z /\ z # NULL
    BY <1>1, <1>4, <1>8, <2>1 DEF z
  <2> QED BY <1>4, <1>8, <2>3, <2>4, <2>5 DEF LoopOK
<1> QED
  BY <1>6, <1>7, <1>8

\* Behind is what its name says.
LEMMA BehindFollows ==
  ASSUME NEW L, Chains(M, L), NEW h \in Heads, NEW i \in 1..Len(L[h])
  PROVE  \A n : n = L[h][i] => Behind(n) = {L[h][j] : j \in (i + 1)..Len(L[h])}
<1> TAKE n
<1> HAVE n = L[h][i]
<1>1. L \in [Heads -> Seq(Nodes)] /\ Once(L)
  BY DEF Chains
<1>2. \A g \in Heads : Entries(g) = L[g] /\ DOMAIN L[g] = 1..Len(L[g]) /\ Len(L[g]) \in Nat
  BY <1>1, EntriesAreLists
<1>3. \A g \in Heads : n \in ToSet(Entries(g)) <=> g = h
  BY <1>1, <1>2 DEF ToSet, Once
<1>4. (CHOOSE g \in Heads : n \in ToSet(Entries(g))) = h
  BY <1>3
<1> DEFINE s == L[h]
           I == {k \in 1..Len(s) : s[k] = n}
<1>5. SelectInSeq(s, LAMBDA x : x = n) = i
  <2>1. I = {i}
    BY <1>1 DEF Once
  <2>2. Min(I) = i
    <3>1. i \in I /\ \A x \in I : i <= x
      BY <1>2, <2>1
    <3> HIDE DEF I
    <3> QED BY <2>1, <3>1 DEF Min
  <2>3. SelectInSeq(s, LAMBDA x : x = n) = IF I # {} THEN Min(I) ELSE 0
    BY DEF SelectInSeq
  <2> HIDE DEF I
  <2> QED BY <2>1, <2>2, <2>3
<1> DEFINE t == SubSeq(s, i + 1, Len(s))
<1>6. Behind(n) = ToSet(t)
  BY Zenon, <1>2, <1>4, <1>5 DEF Behind
<1>7. /\ t \in Seq(Nodes) /\ Len(t) = Len(s) - i
      /\ \A k \in 1..(Len(s) - i) : t[k] = s[i + k]
  <2> DEFINE m == i + 1
             l == Len(s)
  <2>1. m \in Int /\ l \in Int /\ i \in Int /\ i <= l
    BY <1>2
  <2>2. \A k \in m..l : s[k] \in Nodes
    BY <1>1, <1>2, PlacesDiffer
  <2> HIDE DEF s, m, l
  <2>3. /\ SubSeq(s, m, l) \in Seq(Nodes)
        /\ Len(SubSeq(s, m, l)) = IF m <= l THEN l - m + 1 ELSE 0
        /\ \A k \in 1..(l - m + 1) : SubSeq(s, m, l)[k] = s[m + k - 1]
    BY <2>1, <2>2, SubSeqProperties
  <2> QED BY <2>1, <2>3 DEF m, l
<1> HIDE DEF t
<1>8. ToSet(t) = {t[k] : k \in 1..(Len(s) - i)}
  <2>1. DOMAIN t = 1..(Len(s) - i)
    BY <1>7
  <2> HIDE DEF s
  <2> QED BY <2>1, Zenon DEF ToSet
<1>9. ASSUME NEW k \in 1..(Len(s) - i) PROVE i + k \in (i + 1)..Len(s)
  BY <1>2
<1>10. ASSUME NEW j \in (i + 1)..Len(s) PROVE j - i \in 1..(Len(s) - i) /\ i + (j - i) = j
  BY <1>2
<1> HIDE DEF s
<1>11. {t[k] : k \in 1..(Len(s) - i)} = {s[j] : j \in (i + 1)..Len(s)}
  <2>1. ASSUME NEW k \in 1..(Len(s) - i) PROVE t[k] \in {s[j] : j \in (i + 1)..Len(s)}
    BY Zenon, <1>7, <1>9
  <2>2. ASSUME NEW j \in (i + 1)..Len(s) PROVE s[j] \in {t[k] : k \in 1..(Len(s) - i)}
    BY Zenon, <1>7, <1>10
  <2> QED BY Zenon, <2>1, <2>2
<1> QED
  BY Zenon, <1>6, <1>8, <1>11 DEF s

-----------------------------------------------------------------------------
(* The steps.                                                              *)

LEMMA BecomesChains ==
  ASSUME NEW r, NEW K, Chains(r, K), Becomes(r)
  PROVE  Chains(M, K)'
BY DEF Chains, Becomes, M

LEMMA MIsMemory == M = Memory(ptr, pprev)
BY DEF M, Memory

\* A fake list, and a node that says it is in no list, are outside.
LEMMA FakeIsOutside ==
  ASSUME NEW L, Chains(M, L), NEW n \in Nodes, Fake(n) \/ hlist_unhashed(M, n)
  PROVE  Outside(L, n)
<1>1. /\ L \in [Heads -> Seq(Nodes)] /\ Once(L)
      /\ \A h \in Heads : \A i \in 1..Len(L[h]) : pprev[L[h][i]] = Cell(h, L[h], i - 1)
  BY DEF Chains, Back, M
<1> SUFFICES ASSUME NEW h \in Heads, NEW i \in 1..Len(L[h]), L[h][i] = n PROVE FALSE
  BY DEF Outside
<1>2. /\ i - 1 \in 0..Len(L[h]) /\ i \in 0..Len(L[h]) /\ i - 1 # i /\ i # 0
  BY <1>1, PlacesDiffer
<1>3. Cell(h, L[h], i - 1) # Cell(h, L[h], i) /\ Cell(h, L[h], i - 1) \in Cells
  BY <1>1, <1>2, PlacesDiffer
<1>4. pprev[n] # n /\ pprev[n] # NULL
  BY <1>1, <1>2, <1>3, CellsAssumption DEF Cell, Cells
<1> QED
  BY <1>4 DEF Fake, hlist_unhashed, M

NoEntries == [h \in Heads |-> <<>>]

LEMMA InitChains == Init => Chains(M, NoEntries) /\ LoopOK(NoEntries)
<1> SUFFICES ASSUME Init PROVE Chains(M, NoEntries) /\ LoopOK(NoEntries)
  OBVIOUS
<1> DEFINE L == NoEntries
<1>1. L \in [Heads -> Seq(Nodes)] /\ \A h \in Heads : L[h] = <<>> /\ Len(L[h]) = 0
  BY DEF NoEntries
<1> HIDE DEF L
<1>2. Chains(M, L)
  <2>1. On(M.ptr, Cells) /\ On(M.pprev, Nodes)
    BY DEF Init, M, On
  <2>2. \A x \in Cells : ptr[x] = IF x \in Heads THEN NULL ELSE UNSET
    BY DEF Init
  <2>3. \A n \in Nodes : n \in Cells /\ n \notin Heads /\ pprev[n] = UNSET
    BY CellsAssumption DEF Init, Cells
  <2>4. Once(L)
    BY <1>1 DEF Once
  <2>5. Forward(ptr, L)
    BY <1>1, <2>2 DEF Forward, Cell, Cells
  <2>6. Back(pprev, L)
    BY <1>1 DEF Back
  <2>7. Others(ptr, pprev, L)
    BY <2>2, <2>3 DEF Others, Free
  <2> QED BY <1>1, <2>1, <2>4, <2>5, <2>6, <2>7 DEF Chains, M
<1>3. LoopOK(L)
  BY DEF Init, LoopOK, NoLoop, Looping, Pinned
<1> QED
  BY <1>2, <1>3 DEF L

LEMMA InitIInv == Init => IInv
BY InitChains DEF IInv

\* What a call, named by c, does to the lists.
Did(L, K, c) ==
  \/ c = <<"none">> /\ K = L
  \/ \E n \in Nodes, h \in Heads : \E q \in 0..Len(L[h]) :
       Outside(L, n) /\ c = <<"list_add", n, h, Cell(h, L[h], q)>> /\ K = With(L, h, q, n)
  \/ \E n \in Nodes, h \in Heads : \E q \in 1..Len(L[h]) :
       Outside(L, n) /\ c = <<"list_add_tail", n, h, L[h][q]>> /\ K = With(L, h, q - 1, n)
  \/ \E n \in Nodes : Outside(L, n) /\ c = <<"list_del", n>> /\ K = L
  \/ \E h \in Heads : \E q \in 1..Len(L[h]) : c = <<"list_del", L[h][q]>> /\ K = Less(L, h, q)
  \/ \E g, h \in Heads :
       g # h /\ L[h] = <<>> /\ c = <<"list_splice", g, h>> /\ K = Given(L, g, h)

\* A step from the lists L leads to chains again, and a loop that is right.
Goes(L) == \E K : Chains(M, K)' /\ LoopOK(K)' /\ Did(L, K, call')

LEMMA OutsideStep ==
  ASSUME NEW L, Chains(M, L), LoopOK(L), NEW r, Chains(r, L), Becomes(r),
         UNCHANGED <<loop, todo>>, call' = <<"none">>
  PROVE  Goes(L)
<1>1. LoopOK(L)'
  <2>1. \A a, b : Follows(L, a, b) /\ a \notin {} /\ b \notin {} => Follows(L, a, b)
    OBVIOUS
  <2>2. todo' = todo \ {} /\ loop' = loop
    OBVIOUS
  <2> QED BY Zenon, <2>1, <2>2, LoopKept
<1>2. Did(L, L, call')
  BY DEF Did
<1> QED
  BY <1>1, <1>2, BecomesChains DEF Goes

LEMMA InitNodeStep ==
  ASSUME NEW L, Chains(M, L), LoopOK(L), NEW n \in Nodes, InitNode(n)
  PROVE  Goes(L)
<1>1. Outside(L, n)
  BY InListIsNotOutside DEF InitNode
<1>2. Chains(INIT_HLIST_NODE(M, n), L)
  <2>1. Free(NULL, NULL, n)
    BY DEF Free
  <2> QED BY <1>1, <2>1, MIsMemory, OutsideChains DEF INIT_HLIST_NODE
<1>3. Becomes(INIT_HLIST_NODE(M, n)) /\ UNCHANGED <<loop, todo>> /\ call' = <<"none">>
  BY DEF InitNode
<1> QED
  BY <1>2, <1>3, OutsideStep

LEMMA AddFakeStep ==
  ASSUME NEW L, Chains(M, L), LoopOK(L), NEW n \in Nodes, AddFake(n)
  PROVE  Goes(L)
<1>1. Outside(L, n) /\ pprev[n] = NULL
  BY FakeIsOutside DEF AddFake, hlist_unhashed, M
<1>2. Chains(hlist_add_fake(M, n), L)
  BY <1>1, MIsMemory, OutsideChains DEF hlist_add_fake
<1>3. Becomes(hlist_add_fake(M, n)) /\ UNCHANGED <<loop, todo>> /\ call' = <<"none">>
  BY DEF AddFake
<1> QED
  BY <1>2, <1>3, OutsideStep

LEMMA WithStep ==
  ASSUME NEW L, Chains(M, L), LoopOK(L), NEW n \in Nodes, Outside(L, n),
         NEW h \in Heads, NEW q \in 0..Len(L[h]),
         NEW r, Chains(r, With(L, h, q, n)), Becomes(r), UNCHANGED <<loop, todo>>,
         Did(L, With(L, h, q, n), call')
  PROVE  Goes(L)
<1> DEFINE K == With(L, h, q, n)
<1>1. \A a, b : Follows(L, a, b) => Follows(K, a, b)
  <2> TAKE a, b
  <2> SUFFICES ASSUME Follows(L, a, b) PROVE Follows(K, a, b)
    OBVIOUS
  <2>1. PICK g \in Heads : Before(L, g, a, b)
    BY DEF Follows
  <2>2. Before(K, g, a, b)
    BY Zenon, <2>1, WithKeepsOrder DEF Chains
  <2> QED BY <2>2 DEF Follows
<1> HIDE DEF K
<1>2. LoopOK(K)'
  <2>1. \A a, b : Follows(L, a, b) /\ a \notin {} /\ b \notin {} => Follows(K, a, b)
    BY <1>1
  <2>2. todo' = todo \ {} /\ loop' = loop
    OBVIOUS
  <2> QED BY Zenon, <2>1, <2>2, LoopKept
<1>3. Chains(M, K)' /\ Did(L, K, call')
  BY BecomesChains DEF K
<1> QED
  BY <1>2, <1>3 DEF Goes

LEMMA AddHeadStep ==
  ASSUME NEW L, Chains(M, L), LoopOK(L), NEW n \in Nodes, NEW h \in Heads, AddHead(n, h)
  PROVE  Goes(L)
<1>1. Outside(L, n) /\ Becomes(AddAfter(M, n, h)) /\ UNCHANGED <<loop, todo>>
  BY InListIsNotOutside DEF AddHead
<1>2. 0 \in 0..Len(L[h]) /\ h = Cell(h, L[h], 0)
  BY PlacesDiffer DEF Chains, Cell
<1>3. Chains(AddAfter(M, n, h), With(L, h, 0, n))
  BY <1>1, <1>2, MIsMemory, AddAfterChains
<1>4. Did(L, With(L, h, 0, n), call')
  BY <1>1, <1>2 DEF AddHead, Did
<1> QED
  BY <1>1, <1>2, <1>3, <1>4, WithStep

LEMMA AddBesideStep ==
  ASSUME NEW L, Chains(M, L), LoopOK(L), NEW n \in Nodes, NEW h \in Heads, NEW c \in Nodes,
         AddBeside(n, h, c)
  PROVE  Goes(L)
<1>1. Outside(L, n) /\ UNCHANGED <<loop, todo>>
  BY InListIsNotOutside DEF AddBeside
<1>2. PICK q \in 1..Len(L[h]) : L[h][q] = c
  <2>1. c \in ToSet(L[h]) /\ L[h] \in Seq(Nodes)
    BY EntriesAreLists DEF AddBeside, Chains
  <2> QED BY <2>1 DEF ToSet
<1>3. q \in 0..Len(L[h]) /\ q - 1 \in 0..Len(L[h]) /\ c = Cell(h, L[h], q)
  <2>1. Len(L[h]) \in Nat
    BY PlacesDiffer DEF Chains
  <2> QED BY <1>2, <2>1 DEF Cell
<1>4. CASE Becomes(AddAfter(M, n, c)) /\ call' = <<"list_add", n, h, c>>
  <2>1. Chains(AddAfter(M, n, c), With(L, h, q, n))
    BY <1>1, <1>3, MIsMemory, AddAfterChains
  <2>2. Did(L, With(L, h, q, n), call')
    BY <1>1, <1>3, <1>4 DEF Did
  <2> QED BY <1>1, <1>3, <1>4, <2>1, <2>2, WithStep
<1>5. CASE Becomes(hlist_add_before(M, n, c)) /\ call' = <<"list_add_tail", n, h, c>>
  <2> DEFINE p == q - 1
  <2>1. Chains(hlist_add_before(M, n, c), With(L, h, p, n))
    BY <1>1, <1>2, MIsMemory, AddBeforeChains
  <2>2. p \in 0..Len(L[h])
    BY <1>3
  <2>3. Did(L, With(L, h, p, n), call')
    BY <1>1, <1>2, <1>5 DEF Did
  <2> HIDE DEF p
  <2> QED BY <1>1, <1>5, <2>1, <2>2, <2>3, WithStep
<1> QED
  BY <1>4, <1>5 DEF AddBeside

LEMMA LessStep ==
  ASSUME NEW L, Chains(M, L), LoopOK(L), NEW h \in Heads, NEW q \in 1..Len(L[h]),
         NEW n, n = L[h][q], Unpinned(n),
         NEW r, Chains(r, Less(L, h, q)), Becomes(r), loop' = loop, todo' = todo \ {n},
         call' = <<"list_del", n>>
  PROVE  Goes(L)
<1> DEFINE K == Less(L, h, q)
<1>1. ASSUME NEW a, NEW b, Follows(L, a, b), a \notin {n}, b \notin {n}
      PROVE  Follows(K, a, b)
  <2>1. PICK g \in Heads : Before(L, g, a, b)
    BY <1>1 DEF Follows
  <2>2. Before(K, g, a, b)
    BY Zenon, <1>1, <2>1, LessKeepsOrder DEF Chains
  <2> QED BY <2>2 DEF Follows
<1>2. Pinned \notin {n}
  <2>1. n \in Nodes
    BY PlacesDiffer DEF Chains
  <2> QED BY <2>1, CellsAssumption DEF Unpinned, LoopOK, NoLoop, Pinned
<1> HIDE DEF K
<1>3. LoopOK(K)'
  BY Zenon, <1>1, <1>2, LoopKept
<1>4. Chains(M, K)'
  BY BecomesChains DEF K
<1>5. Did(L, K, call')
  <2>1. n \in Nodes
    BY PlacesDiffer DEF Chains
  <2> QED BY <2>1 DEF Did, K
<1> QED
  BY <1>3, <1>4, <1>5 DEF Goes

\* Deleting a node that is in no list.
LEMMA OutsideDelStep ==
  ASSUME NEW L, Chains(M, L), LoopOK(L), NEW n \in Nodes, Outside(L, n),
         NEW r, Chains(r, L), Becomes(r), loop' = loop, todo' = todo \ {n},
         call' = <<"list_del", n>>
  PROVE  Goes(L)
<1>1. L \in [Heads -> Seq(Nodes)]
  BY DEF Chains
<1>2. Pinned \notin {n}
  BY <1>1, FollowsSelf, CellsAssumption DEF LoopOK
<1>3. LoopOK(L)'
  BY Zenon, <1>2, LoopKept
<1>4. Did(L, L, call')
  BY DEF Did
<1> QED
  BY <1>3, <1>4, BecomesChains DEF Goes

LEMMA DelStep ==
  ASSUME NEW L, Chains(M, L), LoopOK(L), NEW n \in Nodes, Del(n)
  PROVE  Goes(L)
<1>1. /\ Becomes(hlist_del(M, n)) /\ loop' = loop /\ todo' = todo \ {n}
      /\ call' = <<"list_del", n>>
      /\ (InList(n) /\ Unpinned(n)) \/ Fake(n)
  BY DEF Del
<1>2. Free(POISON1, POISON2, n)
  BY DEF Free
<1>3. CASE Fake(n)
  <2>1. Outside(L, n)
    BY <1>3, FakeIsOutside
  <2>2. Chains(hlist_del(M, n), L)
    BY <1>2, <1>3, <2>1, MIsMemory, OutsideChains DEF hlist_del, Fake
  <2> QED BY <1>1, <2>1, <2>2, OutsideDelStep
<1>4. CASE InList(n) /\ Unpinned(n)
  <2>1. PICK h \in Heads : \E q \in 1..Len(L[h]) : L[h][q] = n
    BY <1>4, InListIsNotOutside DEF Outside
  <2>2. PICK q \in 1..Len(L[h]) : L[h][q] = n
    BY <2>1
  <2>3. Chains(hlist_del(M, n), Less(L, h, q))
    BY <1>2, <2>2, MIsMemory, UnlinkChains DEF hlist_del
  <2> QED BY <1>1, <1>4, <2>2, <2>3, LessStep
<1> QED
  BY <1>1, <1>3, <1>4

LEMMA DelInitStep ==
  ASSUME NEW L, Chains(M, L), LoopOK(L), NEW n \in Nodes, DelInit(n)
  PROVE  Goes(L)
<1>1. /\ Becomes(hlist_del_init(M, n)) /\ loop' = loop /\ todo' = todo \ {n}
      /\ call' = <<"list_del", n>>
      /\ (InList(n) /\ Unpinned(n)) \/ Fake(n) \/ hlist_unhashed(M, n)
  BY DEF DelInit
<1>2. Free(NULL, NULL, n)
  BY DEF Free
<1>3. CASE hlist_unhashed(M, n)
  <2>1. Outside(L, n)
    BY <1>3, FakeIsOutside
  <2>2. Chains(hlist_del_init(M, n), L)
    BY <1>3 DEF hlist_del_init
  <2> QED BY <1>1, <2>1, <2>2, OutsideDelStep
<1>4. CASE ~hlist_unhashed(M, n) /\ Fake(n)
  <2>1. Outside(L, n)
    BY <1>4, FakeIsOutside
  <2>2. Chains(hlist_del_init(M, n), L)
    BY <1>2, <1>4, <2>1, MIsMemory, OutsideChains DEF hlist_del_init, INIT_HLIST_NODE, Fake
  <2> QED BY <1>1, <2>1, <2>2, OutsideDelStep
<1>5. CASE ~hlist_unhashed(M, n) /\ InList(n) /\ Unpinned(n)
  <2>1. PICK h \in Heads : \E q \in 1..Len(L[h]) : L[h][q] = n
    BY <1>5, InListIsNotOutside DEF Outside
  <2>2. PICK q \in 1..Len(L[h]) : L[h][q] = n
    BY <2>1
  <2>3. Chains(hlist_del_init(M, n), Less(L, h, q))
    BY <1>2, <1>5, <2>2, MIsMemory, UnlinkChains DEF hlist_del_init, INIT_HLIST_NODE
  <2> QED BY <1>1, <1>5, <2>2, <2>3, LessStep
<1> QED
  BY <1>1, <1>3, <1>4, <1>5

LEMMA MoveListStep ==
  ASSUME NEW L, Chains(M, L), LoopOK(L), NEW g \in Heads, NEW h \in Heads, MoveList(g, h)
  PROVE  Goes(L)
<1>1. /\ g # h /\ ptr[h] = NULL
      /\ Becomes(hlist_move_list(M, g, h)) /\ UNCHANGED <<loop, todo>>
      /\ call' = <<"list_splice", g, h>>
  BY DEF MoveList, hlist_empty, M
<1>2. L \in [Heads -> Seq(Nodes)] /\ L[h] = <<>>
  <2>1. L \in [Heads -> Seq(Nodes)] /\ Len(L[h]) \in Nat
    BY PlacesDiffer DEF Chains
  <2>2. 0 \in 0..Len(L[h]) /\ h = Cell(h, L[h], 0) /\ M.ptr = ptr
    BY <2>1 DEF Cell, M
  <2>3. Len(L[h]) = 0
    BY <1>1, <2>2, NextOfPlace
  <2> QED BY <2>1, <2>3, EmptySeq
<1> DEFINE K == Given(L, g, h)
<1>3. Chains(hlist_move_list(M, g, h), K)
  BY <1>1, <1>2, MIsMemory, MoveChains
<1>4. ASSUME NEW a, NEW b, Follows(L, a, b) PROVE Follows(K, a, b)
  BY Zenon, <1>1, <1>2, <1>4, GivenKeepsOrder
<1>6. Did(L, K, call')
  BY <1>1, <1>2 DEF Did
<1> HIDE DEF K
<1>5. LoopOK(K)'
  <2>1. \A a, b : Follows(L, a, b) /\ a \notin {} /\ b \notin {} => Follows(K, a, b)
    BY <1>4
  <2>2. todo' = todo \ {} /\ loop' = loop
    BY <1>1
  <2> QED BY Zenon, <2>1, <2>2, LoopKept
<1> QED
  BY <1>1, <1>3, <1>5, <1>6, BecomesChains DEF Goes

LEMMA LoopStartStep ==
  ASSUME NEW L, Chains(M, L), LoopOK(L), NEW n \in Nodes, NEW safe \in BOOLEAN, LoopStart(safe, n)
  PROVE  Goes(L)
<1>1. /\ loop' = At(safe, n) /\ todo' = Behind(n) /\ InList(n) /\ UNCHANGED <<ptr, pprev>>
      /\ Did(L, L, call')
  BY DEF LoopStart, Did
<1>2. L \in [Heads -> Seq(Nodes)] /\ Once(L) /\ Chains(M, L)'
  BY <1>1 DEF Chains, M
<1>3. PICK h \in Heads : \E i \in 1..Len(L[h]) : L[h][i] = n
  BY <1>1, InListIsNotOutside DEF Outside
<1>4. PICK i \in 1..Len(L[h]) : L[h][i] = n
  BY <1>3
<1>5. Behind(n) = {L[h][j] : j \in (i + 1)..Len(L[h])}
  <2>1. \A x : x = L[h][i] => Behind(x) = {L[h][j] : j \in (i + 1)..Len(L[h])}
    BY BehindFollows
  <2> QED BY <1>4, <2>1
<1>6. Len(L[h]) \in Nat /\ \A j \in 1..Len(L[h]) : L[h][j] \in Nodes
  BY <1>2, PlacesDiffer
<1>7. ASSUME NEW x \in todo' PROVE x \in Nodes /\ x # n /\ Follows(L, n, x)
  <2>1. PICK j \in (i + 1)..Len(L[h]) : x = L[h][j]
    BY <1>1, <1>5
  <2>2. j \in 1..Len(L[h]) /\ i <= j /\ j # i
    BY <1>6
  <2>3. x # n
    BY <1>2, <1>4, <2>1, <2>2 DEF Once
  <2> QED BY <1>4, <1>6, <2>1, <2>2, <2>3 DEF Follows, Before
<1>8. LoopOK(L)'
  BY <1>1, <1>4, <1>7, LoopAt
<1> QED
  BY <1>1, <1>2, <1>8 DEF Goes

LEMMA LoopStepStep ==
  ASSUME NEW L, Chains(M, L), LoopOK(L), LoopStep
  PROVE  Goes(L)
<1> DEFINE y == Following
<1>1. /\ loop' = IF y = NULL THEN NoLoop ELSE At(loop.safe, y)
      /\ todo' = todo \ {y} /\ Looping /\ UNCHANGED <<ptr, pprev>>
      /\ Did(L, L, call')
  BY DEF LoopStep, Did
<1>2. L \in [Heads -> Seq(Nodes)] /\ Once(L) /\ Chains(M, L)' /\ NULL \notin Nodes
  BY <1>1, CellsAssumption DEF Chains, M
<1>3. todo \subseteq Nodes /\ loop.safe \in BOOLEAN
  BY DEF LoopOK
\* Where the loop goes from what it knew: to NULL when there is nothing left.
<1>4. CASE loop.safe
  <2>1. y = Pinned
    BY <1>4 DEF Following, Pinned
  <2>2. CASE y = NULL
    <3>1. todo = {} /\ loop' = NoLoop /\ todo' = {}
      BY <1>1, <2>1, <2>2 DEF LoopOK
    <3>2. LoopOK(L)'
      BY <1>2, <3>1 DEF LoopOK, NoLoop, Looping, Pinned
    <3> QED BY <1>1, <1>2, <3>2 DEF Goes
  <2>3. CASE y # NULL
    <3>1. PICK h \in Heads : \E i \in 1..Len(L[h]) : L[h][i] = y
      BY <2>1, <2>3 DEF LoopOK, Follows, Before
    <3>2. PICK i \in 1..Len(L[h]) : L[h][i] = y
      BY <3>1
    <3>3. loop' = At(loop.safe, y) /\ todo' \subseteq Nodes
      BY <1>1, <1>3, <2>3
    <3>4. \A x \in todo' : Follows(L, y, x) /\ x # y
      BY <1>1, <2>1 DEF LoopOK
    <3> HIDE DEF y
    <3>5. LoopOK(L)'
      BY <1>3, <3>2, <3>3, <3>4, LoopAt
    <3> QED BY <1>1, <1>2, <3>5 DEF Goes
  <2> QED BY <2>2, <2>3
<1>5. CASE ~loop.safe
  <2>1. y = ptr[Pinned] /\ Pinned # NULL /\ Pinned \notin todo
    BY <1>1, <1>5 DEF Following, Pinned, Looping, LoopOK
  <2>2. PICK h \in Heads : \E i \in 1..Len(L[h]) : L[h][i] = Pinned
    BY <2>1 DEF LoopOK, Follows, Before
  <2>3. PICK i \in 1..Len(L[h]) : L[h][i] = Pinned
    BY <2>2
  <2>4. Len(L[h]) \in Nat /\ i \in 0..Len(L[h]) /\ Pinned = Cell(h, L[h], i)
    BY <1>2, <2>3, PlacesDiffer DEF Cell
  <2>5. /\ y = IF i = Len(L[h]) THEN NULL ELSE L[h][i + 1]
        /\ i # Len(L[h]) => i + 1 \in 1..Len(L[h]) /\ y \in Nodes
    <3>1. M.ptr = ptr
      BY DEF M
    <3> QED BY <2>1, <2>4, <3>1, NextOfPlace
  <2>6. \A b : Follows(L, L[h][i], b) <=> \E j \in i..Len(L[h]) : L[h][j] = b
    BY Zenon, FollowsAt DEF Chains
  <2>7. ASSUME NEW x \in todo PROVE \E j \in (i + 1)..Len(L[h]) : L[h][j] = x
    <3>1. Follows(L, L[h][i], x)
      BY <2>3 DEF LoopOK
    <3>2. PICK j \in i..Len(L[h]) : L[h][j] = x
      BY <2>6, <3>1
    <3>3. j # i
      BY <2>1, <2>3, <3>2
    <3>4. j \in (i + 1)..Len(L[h])
      BY <2>4, <3>3
    <3> QED BY <3>2, <3>4
  <2>8. CASE i = Len(L[h])
    <3>1. todo = {}
      BY <2>4, <2>7, <2>8
    <3>2. loop' = NoLoop /\ todo' = {}
      BY <1>1, <2>5, <2>8, <3>1
    <3>3. LoopOK(L)'
      BY <1>2, <3>2 DEF LoopOK, NoLoop, Looping, Pinned
    <3> QED BY <1>1, <1>2, <3>3 DEF Goes
  <2>9. CASE i # Len(L[h])
    <3> DEFINE k == i + 1
    <3>1. k \in 1..Len(L[h]) /\ y = L[h][k] /\ y \in Nodes
      BY <2>5, <2>9
    <3>2. \A x \in todo : \E j \in k..Len(L[h]) : L[h][j] = x
      BY <2>7
    <3> HIDE DEF k, y
    <3>3. \A b : Follows(L, L[h][k], b) <=> \E j \in k..Len(L[h]) : L[h][j] = b
      BY Zenon, <3>1, FollowsAt DEF Chains
    <3>4. \A x \in todo' : Follows(L, y, x) /\ x # y
      BY <1>1, <3>1, <3>2, <3>3
    <3>5. loop' = At(loop.safe, y) /\ todo' \subseteq Nodes
      BY <1>1, <1>2, <1>3, <3>1
    <3>6. LoopOK(L)'
      BY <1>3, <3>1, <3>4, <3>5, LoopAt
    <3> QED BY <1>1, <1>2, <3>6 DEF Goes
  <2> QED BY <2>8, <2>9
<1> QED
  BY <1>4, <1>5

LEMMA NextGoes ==
  ASSUME NEW L, Chains(M, L), LoopOK(L), Next
  PROVE  Goes(L)
<1>1. ASSUME NEW n \in Nodes, InitNode(n) \/ AddFake(n) \/ Del(n) \/ DelInit(n) PROVE Goes(L)
  BY <1>1, InitNodeStep, AddFakeStep, DelStep, DelInitStep
<1>2. ASSUME NEW n \in Nodes, NEW h \in Heads, AddHead(n, h) PROVE Goes(L)
  BY <1>2, AddHeadStep
<1>3. ASSUME NEW n \in Nodes, NEW h \in Heads, NEW c \in Nodes, AddBeside(n, h, c) PROVE Goes(L)
  BY <1>3, AddBesideStep
<1>4. ASSUME NEW g \in Heads, NEW h \in Heads, MoveList(g, h) PROVE Goes(L)
  BY <1>4, MoveListStep
<1>5. ASSUME NEW n \in Nodes, NEW safe \in BOOLEAN, LoopStart(safe, n) PROVE Goes(L)
  BY <1>5, LoopStartStep
<1>6. CASE LoopStep
  BY <1>6, LoopStepStep
<1> QED
  BY <1>1, <1>2, <1>3, <1>4, <1>5, <1>6 DEF Next

LEMMA NextIInv == IInv /\ [Next]_vars => IInv'
<1> SUFFICES ASSUME IInv, [Next]_vars PROVE IInv'
  OBVIOUS
<1>0. PICK L : Chains(M, L) /\ LoopOK(L)
  BY DEF IInv
<1>1. CASE Next
  BY <1>0, <1>1, NextGoes DEF Goes, IInv
<1>2. CASE UNCHANGED vars
  <2>1. Chains(M, L)' /\ LoopOK(L)'
    BY <1>0, <1>2 DEF vars, Chains, M, LoopOK, Looping, Pinned
  <2> QED BY <2>1 DEF IInv
<1> QED
  BY <1>1, <1>2

-----------------------------------------------------------------------------
(* What follows from it.                                                   *)

LEMMA IInvTypeOK == IInv => TypeOK
<1> SUFFICES ASSUME NEW L, Chains(M, L), LoopOK(L) PROVE TypeOK
  BY DEF IInv
<1>1. /\ L \in [Heads -> Seq(Nodes)] /\ Once(L) /\ On(ptr, Cells) /\ On(pprev, Nodes)
      /\ Forward(ptr, L) /\ Back(pprev, L) /\ Others(ptr, pprev, L)
  BY DEF Chains, M
<1>2. /\ \A h \in Heads : Len(L[h]) \in Nat
      /\ \A h \in Heads : \A i \in 1..Len(L[h]) : L[h][i] \in Nodes
      /\ \A h \in Heads : \A i \in 0..Len(L[h]) : Cell(h, L[h], i) \in Cells
  BY <1>1, PlacesDiffer
<1>3. \A h \in Heads : \A i \in 0..Len(L[h]) : ptr[Cell(h, L[h], i)] \in Nodes \cup {NULL}
  <2> TAKE h \in Heads
  <2> TAKE i \in 0..Len(L[h])
  <2>1. i # Len(L[h]) => i + 1 \in 1..Len(L[h])
    BY <1>2
  <2> QED BY <1>1, <1>2, <2>1 DEF Forward
<1>4. ASSUME NEW h \in Heads PROVE ptr[h] \in Nodes \cup {NULL}
  <2>1. 0 \in 0..Len(L[h]) /\ Cell(h, L[h], 0) = h
    BY <1>2 DEF Cell
  <2> QED BY <1>3, <2>1
<1>5. ASSUME NEW n \in Nodes
      PROVE  ptr[n] \in Nodes \cup {NULL, POISON1, UNSET} /\ pprev[n] \in Cells \cup {NULL, POISON2, UNSET}
  <2>1. CASE Outside(L, n)
    <3>1. n \in Cells
      BY DEF Cells
    <3> QED BY <1>1, <2>1, <3>1 DEF Others, Free
  <2>2. CASE ~Outside(L, n)
    <3>1. PICK h \in Heads : \E i \in 1..Len(L[h]) : L[h][i] = n
      BY <2>2 DEF Outside
    <3>2. PICK i \in 1..Len(L[h]) : L[h][i] = n
      BY <3>1
    <3>3. i \in 0..Len(L[h]) /\ i - 1 \in 0..Len(L[h]) /\ Cell(h, L[h], i) = n
      BY <1>2, <3>2 DEF Cell
    <3> QED BY Zenon, <1>1, <1>2, <1>3, <3>2, <3>3 DEF Back
  <2> QED BY <2>1, <2>2
<1>6. \A x \in Cells : ptr[x] \in Nodes \cup {NULL, POISON1, UNSET}
  BY <1>4, <1>5 DEF Cells
<1>7. ptr \in [Cells -> Nodes \cup {NULL, POISON1, UNSET}]
  <2>1. ptr = [x \in Cells |-> ptr[x]]
    BY <1>1 DEF On
  <2> QED BY <1>6, <2>1
<1>8. pprev \in [Nodes -> Cells \cup {NULL, POISON2, UNSET}]
  <2>1. pprev = [x \in Nodes |-> pprev[x]]
    BY <1>1 DEF On
  <2> QED BY <1>5, <2>1
<1> QED
  BY <1>7, <1>8 DEF TypeOK, LoopOK

\* The invariant PprevPointsBack of the runs: in every state every node of a list is
\* pointed to from the place its pprev names, the one before it in the same list.
THEOREM BackPointersAgree == Spec => []PprevPointsBack
<1>1. IInv => PprevPointsBack
  <2> SUFFICES ASSUME NEW L, Chains(M, L), IInv PROVE PprevPointsBack
    BY DEF IInv
  <2>1. TypeOK
    BY IInvTypeOK
  <2>2. L \in [Heads -> Seq(Nodes)] /\ Forward(ptr, L) /\ Back(pprev, L)
    BY DEF Chains, M
  <2> SUFFICES ASSUME NEW h \in Heads
               PROVE  /\ \A i \in 1..Len(Entries(h)) :
                           pprev[Entries(h)[i]] = IF i = 1 THEN h ELSE Entries(h)[i - 1]
                      /\ ptr[IF Entries(h) = <<>> THEN h ELSE Last(Entries(h))] = NULL
    BY <2>1 DEF PprevPointsBack
  <2> DEFINE s == L[h]
  <2>3. Entries(h) = s /\ s \in Seq(Nodes) /\ Len(s) \in Nat
    BY <2>2, EntriesAreLists
  <2>4. ASSUME NEW i \in 1..Len(s) PROVE pprev[s[i]] = IF i = 1 THEN h ELSE s[i - 1]
    <3>1. i - 1 = 0 <=> i = 1
      BY <2>3
    <3> QED BY <2>2, <3>1 DEF Back, Cell
  <2>5. ptr[IF s = <<>> THEN h ELSE Last(s)] = NULL
    <3>1. Len(s) \in 0..Len(s) /\ (Len(s) = 0 <=> s = <<>>)
      BY <2>3, EmptySeq
    <3>2. ptr[Cell(h, s, Len(s))] = NULL
      BY <2>2, <3>1 DEF Forward
    <3> QED BY <3>1, <3>2 DEF Cell, Last
  <2> QED BY <2>3, <2>4, <2>5
<1> QED
  BY <1>1, InitIInv, NextIInv, PTL DEF Spec

\* The invariant UnhashedIsOutside of the runs: hlist_unhashed tells the truth.
THEOREM UnhashedTellsTheTruth == Spec => []UnhashedIsOutside
<1>1. IInv => UnhashedIsOutside
  <2> SUFFICES ASSUME NEW L, Chains(M, L), NEW n \in Nodes, pprev[n] \notin {UNSET, POISON2}
               PROVE  hlist_unhashed(M, n) <=> ~InList(n) /\ ~Fake(n)
    BY DEF IInv, UnhashedIsOutside
  <2>1. ASSUME ~InList(n), ~Fake(n) PROVE hlist_unhashed(M, n)
    <3>1. Outside(L, n)
      BY <2>1, InListIsNotOutside
    <3> QED BY <2>1, <3>1 DEF Chains, Others, Free, hlist_unhashed, Fake, M
  <2>2. ASSUME hlist_unhashed(M, n) PROVE ~InList(n) /\ ~Fake(n)
    <3>1. ~InList(n)
      BY <2>2, FakeIsOutside, InListIsNotOutside
    <3> QED BY <2>2, <3>1, CellsAssumption DEF hlist_unhashed, Fake, M
  <2> QED BY <2>1, <2>2
<1> QED
  BY <1>1, InitIInv, NextIInv, PTL DEF Spec

\* The invariant ChainLoopMeetsAll of the runs: whatever a loop's body adds, deletes or moves,
\* the loop stays in a list and ends having met all that stayed in front of it.
THEOREM LoopsMeetAll == Spec => []ChainLoopMeetsAll
<1>1. IInv => ChainLoopMeetsAll
  <2> SUFFICES ASSUME NEW L, Chains(M, L), LoopOK(L) PROVE ChainLoopMeetsAll
    BY DEF IInv
  <2>1. Pinned # NULL => InList(Pinned)
    BY InListIsNotOutside, FollowsSelf DEF LoopOK, Chains
  <2>2. ~Looping => Pinned = NULL
    BY DEF LoopOK, NoLoop, Pinned
  <2> QED BY <2>1, <2>2 DEF ChainLoopMeetsAll, LoopOK
<1> QED
  BY <1>1, InitIInv, NextIInv, PTL DEF Spec

-----------------------------------------------------------------------------
(* The lists of the comments.                                              *)

LEMMA WithoutIsRemoveAt ==
  ASSUME NEW S, NEW s \in Seq(S), Distinct(s), NEW n
  PROVE  /\ \A q \in 1..Len(s) : s[q] = n => Abstract!Without(s, n) = RemoveAt(s, q)
         /\ (\A q \in 1..Len(s) : s[q] # n) => Abstract!Without(s, n) = s
<1> DEFINE I == {i \in 1..Len(s) : s[i] = n}
           p == Abstract!SelectInSeq(s, LAMBDA x : x = n)
<1>1. Abstract!Without(s, n) = IF \E i \in 1..Len(s) : s[i] = n THEN RemoveAt(s, p) ELSE s
  BY DEF Abstract!Without, Abstract!RemoveFirst, Abstract!RemoveAt, RemoveAt
<1>2. ASSUME NEW q \in 1..Len(s), s[q] = n PROVE p = q
  <2>1. Len(s) \in Nat
    BY LenProperties
  <2>2. I = {q}
    BY <1>2 DEF Distinct
  <2>3. Abstract!Min(I) = q
    <3>1. q \in I /\ \A x \in I : q <= x
      BY <2>1, <2>2
    <3> HIDE DEF I
    <3> QED BY <2>2, <3>1 DEF Abstract!Min
  <2>4. p = IF I # {} THEN Abstract!Min(I) ELSE 0
    BY DEF Abstract!SelectInSeq
  <2> HIDE DEF I, p
  <2> QED BY <2>2, <2>3, <2>4
<1> HIDE DEF p
<1> QED
  BY <1>1, <1>2

\* Entries has read the lists.
AllRead == \A L : Chains(M, L) => [h \in Heads |-> Entries(h)] = L

LEMMA ListsAreRead == AllRead
<1> SUFFICES ASSUME NEW L, Chains(M, L) PROVE [h \in Heads |-> Entries(h)] = L
  BY DEF AllRead
<1>1. L = [h \in Heads |-> L[h]]
  BY DEF Chains
<1> QED
  BY <1>1, EntriesAreLists

\* What a call does to the lists is what the comment on its function says.
LEMMA DidIsEffect ==
  ASSUME NEW L, Chains(M, L), NEW K, Chains(M, K)', Did(L, K, call')
  PROVE  Abstract!Effect(call')
<1> DEFINE lists == [h \in Heads |-> Entries(h)]
<1>1. lists = L
  BY ListsAreRead DEF AllRead
<1>2. lists' = K
  <2>1. AllRead'
    BY ListsAreRead, PTL
  <2> QED BY <2>1 DEF AllRead
<1>3. L \in [Heads -> Seq(Nodes)] /\ Once(L)
  BY DEF Chains
<1>4. /\ \A h \in Heads : Len(L[h]) \in Nat /\ DOMAIN L[h] = 1..Len(L[h]) /\ Distinct(L[h])
      /\ \A n : Abstract!Loose(n) <=> Outside(L, n)
  <2>1. \A h \in Heads : Len(L[h]) \in Nat /\ DOMAIN L[h] = 1..Len(L[h]) /\ Distinct(L[h])
    BY <1>3 DEF Distinct, Once
  <2>2. \A h \in Heads : lists[h] = L[h]
    BY <1>1
  <2>3. \A n : Abstract!Loose(n) <=> \A h \in Heads : ~ (n \in {L[h][i] : i \in DOMAIN L[h]})
    BY <2>2 DEF Abstract!Loose, Abstract!Holds, Abstract!ToSet
  <2> QED BY <2>1, <2>3 DEF Outside
\* Where the place c of the list of h is, for the comments.
<1>5. ASSUME NEW h \in Heads, NEW q \in 0..Len(L[h])
      PROVE  /\ Abstract!IsPlace(h, Cell(h, L[h], q))
             /\ Abstract!Pos(L[h], h, Cell(h, L[h], q)) = q
  <2>1. CASE q = 0
    BY <2>1 DEF Cell, Abstract!IsPlace, Abstract!Pos
  <2>2. CASE q # 0
    <3> DEFINE x == L[h][q]
    <3>1. q \in 1..Len(L[h]) /\ x \in Nodes /\ x # h /\ Cell(h, L[h], q) = x
      BY <1>3, <1>4, <2>2, PlacesDiffer, CellsAssumption DEF Cell
    <3>2. Abstract!Holds(h, x)
      BY <1>1, <1>4, <3>1 DEF Abstract!Holds, Abstract!ToSet, lists
    <3>3. \A i \in 1..Len(L[h]) : L[h][i] = x <=> i = q
      BY <1>4, <3>1 DEF Distinct
    <3> HIDE DEF x
    <3>4. (CHOOSE i \in 1..Len(L[h]) : L[h][i] = x) = q
      BY <3>1, <3>3
    <3> QED BY <3>1, <3>2, <3>4 DEF Abstract!IsPlace, Abstract!Pos
  <2> QED BY <2>1, <2>2
<1>6. ASSUME NEW h \in Heads, NEW q \in 0..Len(L[h]), NEW n \in Nodes
      PROVE  Abstract!Put(L[h], q, <<n>>) = InsertAt(L[h], q + 1, n)
  <2>1. (q + 1) - 1 = q
    BY <1>4
  <2> QED BY Zenon, <2>1 DEF Abstract!Put, InsertAt
<1>7. CASE call' = <<"none">> /\ K = L
  BY <1>1, <1>2, <1>7 DEF Abstract!Effect, lists
<1>8. ASSUME NEW n \in Nodes, NEW h \in Heads, NEW q \in 0..Len(L[h]), Outside(L, n),
             call' = <<"list_add", n, h, Cell(h, L[h], q)>>, K = With(L, h, q, n)
      PROVE  Abstract!Effect(call')
  <2> DEFINE c == Cell(h, L[h], q)
  <2>1. Abstract!list_add(n, h, c)
    <3>1. K = [L EXCEPT ![h] = Abstract!Put(@, Abstract!Pos(@, h, c), <<n>>)]
      BY Zenon, <1>3, <1>5, <1>6, <1>8 DEF With
    <3>2. Abstract!Loose(n) /\ Abstract!IsPlace(h, c)
      BY <1>4, <1>5, <1>8
    <3> HIDE DEF c
    <3> QED BY <1>1, <1>2, <3>1, <3>2 DEF Abstract!list_add, lists
  <2> HIDE DEF c
  <2>2. call'[1] = "list_add" /\ call'[2] = n /\ call'[3] = h /\ call'[4] = c
    BY <1>8 DEF c
  <2> QED BY <2>1, <2>2 DEF Abstract!Effect
<1>9. ASSUME NEW n \in Nodes, NEW h \in Heads, NEW q \in 1..Len(L[h]), Outside(L, n),
             call' = <<"list_add_tail", n, h, L[h][q]>>, K = With(L, h, q - 1, n)
      PROVE  Abstract!Effect(call')
  <2> DEFINE c == L[h][q]
  <2>0. q \in 0..Len(L[h]) /\ c = Cell(h, L[h], q) /\ q - 1 \in 0..Len(L[h]) /\ c # h
    BY <1>3, <1>4, PlacesDiffer, CellsAssumption DEF Cell
  <2>1. Abstract!list_add_tail(n, h, c)
    <3>1. Abstract!Loose(n) /\ Abstract!IsPlace(h, c) /\ Abstract!Pos(L[h], h, c) = q
      BY <1>4, <1>5, <1>9, <2>0
    <3> HIDE DEF c
    <3>2. K = [L EXCEPT ![h] = Abstract!Put(@, IF c = h THEN Len(@) ELSE Abstract!Pos(@, h, c) - 1, <<n>>)]
      BY Zenon, <1>3, <1>6, <1>9, <2>0, <3>1 DEF With
    <3> QED BY <1>1, <1>2, <3>1, <3>2 DEF Abstract!list_add_tail, lists
  <2> HIDE DEF c
  <2>2. call'[1] = "list_add_tail" /\ call'[2] = n /\ call'[3] = h /\ call'[4] = c
    BY <1>9 DEF c
  <2> QED BY <2>1, <2>2 DEF Abstract!Effect
<1>10. ASSUME NEW n, call' = <<"list_del", n>>, K = [h \in Heads |-> Abstract!Without(L[h], n)]
       PROVE  Abstract!Effect(call')
  <2>1. Abstract!list_del(n)
    BY <1>1, <1>2, <1>10 DEF Abstract!list_del, lists
  <2>2. call'[1] = "list_del" /\ call'[2] = n
    BY <1>10
  <2> QED BY <2>1, <2>2 DEF Abstract!Effect
<1>11. ASSUME NEW n \in Nodes, Outside(L, n), call' = <<"list_del", n>>, K = L
       PROVE  Abstract!Effect(call')
  <2>1. \A h \in Heads : Abstract!Without(L[h], n) = L[h]
    <3> TAKE h \in Heads
    <3> QED BY <1>3, <1>4, <1>11, WithoutIsRemoveAt DEF Outside
  <2>2. K = [h \in Heads |-> Abstract!Without(L[h], n)]
    BY <1>3, <1>11, <2>1
  <2> QED BY <1>10, <1>11, <2>2
<1>12. ASSUME NEW h \in Heads, NEW q \in 1..Len(L[h]), call' = <<"list_del", L[h][q]>>, K = Less(L, h, q)
       PROVE  Abstract!Effect(call')
  <2> DEFINE n == L[h][q]
  <2>1. \A g \in Heads : Abstract!Without(L[g], n) = IF g = h THEN RemoveAt(L[h], q) ELSE L[g]
    <3> TAKE g \in Heads
    <3>1. L[g] \in Seq(Nodes) /\ Distinct(L[g])
      BY <1>3, <1>4
    <3>2. g # h => \A i \in 1..Len(L[g]) : L[g][i] # n
      BY <1>3 DEF Once
    <3> QED BY <3>1, <3>2, WithoutIsRemoveAt
  <2>2. K = [g \in Heads |-> Abstract!Without(L[g], n)]
    BY Zenon, <1>3, <1>12, <2>1 DEF Less
  <2> QED BY <1>10, <1>12, <2>2
<1>13. ASSUME NEW g \in Heads, NEW h \in Heads, g # h, L[h] = <<>>,
              call' = <<"list_splice", g, h>>, K = Given(L, g, h)
       PROVE  Abstract!Effect(call')
  <2>1. Abstract!list_splice(g, h)
    <3>1. L[g] \o L[h] = L[g]
      BY <1>3, <1>13, ConcatEmptySeq
    <3>2. K = [L EXCEPT ![h] = L[g] \o L[h], ![g] = <<>>]
      BY <1>13, <3>1 DEF Given
    <3> QED BY Zenon, <1>1, <1>2, <1>3, <3>2 DEF Abstract!list_splice, lists
  <2>2. call'[1] = "list_splice" /\ call'[2] = g /\ call'[3] = h
    BY <1>13
  <2> QED BY <2>1, <2>2 DEF Abstract!Effect
<1> QED
  BY <1>7, <1>8, <1>9, <1>11, <1>12, <1>13 DEF Did

\* The property ChainsRefineLists of the runs: each hlist function does to the sequences
\* of nodes what the comment on it says.
THEOREM ChainsRefine == Spec => ChainsRefineLists
<1>1. Init => Abstract!Init
  <2> SUFFICES ASSUME Init PROVE Abstract!Init
    OBVIOUS
  <2>1. [h \in Heads |-> Entries(h)] = NoEntries
    BY InitChains, ListsAreRead DEF AllRead
  <2> QED BY <2>1 DEF Init, NoEntries, Abstract!Init
<1>2. IInv /\ [Next]_vars => [Abstract!Effect(call')]_(Abstract!vars)
  <2> SUFFICES ASSUME IInv, [Next]_vars PROVE [Abstract!Effect(call')]_(Abstract!vars)
    OBVIOUS
  <2>1. PICK L : Chains(M, L) /\ LoopOK(L)
    BY DEF IInv
  <2>2. CASE Next
    <3>1. PICK K : Chains(M, K)' /\ Did(L, K, call')
      BY <2>1, <2>2, NextGoes DEF Goes
    <3> QED BY <2>1, <3>1, DidIsEffect
  <2>3. CASE UNCHANGED vars
    BY <2>3 DEF vars, Abstract!vars, Entries
  <2> QED BY <2>2, <2>3
<1> QED
  BY <1>1, <1>2, InitIInv, NextIInv, PTL DEF Spec, ChainsRefineLists, Abstract!Spec

(***************************************************************************)
(* The list demo.  Behind test_list_add the memory is the list of the      *)
(* entries made, the newest in front, with anything in their unset fields. *)
(***************************************************************************)

\* What the walk prints at the entry c, and at the first n entries, the newest in front.
TextAt(m, c) ==
  LET line(x) == IF x = WILD THEN WILD ELSE m.cur_weight[x]
  IN  <<line(c)>> \o IF m.fir[c] = NULL THEN <<>> ELSE <<line(m.fir[c])>>
Lines(m, n) == [i \in 1..n |-> TextAt(m, Num + 1 - i)]

Value == {NULL, WILD} \cup (0..Num)

\* The k structs made so far are the head and a list of the others, the newest first.
Built(m, k) ==
  /\ m.next[0] = k - 1
  /\ \A i \in 1..(k - 1) : m.next[i] = i - 1 /\ m.cur_weight[i] = i

Stages == {"head", "add", "walk", "set_first", "walk_again", "failed", "crashed"}

DemoInv ==
  /\ mem \in [Demo!Fields -> [0..Num -> Value]]
  /\ made \in 0..(Num + 1) /\ pos \in 0..Num /\ count \in Nat /\ pc \in Stages
  /\ pc = "head" => made = 0
  /\ pc = "add" => made # 0 /\ Built(mem, made)
  /\ pc \in {"walk", "set_first", "walk_again"} => made = Num + 1 /\ Built(mem, Num + 1)
  /\ pc \in {"walk", "walk_again"} => printed = Lines(mem, Num - pos)
  /\ pc \in {"set_first", "walk_again"} => earlier = Lines(mem, Num)
  /\ pc = "set_first" => count = Num - pos /\ (Index < count => mem.fir[0] = Num)
  /\ pc = "walk_again" /\ Index < Num => mem.fir[0] = Num

\* A field set leaves the others, and a memory.
LEMMA FieldSet ==
  ASSUME NEW m \in [Demo!Fields -> [0..Num -> Value]], NEW f \in Demo!Fields,
         NEW c \in 0..Num, NEW v \in Value
  PROVE  LET w == [m EXCEPT ![f][c] = v]
         IN  /\ w \in [Demo!Fields -> [0..Num -> Value]]
             /\ w[f][c] = v
             /\ \A g \in Demo!Fields : \A x \in 0..Num : (g # f \/ x # c) => w[g][x] = m[g][x]
BY Zenon

\* The memory in which list_add has put the struct made last behind the head.
LEMMA NodeAdded ==
  ASSUME NEW m \in [Demo!Fields -> [0..Num -> Value]], NEW k \in 1..Num, Built(m, k),
         NEW junk \in Value, Num \in Nat
  PROVE  LET a == [m EXCEPT !.fir[k] = junk]
             b == [a EXCEPT !.cur_weight[k] = k]
             w == Demo!list_add(b, k, 0)
         IN  w \in [Demo!Fields -> [0..Num -> Value]] /\ Built(w, k + 1)
<1> DEFINE Mem == [Demo!Fields -> [0..Num -> Value]]
           a == [m EXCEPT !["fir"][k] = junk]
           b == [a EXCEPT !["cur_weight"][k] = k]
           n == b.next[0]
           c == [b EXCEPT !["prev"][n] = k]
           d == [c EXCEPT !["next"][k] = n]
           e == [d EXCEPT !["prev"][k] = 0]
           w == [e EXCEPT !["next"][0] = k]
<1>0. /\ "fir" \in Demo!Fields /\ "cur_weight" \in Demo!Fields
      /\ "next" \in Demo!Fields /\ "prev" \in Demo!Fields
  BY DEF Demo!Fields
<1>1. k \in 0..Num /\ 0 \in 0..Num /\ k \in Value /\ 0 \in Value /\ k # 0
  BY DEF Value
<1>2. /\ a \in Mem
      /\ \A g \in Demo!Fields : \A x \in 0..Num : (g # "fir" \/ x # k) => a[g][x] = m[g][x]
  BY <1>0, <1>1, FieldSet
<1> HIDE DEF a
<1>3. /\ b \in Mem /\ b["cur_weight"][k] = k
      /\ \A g \in Demo!Fields : \A x \in 0..Num : (g # "cur_weight" \/ x # k) => b[g][x] = a[g][x]
  BY <1>0, <1>1, <1>2, FieldSet
<1> HIDE DEF b
<1>3a. "next" # "cur_weight" /\ "next" # "fir" /\ "next" # "prev" /\ "cur_weight" # "fir" /\ "cur_weight" # "prev"
  OBVIOUS
<1>3b. ASSUME NEW x \in 0..Num
       PROVE  /\ b["next"][x] = m["next"][x]
              /\ x # k => b["cur_weight"][x] = m["cur_weight"][x]
  BY <1>0, <1>2, <1>3, <1>3a
<1>4. n = k - 1 /\ n \in 0..Num /\ n \in Value
  <2>1. b["next"][0] = m["next"][0]
    BY <1>1, <1>3b
  <2> QED BY <1>1, <2>1 DEF Built, Value
<1> HIDE DEF n
<1>5. /\ c \in Mem
      /\ \A g \in Demo!Fields : \A x \in 0..Num : (g # "prev" \/ x # n) => c[g][x] = b[g][x]
  BY <1>0, <1>1, <1>3, <1>4, FieldSet
<1> HIDE DEF c
<1>6. /\ d \in Mem /\ d["next"][k] = n
      /\ \A g \in Demo!Fields : \A x \in 0..Num : (g # "next" \/ x # k) => d[g][x] = c[g][x]
  BY <1>0, <1>1, <1>4, <1>5, FieldSet
<1> HIDE DEF d
<1>7. /\ e \in Mem
      /\ \A g \in Demo!Fields : \A x \in 0..Num : (g # "prev" \/ x # k) => e[g][x] = d[g][x]
  BY <1>0, <1>1, <1>6, FieldSet
<1> HIDE DEF e
<1>8. /\ w \in Mem /\ w["next"][0] = k
      /\ \A g \in Demo!Fields : \A x \in 0..Num : (g # "next" \/ x # 0) => w[g][x] = e[g][x]
  BY <1>0, <1>1, <1>7, FieldSet
<1> HIDE DEF w
<1>9. Built(w, k + 1)
  <2>1. ASSUME NEW x \in 1..Num
        PROVE  /\ w["next"][x] = IF x = k THEN n ELSE m["next"][x]
               /\ w["cur_weight"][x] = IF x = k THEN k ELSE m["cur_weight"][x]
    <3>1. x \in 0..Num /\ x # 0
      OBVIOUS
    <3>2. w["next"][x] = e["next"][x] /\ w["cur_weight"][x] = e["cur_weight"][x]
      BY <1>0, <1>8, <3>1
    <3>3. e["next"][x] = d["next"][x] /\ e["cur_weight"][x] = d["cur_weight"][x]
      BY <1>0, <1>3a, <1>7, <3>1
    <3>4. d["next"][x] = (IF x = k THEN n ELSE c["next"][x]) /\ d["cur_weight"][x] = c["cur_weight"][x]
      BY <1>0, <1>3a, <1>6, <3>1
    <3>5. c["next"][x] = b["next"][x] /\ c["cur_weight"][x] = b["cur_weight"][x]
      BY Zenon, <1>0, <1>3a, <1>5, <3>1
    <3>6. /\ b["next"][x] = m["next"][x]
          /\ b["cur_weight"][x] = IF x = k THEN k ELSE m["cur_weight"][x]
      BY <1>3, <1>3b, <3>1
    <3> QED BY <3>2, <3>3, <3>4, <3>5, <3>6
  <2>2. w.next[0] = (k + 1) - 1
    BY <1>8
  <2> SUFFICES ASSUME NEW i \in 1..((k + 1) - 1) PROVE w.next[i] = i - 1 /\ w.cur_weight[i] = i
    BY <2>2, Zenon DEF Built
  <2>3. i \in 1..Num /\ (i = k \/ i \in 1..(k - 1))
    OBVIOUS
  <2>4. (k + 1) - 1 = k /\ (i # k => m.next[i] = i - 1 /\ m.cur_weight[i] = i)
    BY <2>3 DEF Built
  <2> QED BY <1>4, <2>1, <2>3, <2>4
<1> QED
  BY <1>8, <1>9
     DEF Demo!list_add, Demo!AddBetween, Demo!SetNext, Demo!SetPrev, a, b, c, d, e, n, w

\* Another line of the walk.
LEMMA LinesAppend ==
  ASSUME NEW m, NEW n \in 0..Num, n # Num, Num \in Nat
  PROVE  Append(Lines(m, n), TextAt(m, Num - n)) = Lines(m, n + 1)
<1> DEFINE t == TextAt(m, Num - n)
           s == Lines(m, n)
           E == {TextAt(m, x) : x \in 1..Num}
<1>1. n \in Nat /\ (Num + 1) - (n + 1) = Num - n /\ \A i \in 1..(n + 1) : Num + 1 - i \in 1..Num
  OBVIOUS
<1>2. t \in E /\ \A i \in 1..n : TextAt(m, Num + 1 - i) \in E
  BY <1>1
<1>3. s \in [1..n -> E]
  BY <1>2 DEF Lines
<1>4. s \in Seq(E) /\ Len(s) = n
  BY <1>1, <1>3
<1>5. \A i \in 1..(n + 1) : Lines(m, n + 1)[i] = IF i = n + 1 THEN t ELSE s[i]
  BY <1>1 DEF Lines
<1> HIDE DEF E, t
<1>6. Lines(m, n + 1) = [i \in 1..(n + 1) |-> Lines(m, n + 1)[i]]
  BY DEF Lines
<1> HIDE DEF s
<1>7. Append(s, t) = [i \in 1..(n + 1) |-> IF i = n + 1 THEN t ELSE s[i]]
  <2> DEFINE a == Append(s, t)
  <2>1. /\ a \in Seq(E) /\ Len(a) = n + 1 /\ a[n + 1] = t
        /\ \A i \in 1..n : a[i] = s[i]
    BY <1>2, <1>4, AppendProperties
  <2> HIDE DEF a
  <2>2. a = [i \in 1..(n + 1) |-> a[i]]
    BY <2>1
  <2>3. \A i \in 1..(n + 1) : a[i] = IF i = n + 1 THEN t ELSE s[i]
    BY <1>1, <2>1
  <2>4. a = [i \in 1..(n + 1) |-> IF i = n + 1 THEN t ELSE s[i]]
    BY <2>2, <2>3
  <2> QED BY <2>4 DEF a
<1> QED BY Zenon, <1>5, <1>6, <1>7 DEF t, s

\* The walk prints the same when nothing but the head's field has changed.
LEMMA LinesKept ==
  ASSUME NEW m, NEW w, NEW n \in 0..Num, Num \in Nat,
         w.cur_weight = m.cur_weight, \A x \in 1..Num : w.fir[x] = m.fir[x]
  PROVE  Lines(w, n) = Lines(m, n)
<1>1. \A i \in 1..n : Num + 1 - i \in 1..Num
  OBVIOUS
<1>2. \A i \in 1..n : TextAt(w, Num + 1 - i) = TextAt(m, Num + 1 - i)
  BY <1>1 DEF TextAt
<1> QED BY <1>2 DEF Lines

\* The invariant holds before anything is allocated.
LEMMA DemoStarts == Demo!DemoAssumption /\ Demo!Init => DemoInv
<1> SUFFICES ASSUME Demo!DemoAssumption, Demo!Init PROVE DemoInv
  OBVIOUS
<1>1. WILD \in Value /\ 0 \in 0..Num /\ 0 \in 0..(Num + 1)
  BY DEF Demo!DemoAssumption, Value
<1>2. mem \in [Demo!Fields -> [0..Num -> Value]]
  BY <1>1 DEF Demo!Init, Demo!Structs
<1> QED BY <1>1, <1>2 DEF DemoInv, Demo!Init, Stages

\* The structs are made, one after the other, or a malloc fails.
LEMMA DemoAllocates ==
  ASSUME Demo!DemoAssumption, DemoInv, Demo!AllocHead \/ Demo!AllocNode \/ Demo!AllocFails
  PROVE  DemoInv'
<1> USE DEF Demo!DemoAssumption, Demo!Structs
<1>0. Demo!Junk \subseteq Value
  BY DEF Demo!Junk, Value
<1>1. CASE Demo!AllocHead
  <2>1. PICK junk \in Value : mem' = Demo!INIT_LIST_HEAD([mem EXCEPT !.fir[0] = junk], 0)
    BY Zenon, <1>0, <1>1 DEF Demo!AllocHead, Demo!Malloc, DemoInv
  <2> DEFINE Mem == [Demo!Fields -> [0..Num -> Value]]
             a == [mem EXCEPT !["fir"][0] = junk]
             b == [a EXCEPT !["next"][0] = 0]
             c == [b EXCEPT !["prev"][0] = 0]
  <2>2. "fir" \in Demo!Fields /\ "next" \in Demo!Fields /\ "prev" \in Demo!Fields /\ "next" # "prev"
    BY DEF Demo!Fields
  <2>3. 0 \in 0..Num /\ 0 \in Value
    BY DEF Value
  <2>4. a \in Mem
    BY <2>2, <2>3, FieldSet DEF DemoInv
  <2> HIDE DEF a
  <2>5. b \in Mem /\ b["next"][0] = 0
    BY <2>2, <2>3, <2>4, FieldSet
  <2> HIDE DEF b
  <2>6. c \in Mem /\ c["next"][0] = 0
    BY <2>2, <2>3, <2>5, FieldSet
  <2> HIDE DEF c
  <2>7. mem' = c
    BY Zenon, <2>1 DEF Demo!INIT_LIST_HEAD, Demo!SetNext, Demo!SetPrev, a, b, c
  <2>8. Built(mem', 1)
    BY <2>6, <2>7 DEF Built
  <2>9. made' = 1 /\ pc' = "add" /\ UNCHANGED <<pos, count>> /\ 1 \in 0..(Num + 1)
    BY <1>1 DEF Demo!AllocHead
  <2> QED BY <2>6, <2>7, <2>8, <2>9 DEF DemoInv, Stages
<1>2. CASE Demo!AllocNode
  <2>1. PICK junk \in Value :
          mem' = Demo!list_add([[mem EXCEPT !.fir[made] = junk] EXCEPT !.cur_weight[made] = made], made, 0)
    BY <1>0, <1>2 DEF Demo!AllocNode, Demo!Malloc
  <2>2. /\ made' = made + 1 /\ pc = "add" /\ made <= Num /\ UNCHANGED <<pc, pos, count>>
        /\ made \in 0..(Num + 1) /\ made # 0 /\ Built(mem, made)
        /\ mem \in [Demo!Fields -> [0..Num -> Value]]
    BY <1>2 DEF Demo!AllocNode, DemoInv
  <2>3. made \in 1..Num /\ made' \in 0..(Num + 1) /\ made' # 0
    BY <2>2
  <2>4. mem' \in [Demo!Fields -> [0..Num -> Value]] /\ Built(mem', made + 1)
    BY <2>1, <2>2, <2>3, NodeAdded
  <2> QED BY <2>2, <2>3, <2>4 DEF DemoInv, Stages
<1>3. CASE Demo!AllocFails
  <2>1. pc' = "failed" /\ UNCHANGED <<mem, made, pos, count, printed, earlier>>
    BY <1>3 DEF Demo!AllocFails
  <2> QED BY <2>1 DEF DemoInv, Stages
<1> QED BY <1>1, <1>2, <1>3

\* A loop over the list begins at the newest entry.
LEMMA DemoBegins ==
  ASSUME Demo!DemoAssumption, DemoInv, Demo!BeginWalk \/ Demo!BeginSetFirst \/ Demo!BeginWalkAgain
  PROVE  DemoInv'
<1> USE DEF Demo!DemoAssumption, Demo!Structs
<1>1. /\ UNCHANGED <<mem, made>> /\ pos' = mem.next[0] /\ count' = 0 /\ printed' = <<>>
      /\ \/ pc = "add" /\ made = Num + 1 /\ pc' = "walk" /\ earlier' = earlier
         \/ pc = "walk" /\ pos = 0 /\ pc' = "set_first" /\ earlier' = printed
         \/ pc = "set_first" /\ pos = 0 /\ pc' = "walk_again" /\ earlier' = earlier
  BY DEF Demo!BeginWalk, Demo!BeginSetFirst, Demo!BeginWalkAgain, Demo!Begin
<1>2. made = Num + 1 /\ Built(mem, Num + 1)
  BY <1>1 DEF DemoInv
<1>3. pos' = Num /\ pos' \in 0..Num /\ Num - pos' = 0 /\ (Num + 1) - 1 = Num
  BY <1>1, <1>2 DEF Built
<1>4. Lines(mem, 0) = <<>>
  BY DEF Lines
<1>5. CASE pc' = "walk"
  BY <1>1, <1>2, <1>3, <1>4, <1>5 DEF DemoInv, Stages
<1>6. CASE pc' = "set_first"
  <2>1. pc = "walk" /\ pos = 0 /\ earlier' = printed
    BY <1>1, <1>6
  <2>2. printed = Lines(mem, Num - 0) /\ Num - 0 = Num
    BY <2>1 DEF DemoInv
  <2>3. ~ (Index < count')
    BY <1>1
  <2> QED BY <1>1, <1>2, <1>3, <1>6, <2>1, <2>2, <2>3 DEF DemoInv, Stages
<1>7. CASE pc' = "walk_again"
  <2>1. pc = "set_first" /\ pos = 0 /\ earlier' = earlier
    BY <1>1, <1>7
  <2>2. earlier = Lines(mem, Num) /\ count = Num - 0 /\ (Index < count => mem.fir[0] = Num)
    BY <2>1 DEF DemoInv
  <2>3. Index < Num => mem.fir[0] = Num
    BY <2>2
  <2> QED BY <1>1, <1>2, <1>3, <1>4, <1>7, <2>1, <2>2, <2>3 DEF DemoInv, Stages
<1> QED BY <1>1, <1>5, <1>6, <1>7

\* An entry printed, and the next one.
LEMMA DemoPrints ==
  ASSUME Demo!DemoAssumption, DemoInv, Demo!ForEach
  PROVE  DemoInv'
<1> USE DEF Demo!DemoAssumption, Demo!Structs
<1>1. /\ pc \in {"walk", "walk_again"} /\ pos # 0 /\ pos' = mem.next[pos]
      /\ UNCHANGED <<mem, made, pc, count, earlier>>
      /\ printed' = Append(printed, TextAt(mem, pos))
  BY DEF Demo!ForEach, Demo!Line, TextAt
<1>2. made = Num + 1 /\ Built(mem, Num + 1) /\ pos \in 0..Num /\ printed = Lines(mem, Num - pos)
  BY <1>1 DEF DemoInv
<1>3. /\ pos \in 1..((Num + 1) - 1) /\ Num - pos \in 0..Num /\ Num - pos # Num
      /\ Num - (Num - pos) = pos /\ (Num - pos) + 1 = Num - (pos - 1) /\ pos - 1 \in 0..Num
  BY <1>1, <1>2
<1>4. pos' = pos - 1
  BY <1>1, <1>2, <1>3 DEF Built
<1>5. Append(Lines(mem, Num - pos), TextAt(mem, Num - (Num - pos))) = Lines(mem, (Num - pos) + 1)
  BY <1>3, LinesAppend
<1>6. printed' = Lines(mem, Num - pos')
  BY <1>1, <1>2, <1>3, <1>4, <1>5
<1> QED BY <1>1, <1>2, <1>3, <1>4, <1>6 DEF DemoInv, Stages

\* What test_set_first sets is not read by the walk.
LEMMA DemoSets ==
  ASSUME Demo!DemoAssumption, DemoInv, Demo!SetFirst
  PROVE  DemoInv'
<1> USE DEF Demo!DemoAssumption, Demo!Structs
<1>1. /\ pc = "set_first" /\ pos # 0 /\ pos' = mem.next[pos] /\ count' = count + 1
      /\ mem' = IF count = Index THEN [mem EXCEPT !.fir[0] = mem.next[0]] ELSE mem
      /\ UNCHANGED <<made, pc, printed, earlier>>
  BY DEF Demo!SetFirst, Demo!Marked, Demo!list_first_entry
<1>2. /\ made = Num + 1 /\ Built(mem, Num + 1) /\ pos \in 0..Num /\ earlier = Lines(mem, Num)
      /\ count = Num - pos /\ (Index < count => mem.fir[0] = Num) /\ count \in Nat
      /\ mem \in [Demo!Fields -> [0..Num -> Value]]
  BY <1>1 DEF DemoInv
<1>3. pos \in 1..((Num + 1) - 1) /\ pos - 1 \in 0..Num /\ count + 1 = Num - (pos - 1) /\ (Num + 1) - 1 = Num
  BY <1>1, <1>2
<1>4. pos' = pos - 1 /\ mem.next[0] = Num
  BY <1>1, <1>2, <1>3 DEF Built
<1>5. /\ "fir" \in Demo!Fields /\ "next" \in Demo!Fields /\ "cur_weight" \in Demo!Fields
      /\ "fir" # "next" /\ "fir" # "cur_weight" /\ 0 \in 0..Num /\ Num \in Value
  BY DEF Demo!Fields, Value
<1>6. /\ mem' \in [Demo!Fields -> [0..Num -> Value]]
      /\ mem'.next = mem.next /\ mem'.cur_weight = mem.cur_weight
      /\ \A x \in 1..Num : mem'.fir[x] = mem.fir[x]
      /\ mem'.fir[0] = IF count = Index THEN Num ELSE mem.fir[0]
  <2>1. CASE count = Index
    <3> DEFINE w == [mem EXCEPT !["fir"][0] = Num]
    <3>1. mem' = w
      BY <1>1, <1>4, <2>1
    <3>2. /\ w \in [Demo!Fields -> [0..Num -> Value]] /\ w["fir"][0] = Num
          /\ \A g \in Demo!Fields : \A x \in 0..Num : (g # "fir" \/ x # 0) => w[g][x] = mem[g][x]
      BY <1>2, <1>5, FieldSet
    <3>3. w["next"] = mem["next"] /\ w["cur_weight"] = mem["cur_weight"]
      BY <1>2, <1>5
    <3>4. \A x \in 1..Num : x \in 0..Num /\ x # 0
      OBVIOUS
    <3> HIDE DEF w
    <3>5. \A x \in 1..Num : w["fir"][x] = mem["fir"][x]
      BY <1>5, <3>2, <3>4
    <3> QED BY <2>1, <3>1, <3>2, <3>3, <3>5
  <2>2. CASE count # Index
    BY <1>1, <1>2, <2>2
  <2> QED BY <2>1, <2>2
<1>7. Built(mem', Num + 1)
  BY <1>2, <1>6 DEF Built
<1>8. earlier' = Lines(mem', Num)
  <2>1. Num \in 0..Num
    OBVIOUS
  <2>2. Lines(mem', Num) = Lines(mem, Num)
    <3> DEFINE w == mem'
    <3> HIDE DEF w
    <3>1. w.cur_weight = mem.cur_weight /\ \A x \in 1..Num : w.fir[x] = mem.fir[x]
      BY <1>6 DEF w
    <3>2. Lines(w, Num) = Lines(mem, Num)
      BY <2>1, <3>1, LinesKept
    <3> QED BY <3>2 DEF w
  <2> QED BY <1>1, <1>2, <2>2
<1>9. Index < count' => mem'.fir[0] = Num
  <2>1. Index < count + 1 => count = Index \/ Index < count
    BY <1>2
  <2> QED BY <1>1, <1>2, <1>6, <2>1
<1>10. count' \in Nat /\ count' = Num - pos' /\ pos' \in 0..Num
  BY <1>1, <1>2, <1>3, <1>4
<1>11. made' = Num + 1 /\ Num + 1 \in 0..(Num + 1) /\ pc' = "set_first"
  BY <1>1, <1>2
<1> QED BY Zenon, <1>6, <1>7, <1>8, <1>9, <1>10, <1>11 DEF DemoInv, Stages

\* Every step of the demo keeps it.
LEMMA DemoStep == Demo!DemoAssumption /\ DemoInv /\ [Demo!Next]_(Demo!vars) => DemoInv'
<1> SUFFICES ASSUME Demo!DemoAssumption, DemoInv, [Demo!Next]_(Demo!vars) PROVE DemoInv'
  OBVIOUS
<1>1. CASE Demo!AllocHead \/ Demo!AllocNode \/ Demo!AllocFails
  BY <1>1, DemoAllocates
<1>2. CASE Demo!BeginWalk \/ Demo!BeginSetFirst \/ Demo!BeginWalkAgain
  BY <1>2, DemoBegins
<1>3. CASE Demo!ForEach
  BY <1>3, DemoPrints
<1>4. CASE Demo!SetFirst
  BY <1>4, DemoSets
<1>5. CASE Demo!ForEachCrashes
  <2>1. pc' = "crashed" /\ UNCHANGED <<mem, made, pos, count, printed, earlier>>
    BY <1>5 DEF Demo!ForEachCrashes
  <2> QED BY <2>1 DEF DemoInv, Stages
<1>6. CASE UNCHANGED Demo!vars
  BY <1>6 DEF Demo!vars, DemoInv, Stages
<1> QED BY <1>1, <1>2, <1>3, <1>4, <1>5, <1>6 DEF Demo!Next, Demo!Exit

\* The first walks of the lines are a prefix of all of them.
LEMMA DemoShows == Demo!DemoAssumption /\ DemoInv => Demo!SetFirstIsInvisible
<1> USE DEF Demo!DemoAssumption, Demo!Structs
<1> SUFFICES ASSUME Demo!DemoAssumption, DemoInv, pc = "walk_again"
             PROVE  /\ Index < Num => mem.fir[0] = Num
                    /\ \E n \in 0..Len(earlier) : printed = SubSeq(earlier, 1, n)
                    /\ [n \in 1..Len(earlier) |-> earlier[n][1]] = [n \in 1..Num |-> Num + 1 - n]
  BY DEF Demo!SetFirstIsInvisible
<1> DEFINE k == Num - pos
<1>1. /\ Index < Num => mem.fir[0] = Num
      /\ printed = Lines(mem, k) /\ earlier = Lines(mem, Num) /\ Built(mem, Num + 1) /\ pos \in 0..Num
  BY DEF DemoInv
<1>2. k \in Nat /\ k <= Num
  BY <1>1
<1> HIDE DEF k
<1>3. Len(printed) = k /\ Len(earlier) = Num
  BY <1>1, <1>2 DEF Lines
<1>4. \E n \in 0..Len(earlier) : printed = SubSeq(earlier, 1, n)
  <2>1. SubSeq(earlier, 1, k) = [i \in 1..k |-> TextAt(mem, Num + 1 - i)]
    <3>1. \A i \in 1..k : i \in 1..Num
      BY <1>2
    <3> QED BY <1>1, <1>2, <3>1 DEF Lines
  <2>2. printed = [i \in 1..k |-> TextAt(mem, Num + 1 - i)]
    BY <1>1, <1>2 DEF Lines
  <2>3. k \in 0..Len(earlier)
    BY <1>2, <1>3
  <2> QED BY Zenon, <2>1, <2>2, <2>3
<1>5. \A n \in 1..Num : earlier[n][1] = Num + 1 - n
  <2> TAKE n \in 1..Num
  <2> DEFINE c == Num + 1 - n
  <2>1. c \in 1..((Num + 1) - 1) /\ c \in 0..Num
    OBVIOUS
  <2> HIDE DEF c
  <2>2. mem.cur_weight[c] = c /\ c # WILD
    BY <1>1, <2>1 DEF Built
  <2>3. earlier[n] = TextAt(mem, c)
    BY <1>1 DEF Lines, c
  <2>4. TextAt(mem, c)[1] = c
    BY <2>2 DEF TextAt
  <2> QED BY <2>3, <2>4 DEF c
<1> QED BY Zenon, <1>1, <1>3, <1>4, <1>5

\* It holds while the demo runs, of the four parts.
DemoPart == part = "demo" => DemoInv

\* The variables of all four parts.
partsVars == <<part, vars, demoVars, nameVars, addrVars>>

\* However many entries test_list_add makes and whatever the memory held, the second walk of
\* the demo prints what the first did, and test_set_first has set the head's field only.
THEOREM SetFirstIsNeverSeen == PartsSpec => []SetFirstIsInvisible
<1>1. PartsInit => DemoPart
  BY DemoStarts, PartsAssumption DEF PartsInit, DemoPart, DemoRests
<1>2. DemoPart /\ [PartsNext]_partsVars => DemoPart'
  <2> SUFFICES ASSUME DemoPart, [PartsNext]_partsVars, part' = "demo" PROVE DemoInv'
    BY DEF DemoPart
  <2>1. part = "demo"
    BY DEF PartsNext, partsVars
  <2>2. [Demo!Next]_(Demo!vars)
    BY <2>1 DEF PartsNext, partsVars, demoVars, Demo!vars
  <2> QED BY <2>1, <2>2, DemoStep, PartsAssumption DEF DemoPart
<1>3. DemoPart => SetFirstIsInvisible
  BY DemoShows, PartsAssumption DEF DemoPart, SetFirstIsInvisible
<1> QED BY <1>1, <1>2, <1>3, PTL DEF PartsSpec, partsVars

(***************************************************************************)
(* Domain names.  Labels are where walking from the front, length by       *)
(* length, comes; that is one set of places only.                          *)
(***************************************************************************)

Buffer == [0..(BufLen - 1) -> Nat]

\* A label that begins in s at or before k, and at whose end k + 1 is.
LEMMA LabelBefore ==
  ASSUME NEW d, NEW n \in Nat, NEW s \in Dname!Starts(d, n), NEW k \in Nat, k + 1 \in s
  PROVE  \E i \in s \ {n} : i <= k /\ k + 1 = i + d[i] + 1
<1>1. /\ s \subseteq 0..n /\ 0 \in s
      /\ \A i \in s \ {n} :
           /\ d[i] \in 1..MaxLabel
           /\ i + d[i] + 1 \in s
           /\ \A j \in (i + 1)..(i + d[i]) : j \notin s
  BY DEF Dname!Starts
<1> DEFINE D == {k - i : i \in {i \in s : i <= k}}
<1>2. D \subseteq Nat /\ D # {}
  <2>1. \A i \in s : i \in Nat
    BY <1>1
  <2>2. \A i \in s : i <= k => k - i \in Nat
    BY <2>1
  <2>3. 0 \in {i \in s : i <= k}
    BY <1>1
  <2> QED BY <2>2, <2>3
<1>3. PICK i \in s : i <= k /\ Min(D) = k - i
  BY Zenon, <1>2, LeastPosition
<1>4. \A j \in s : j <= k => j <= i
  <2> TAKE j \in s
  <2> HAVE j <= k
  <2>1. k - j \in D
    OBVIOUS
  <2>2. Min(D) <= k - j
    BY Zenon, <1>2, <2>1, LeastPosition
  <2> HIDE DEF D
  <2>3. k - i <= k - j /\ i \in Nat /\ j \in Nat
    BY <1>1, <1>3, <2>2
  <2> QED BY <2>3
<1>5. i \in Nat /\ k + 1 \in 0..n
  BY <1>1
<1>6. i # n
  BY <1>3, <1>5
<1>7. d[i] \in 1..MaxLabel /\ i + d[i] + 1 \in s /\ \A j \in (i + 1)..(i + d[i]) : j \notin s
  BY <1>1, <1>6
<1>8. i + d[i] + 1 \in Nat /\ d[i] \in Int /\ d[i] >= 1
  BY <1>1, <1>7
<1>9. ~ (i + d[i] + 1 <= k)
  BY <1>4, <1>5, <1>7, <1>8
<1>10. ~ (k + 1 <= i + d[i])
  <2> SUFFICES ASSUME k + 1 <= i + d[i] PROVE FALSE
    OBVIOUS
  <2>1. k + 1 \in (i + 1)..(i + d[i])
    BY <1>3, <1>5, <1>8
  <2> QED BY <1>7, <2>1
<1>11. k + 1 = i + d[i] + 1
  BY <1>5, <1>8, <1>9, <1>10
<1> QED BY <1>3, <1>6, <1>11

\* A buffer has its labels at one set of places only.
LEMMA StartsUnique ==
  ASSUME NEW d, NEW n \in Nat, NEW s \in Dname!Starts(d, n), NEW t \in Dname!Starts(d, n)
  PROVE  s = t
<1> DEFINE S == {k \in Nat : \A j \in 0..k : j \in s <=> j \in t}
<1>1. \A u \in Dname!Starts(d, n) :
        u \subseteq 0..n /\ 0 \in u /\ \A i \in u \ {n} : i + d[i] + 1 \in u
  BY DEF Dname!Starts
<1>2. 0 \in S
  BY <1>1
<1>3. ASSUME NEW k \in Nat, k \in S PROVE k + 1 \in S
  <2>1. ASSUME NEW u \in Dname!Starts(d, n), NEW v \in Dname!Starts(d, n),
               \A j \in 0..k : j \in u => j \in v, k + 1 \in u
        PROVE  k + 1 \in v
    <3>1. PICK i \in u \ {n} : i <= k /\ k + 1 = i + d[i] + 1
      BY <2>1, LabelBefore
    <3>2. i \in 0..k
      BY <1>1, <3>1
    <3>3. i \in v \ {n}
      BY <2>1, <3>2
    <3>4. i + d[i] + 1 \in v
      BY <1>1, <3>3
    <3> QED BY <3>1, <3>4
  <2>2. \A j \in 0..k : j \in s <=> j \in t
    BY <1>3
  <2>3. k + 1 \in s <=> k + 1 \in t
    BY <2>1, <2>2
  <2>4. \A j \in 0..(k + 1) : j \in 0..k \/ j = k + 1
    OBVIOUS
  <2> QED BY <2>2, <2>3, <2>4
<1> HIDE DEF S
<1>4. Nat \subseteq S
  BY <1>2, <1>3, InductionOverPositions
<1>5. \A j \in 0..n : j \in s <=> j \in t
  BY <1>4 DEF S
<1> QED BY <1>1, <1>5

\* Where the label ends that begins behind d.
LEMMA LabelIs ==
  ASSUME NEW V, NEW src \in Seq(V), NEW d \in Nat, NEW k \in Nat,
         d + k + 1 \in Dname!Dots(src) \cup {Len(src) + 1},
         Dname!Dots(src) \cap (d + 1)..(d + k) = {}
  PROVE  Dname!LabelLen(src, d) = k
<1> DEFINE E == Dname!Dots(src) \cup {Len(src) + 1}
           A == {e \in E : e > d}
<1>0. Len(src) \in Nat /\ E \subseteq 1..(Len(src) + 1)
  BY LenProperties DEF Dname!Dots
<1>1. A \subseteq Nat /\ d + k + 1 \in A
  BY <1>0
<1>2. Min(A) \in A /\ Min(A) <= d + k + 1
  BY Zenon, <1>1, LeastPosition
<1>3. ASSUME NEW e \in A PROVE ~ (e < d + k + 1)
  <2> SUFFICES ASSUME e < d + k + 1 PROVE FALSE
    OBVIOUS
  <2>1. e \in (d + 1)..(d + k) /\ d + k + 1 \in 1..(Len(src) + 1)
    BY <1>0, <1>1
  <2>2. e # Len(src) + 1
    BY <1>0, <2>1
  <2> QED BY <2>1, <2>2
<1>4. Min(A) = d + k + 1
  <2> DEFINE m == Min(A)
  <2> HIDE DEF m, A
  <2>1. m \in Nat /\ m <= d + k + 1 /\ ~ (m < d + k + 1)
    BY Zenon, <1>1, <1>2, <1>3 DEF m
  <2> QED BY <2>1 DEF m
<1>5. Dname!Min(A) = Min(A)
  BY DEF Dname!Min, Min
<1>6. Dname!LabelLen(src, d) = Dname!Min(A) - d - 1
  BY DEF Dname!LabelLen
<1> HIDE DEF A
<1> QED BY <1>4, <1>5, <1>6

\* A label has a length, in any dotted name.
LEMMA LabelLenIsNat ==
  ASSUME NEW V, NEW src \in Seq(V), NEW d \in Dname!LengthAt(src)
  PROVE  Dname!LabelLen(src, d) \in Nat
<1> DEFINE E == Dname!Dots(src) \cup {Len(src) + 1}
           A == {e \in E : e > d}
<1>0. Len(src) \in Nat /\ E \subseteq 1..(Len(src) + 1) /\ d \in 0..Len(src)
  BY LenProperties DEF Dname!Dots, Dname!LengthAt
<1>1. A \subseteq Nat /\ Len(src) + 1 \in A
  BY <1>0
<1>2. Min(A) \in A
  BY Zenon, <1>1, LeastPosition
<1>3. Dname!Min(A) = Min(A)
  BY DEF Dname!Min, Min
<1>4. Dname!LabelLen(src, d) = Dname!Min(A) - d - 1
  BY DEF Dname!LabelLen
<1>5. Min(A) \in Nat /\ Min(A) > d
  BY <1>1, <1>2
<1> HIDE DEF A
<1> QED BY <1>0, <1>3, <1>4, <1>5

\* The labels of a well-formed name, as trans_to_dname_format writes them over old: each
\* length counts the characters behind it, up to the next length or the end.
LEMMA LabelsWritten ==
  ASSUME Dname!NamesAssumption, NEW src \in Names, Dname!WellFormed(src), NEW old \in Buffer
  PROVE  LET n == Dname!WireLen(src)
             b == Dname!Translated(old, src)
             L == Dname!LengthAt(src)
         IN  /\ n \in 1..(BufLen - 1) /\ 0 \in L /\ L \subseteq 0..(n - 1)
             /\ b[n] = old[n]
             /\ \A d \in L :
                  /\ b[d] \in 1..MaxLabel
                  /\ d + b[d] + 1 \in L \cup {n}
                  /\ \A j \in (d + 1)..(d + b[d]) :
                       j \notin L \cup {n} /\ b[j] \in Dname!Valid
<1> DEFINE N == Len(src)
           n == Dname!WireLen(src)
           b == Dname!Translated(old, src)
           L == Dname!LengthAt(src)
           Dots == Dname!Dots(src)
<1>1. /\ src \in Seq(Dname!Valid \cup {DOT}) /\ N + 1 < BufLen /\ N \in Nat /\ BufLen \in Nat
      /\ DOT \notin Dname!Valid /\ MaxLabel \in Nat
  BY LenProperties DEF Dname!NamesAssumption
<1>2. \A j \in 1..N : src[j] \in Dname!Valid \cup {DOT}
  BY <1>1, ElementOfSeq
<1>3. N # 0 /\ N \in 1..N
  <2>1. src # <<>>
    BY DEF Dname!WellFormed
  <2> QED BY <1>1, <2>1, EmptySeq
<1>4. Dots = {j \in 1..N : src[j] = DOT}
  BY DEF Dname!Dots
<1>5. n = IF N \in Dots THEN N ELSE N + 1
  BY <1>3, <1>4 DEF Dname!WireLen
<1>6. L = {0} \cup (Dots \ {N})
  BY DEF Dname!LengthAt
<1>7. \A j \in 0..(BufLen - 1) :
        b[j] = IF j \in L THEN Dname!LabelLen(src, j)
               ELSE IF j \in 1..N /\ src[j] # DOT THEN src[j] ELSE old[j]
  BY DEF Dname!Translated, Buffer
<1>8. \A d \in L : \E k \in 1..MaxLabel : d + k + 1 \in Dots \cup {N + 1} /\ Dots \cap (d + 1)..(d + k) = {}
  BY DEF Dname!WellFormed
<1> HIDE DEF b, L, n, Dots
<1>9. n \in 1..(BufLen - 1) /\ n \in N..(N + 1) /\ (n = N => N \in Dots) /\ (n = N + 1 => N \notin Dots)
  <2>1. N \in 1..(BufLen - 1) /\ N + 1 \in 1..(BufLen - 1) /\ N # N + 1
    BY <1>1, <1>3
  <2> HIDE DEF N
  <2> QED BY <1>1, <1>5, <2>1 
<1>10. L \subseteq 0..(n - 1) /\ 0 \in L
  <2> HIDE DEF N
  <2> SUFFICES ASSUME NEW j \in L PROVE j \in 0..(n - 1)
    BY Zenon, <1>6
  <2>1. j = 0 \/ (j \in 1..N /\ j # N)
    BY <1>4, <1>6
  <2> QED BY <1>1, <1>9, <2>1
<1>11. b[n] = old[n]
  <2>1. n \notin L
    BY <1>9, <1>10
  <2>2. ~ (n \in 1..N /\ src[n] # DOT)
    <3> HIDE DEF N
    <3> QED BY <1>1, <1>4, <1>9
  <2> QED BY <1>7, <1>9, <2>1, <2>2
<1>12. ASSUME NEW d \in L
       PROVE  /\ b[d] \in 1..MaxLabel
              /\ d + b[d] + 1 \in L \cup {n}
              /\ \A j \in (d + 1)..(d + b[d]) : j \notin L \cup {n} /\ b[j] \in Dname!Valid
  <2>1. PICK k \in 1..MaxLabel : d + k + 1 \in Dots \cup {N + 1} /\ Dots \cap (d + 1)..(d + k) = {}
    BY <1>8
  <2>2. d \in Nat /\ k \in Nat /\ k >= 1 /\ d \in 0..(BufLen - 1)
    BY <1>1, <1>9, <1>10
  <2>3. b[d] = k
    <3>1. Dname!LabelLen(src, d) = k
      BY <1>1, <2>1, <2>2, LabelIs DEF Dots
    <3> QED BY <1>7, <2>2, <3>1
  <2>4. d + k <= N
    <3> HIDE DEF N
    <3>1. d + k + 1 \in 1..(N + 1)
      BY <1>1, <1>4, <2>1
    <3> QED BY <1>1, <2>2, <3>1
  <2>5. d + k + 1 \in L \cup {n}
    <3> HIDE DEF N
    <3>1. CASE d + k + 1 = N + 1
      <4>1. N \in (d + 1)..(d + k)
        BY <1>1, <2>2, <3>1
      <4>2. N \notin Dots
        BY <2>1, <4>1
      <4> QED BY <1>5, <3>1, <4>2
    <3>2. CASE d + k + 1 \in Dots
      BY <1>5, <1>6, <3>2
    <3> QED BY <2>1, <3>1, <3>2
  <2>6. ASSUME NEW j \in (d + 1)..(d + k) PROVE j \notin L \cup {n} /\ b[j] \in Dname!Valid
    <3> DEFINE last == N
    <3> HIDE DEF last
    <3>1. j \in 1..last /\ j # 0 /\ j \in 0..(BufLen - 1) /\ last \in Nat /\ j \in Nat
      BY <1>1, <2>2, <2>4 DEF last
    <3>2. j \notin Dots
      BY <2>1
    <3>3. j \notin L
      BY <1>6, <3>1, <3>2
    <3>4. j # n
      BY <1>9, <3>1, <3>2 DEF last
    <3>5. src[j] # DOT /\ src[j] \in Dname!Valid
      BY <1>2, <1>4, <3>1, <3>2 DEF last
    <3> QED BY <1>7, <3>1, <3>3, <3>4, <3>5 DEF last
  <2> QED BY <2>1, <2>3, <2>5, <2>6
<1> QED BY <1>9, <1>10, <1>11, <1>12 DEF b, L, n

\* What a buffer has when the labels begin at the places of L and the name ends at n.
Labelled(b, L, n) ==
  /\ n \in Nat /\ 0 \in L /\ L \subseteq 0..(n - 1)
  /\ \A d \in L :
       /\ b[d] \in 1..MaxLabel
       /\ d + b[d] + 1 \in L \cup {n}
       /\ \A j \in (d + 1)..(d + b[d]) : j \notin L \cup {n} /\ b[j] \in Dname!Valid

\* Then these places and the end are where its labels start.
LEMMA LabelledStarts ==
  ASSUME Dname!NamesAssumption, NEW b, NEW L, NEW n, Labelled(b, L, n)
  PROVE  Dname!Starts(b, n) = {L \cup {n}}
<1>1. n \in Nat /\ n \notin L
  BY DEF Labelled
<1>2. L \cup {n} \in Dname!Starts(b, n)
  BY <1>1 DEF Labelled, Dname!Starts
<1> QED BY <1>1, <1>2, StartsUnique

\* Nothing at or behind the end matters.
LEMMA LabelledAgree ==
  ASSUME Dname!NamesAssumption, NEW b, NEW c, NEW L, NEW n, Labelled(b, L, n), \A j \in 0..(n - 1) : c[j] = b[j]
  PROVE  Labelled(c, L, n)
<1>1. n \in Nat /\ 0 \in L /\ L \subseteq 0..(n - 1)
  BY DEF Labelled
<1>2. ASSUME NEW d \in L
      PROVE  /\ c[d] = b[d]
             /\ \A j \in (d + 1)..(d + b[d]) : c[j] = b[j]
  <2>1. b[d] \in 1..MaxLabel /\ d + b[d] + 1 \in 0..n /\ d \in 0..(n - 1)
    BY <1>1 DEF Labelled
  <2>2. MaxLabel \in Nat
    BY DEF Dname!NamesAssumption
  <2>3. \A j \in (d + 1)..(d + b[d]) : j \in 0..(n - 1)
    BY <1>1, <2>1, <2>2
  <2> QED BY <2>1, <2>3
<1>3. \A d \in L : /\ c[d] \in 1..MaxLabel
                  /\ d + c[d] + 1 \in L \cup {n}
                  /\ \A j \in (d + 1)..(d + c[d]) : j \notin L \cup {n} /\ c[j] \in Dname!Valid
  BY <1>2 DEF Labelled
<1> QED BY <1>1, <1>3 DEF Labelled

\* The buffer holds the last translated name over what it held before.
NamesInv ==
  /\ buf \in Buffer
  /\ name # <<>> =>
       /\ name \in Names
       /\ \E old \in Buffer : buf = Dname!Translated(old, name) /\ (fresh => old = Dname!Cleared)
  /\ name = <<>> /\ fresh => buf = Dname!Cleared

\* trans_to_dname_format leaves a buffer of bytes.
LEMMA TranslatedIsBuffer ==
  ASSUME Dname!NamesAssumption, NEW old \in Buffer, NEW src \in Names
  PROVE  Dname!Translated(old, src) \in Buffer
<1>1. /\ src \in Seq(Dname!Valid \cup {DOT}) /\ Dname!Valid \subseteq Nat
  BY DEF Dname!NamesAssumption
<1>2. \A k \in Dname!LengthAt(src) : Dname!LabelLen(src, k) \in Nat
  BY <1>1, LabelLenIsNat
<1>3. \A k \in 1..Len(src) : src[k] # DOT => src[k] \in Nat
  <2>1. \A k \in 1..Len(src) : src[k] \in Dname!Valid \cup {DOT}
    BY <1>1, ElementOfSeq
  <2> QED BY Zenon, <1>1, <2>1
<1> QED BY <1>2, <1>3 DEF Dname!Translated, Buffer

\* A cleared buffer is not changed by a name of no characters.
LEMMA NothingWritten ==
  ASSUME Dname!NamesAssumption
  PROVE  Dname!Translated(Dname!Cleared, <<>>) = Dname!Cleared
<1>1. Len(<<>>) = 0 /\ <<>> \in Seq(Dname!Valid)
  BY EmptySeq
<1>2. Dname!Dots(<<>>) = {}
  BY <1>1 DEF Dname!Dots
<1>3. Dname!LengthAt(<<>>) = {0}
  BY <1>2 DEF Dname!LengthAt
<1>4. Dname!LabelLen(<<>>, 0) = 0
  <2>1. 0 + 0 + 1 \in Dname!Dots(<<>>) \cup {Len(<<>>) + 1} /\ Dname!Dots(<<>>) \cap (0 + 1)..(0 + 0) = {}
    BY <1>1, <1>2
  <2> QED BY Zenon, <1>1, <2>1, LabelIs
<1>5. \A k : ~ (k \in 1..Len(<<>>))
  BY <1>1
<1> QED BY <1>3, <1>4, <1>5 DEF Dname!Translated, Dname!Cleared

\* It holds of a packet and of a cleared buffer.
LEMMA NamesStart == Dname!NamesAssumption /\ Dname!Init => NamesInv
<1> SUFFICES ASSUME Dname!NamesAssumption, Dname!Init PROVE NamesInv
  OBVIOUS
<1>1. Dname!Cleared \in Buffer
  BY DEF Dname!Cleared, Buffer
<1> QED BY Zenon, <1>1 DEF NamesInv, Dname!Init, Dname!NamesAssumption, Buffer

\* Clearing keeps it, and so does a translation, over a cleared buffer or a used one.
LEMMA NamesStep == Dname!NamesAssumption /\ NamesInv /\ [Dname!Next]_(Dname!vars) => NamesInv'
<1> SUFFICES ASSUME Dname!NamesAssumption, NamesInv, [Dname!Next]_(Dname!vars) PROVE NamesInv'
  OBVIOUS
<1>1. CASE Dname!Clear
  <2>1. Dname!Cleared \in Buffer
    BY DEF Dname!Cleared, Buffer
  <2> QED BY <1>1, <2>1 DEF Dname!Clear, NamesInv
<1>2. ASSUME NEW src \in Names, Dname!trans_to_dname_format(src) PROVE NamesInv'
  <2>1. fresh /\ buf' = Dname!Translated(buf, src) /\ name' = src /\ fresh' = (name = <<>>)
    BY <1>2 DEF Dname!trans_to_dname_format
  <2>2. buf \in Buffer /\ (name = <<>> => buf = Dname!Cleared)
    BY <2>1 DEF NamesInv
  <2>3. buf' \in Buffer
    BY <2>1, <2>2, TranslatedIsBuffer
  <2>4. name' = <<>> /\ fresh' => buf' = Dname!Cleared
    BY Zenon, <2>1, <2>2, NothingWritten
  <2>5. \E old \in Buffer : buf' = Dname!Translated(old, name') /\ (fresh' => old = Dname!Cleared)
    BY Zenon, <2>1, <2>2
  <2> QED BY <2>1, <2>3, <2>4, <2>5 DEF NamesInv
<1>3. CASE UNCHANGED Dname!vars
  BY <1>3 DEF Dname!vars, NamesInv
<1> QED BY <1>1, <1>2, <1>3 DEF Dname!Next

\* It holds while the names run, of the four parts.
NamesPart == part = "names" => NamesInv

LEMMA NamesKept == PartsSpec => []NamesPart
<1>1. PartsInit => NamesPart
  BY NamesStart, PartsAssumption DEF PartsInit, NamesPart
<1>2. NamesPart /\ [PartsNext]_partsVars => NamesPart'
  <2> SUFFICES ASSUME NamesPart, [PartsNext]_partsVars, part' = "names" PROVE NamesInv'
    BY DEF NamesPart
  <2>1. part = "names"
    BY DEF PartsNext, partsVars
  <2>2. [Dname!Next]_(Dname!vars)
    BY <2>1 DEF PartsNext, partsVars, nameVars, Dname!vars
  <2> QED BY <2>1, <2>2, NamesStep, PartsAssumption DEF NamesPart
<1> QED BY <1>1, <1>2, PTL DEF PartsSpec, partsVars

\* A well-formed name that was translated has its labels in the buffer.
LEMMA NameLabelled ==
  ASSUME Dname!NamesAssumption, NamesInv, Dname!WellFormed(name)
  PROVE  LET n == Dname!WireLen(name)
             L == Dname!LengthAt(name)
         IN  n \in 0..(BufLen - 1) /\ Labelled(buf, L, n) /\ (fresh => buf[n] = 0)
<1> DEFINE n == Dname!WireLen(name)
           L == Dname!LengthAt(name)
<1>1. name # <<>>
  BY DEF Dname!WellFormed
<1>2. PICK old \in Buffer : buf = Dname!Translated(old, name) /\ (fresh => old = Dname!Cleared)
  BY <1>1 DEF NamesInv
<1>3. name \in Names
  BY <1>1 DEF NamesInv
<1>4. /\ n \in 1..(BufLen - 1) /\ 0 \in L /\ L \subseteq 0..(n - 1)
      /\ buf[n] = old[n]
      /\ \A d \in L :
           /\ buf[d] \in 1..MaxLabel
           /\ d + buf[d] + 1 \in L \cup {n}
           /\ \A j \in (d + 1)..(d + buf[d]) :
                j \notin L \cup {n} /\ buf[j] \in Dname!Valid
  BY <1>2, <1>3, LabelsWritten
<1> HIDE DEF n, L
<1>5. n \in Nat /\ n \in 0..(BufLen - 1)
  BY <1>4 DEF Dname!NamesAssumption
<1>6. fresh => buf[n] = 0
  BY <1>2, <1>4, <1>5 DEF Dname!Cleared
<1>7. Labelled(buf, L, n)
  BY <1>4, <1>5 DEF Labelled
<1> QED BY <1>5, <1>6, <1>7 DEF n, L

\* Whatever the buffer held, a well-formed name that trans_to_dname_format translates has its
\* labels in front of it, at the places where the dots of the name are; nobody writes the zero
\* behind them, and it is there when the buffer was cleared.
THEOREM NamesAreInFront == PartsSpec => []NameIsInFront
<1> USE PartsAssumption
<1>1. NamesInv => Dname!NameIsInFront
  <2> SUFFICES ASSUME NamesInv, Dname!WellFormed(name)
               PROVE  LET n == Dname!WireLen(name) IN
                      /\ Dname!IsName([buf EXCEPT ![n] = 0], n)
                      /\ Dname!Starts(buf, n) = {Dname!LengthAt(name) \cup {n}}
                      /\ fresh => buf[n] = 0
    BY DEF Dname!NameIsInFront
  <2> DEFINE n == Dname!WireLen(name)
             L == Dname!LengthAt(name)
             b == [buf EXCEPT ![n] = 0]
  <2>1. n \in 0..(BufLen - 1) /\ Labelled(buf, L, n) /\ (fresh => buf[n] = 0)
    BY NameLabelled
  <2>2. buf \in Buffer
    BY DEF NamesInv
  <2> HIDE DEF n, L
  <2>3. b[n] = 0 /\ \A j \in 0..(n - 1) : b[j] = buf[j]
    BY <2>1, <2>2 DEF Buffer, Dname!NamesAssumption
  <2> HIDE DEF b
  <2>4. Labelled(b, L, n)
    BY <2>1, <2>3, LabelledAgree
  <2>5. Dname!Starts(b, n) = {L \cup {n}} /\ Dname!Starts(buf, n) = {L \cup {n}}
    BY <2>1, <2>4, LabelledStarts
  <2>6. Dname!IsName(b, n)
    BY <2>3, <2>5 DEF Dname!IsName
  <2> QED BY <2>1, <2>5, <2>6 DEF n, L, b
<1>2. NamesPart => NameIsInFront
  BY <1>1 DEF NamesPart, NameIsInFront
<1> QED BY <1>2, NamesKept, PTL

(***************************************************************************)
(* What get_dname_len measures.                                            *)
(***************************************************************************)

\* The characters of the label at i.
Chars(d, i) == {d[j] : j \in (i + 1)..(i + d[i])}

\* The loop of get_dname_len at i, when w says what it comes to at later places.
MeasureStep(d, p, f, w, i) ==
  IF i >= MAX_DNAME_LEN THEN [i |-> i, url |-> FALSE, bad |-> FALSE]
  ELSE IF ~Dname!InPacket(i, p) \/ d[i] > MaxLabel THEN [i |-> i, url |-> FALSE, bad |-> TRUE]
  ELSE IF d[i] = 0 THEN [i |-> i, url |-> FALSE, bad |-> FALSE]
  ELSE IF ~(Chars(d, i) \subseteq Dname!Valid) \/ (Slash \in Chars(d, i) /\ f) \/ d[1] = Dash
       THEN [i |-> i, url |-> FALSE, bad |-> TRUE]
  ELSE [w[i + d[i] + 1] EXCEPT !.url = @ \/ Slash \in Chars(d, i)]
Measures(w, d, p, f) == w = [i \in Nat |-> MeasureStep(d, p, f, w, i)]

\* The loop has a result: it goes forward, and not beyond MAX_DNAME_LEN.
LEMMA MeasureExists ==
  ASSUME Dname!NamesAssumption, NEW d \in Buffer, NEW p, NEW f
  PROVE  \E w : Measures(w, d, p, f)
<1> DEFINE From(w, k) == /\ w = [i \in Nat |-> w[i]]
                         /\ \A i \in Nat : i + k >= MAX_DNAME_LEN => w[i] = MeasureStep(d, p, f, w, i)
           S == {k \in Nat : \E w : From(w, k)}
<1>0. /\ MAX_DNAME_LEN \in Nat
      /\ \A i \in Nat : i < MAX_DNAME_LEN => i \in 0..(BufLen - 1) /\ d[i] \in Nat
  BY DEF Dname!NamesAssumption, Buffer
<1>1. 0 \in S
  <2> DEFINE w == [i \in Nat |-> [i |-> i, url |-> FALSE, bad |-> FALSE]]
  <2>1. \A i \in Nat : i + 0 >= MAX_DNAME_LEN => w[i] = MeasureStep(d, p, f, w, i)
    BY <1>0 DEF MeasureStep
  <2>2. w = [i \in Nat |-> w[i]]
    OBVIOUS
  <2> HIDE DEF w
  <2>3. From(w, 0)
    BY <2>1, <2>2
  <2> HIDE DEF From
  <2> QED BY <2>3
<1>2. ASSUME NEW k \in Nat, k \in S PROVE k + 1 \in S
  <2>1. PICK w : From(w, k)
    BY <1>2
  <2>2. w = [i \in Nat |-> w[i]] /\ \A i \in Nat : i + k >= MAX_DNAME_LEN => w[i] = MeasureStep(d, p, f, w, i)
    BY <2>1, Zenon
  <2> DEFINE v == [i \in Nat |-> IF i + k >= MAX_DNAME_LEN THEN w[i] ELSE MeasureStep(d, p, f, w, i)]
  <2>3. v = [i \in Nat |-> v[i]]
    OBVIOUS
  <2>4. ASSUME NEW i \in Nat, i + (k + 1) >= MAX_DNAME_LEN
        PROVE  v[i] = MeasureStep(d, p, f, v, i)
    <3>1. v[i] = MeasureStep(d, p, f, w, i)
      BY <2>2
    <3>2. i < MAX_DNAME_LEN => v[i + d[i] + 1] = w[i + d[i] + 1]
      <4> SUFFICES ASSUME i < MAX_DNAME_LEN PROVE v[i + d[i] + 1] = w[i + d[i] + 1]
        OBVIOUS
      <4>1. d[i] \in Nat
        BY <1>0
      <4> DEFINE j == i + d[i] + 1
      <4>2. j \in Nat /\ j + k >= MAX_DNAME_LEN
        BY <1>0, <2>4, <4>1
      <4> HIDE DEF j
      <4>3. v[j] = w[j]
        BY <4>2
      <4> QED BY <4>3 DEF j
    <3> HIDE DEF v
    <3>3. MeasureStep(d, p, f, v, i) = MeasureStep(d, p, f, w, i)
      <4>1. CASE i >= MAX_DNAME_LEN
        BY <4>1 DEF MeasureStep
      <4>2. CASE ~ (i >= MAX_DNAME_LEN)
        <5>1. v[i + d[i] + 1] = w[i + d[i] + 1]
          BY <1>0, <3>2, <4>2
        <5> QED BY <5>1, Zenon DEF MeasureStep
      <4> QED BY <4>1, <4>2
    <3> QED BY <3>1, <3>3
  <2> HIDE DEF v
  <2>5. From(v, k + 1)
    BY <2>3, <2>4
  <2> HIDE DEF From
  <2> QED BY <2>5
<1> HIDE DEF S
<1>3. Nat \subseteq S
  BY <1>1, <1>2, InductionOverPositions
<1>4. PICK w : From(w, MAX_DNAME_LEN)
  BY <1>0, <1>3 DEF S
<1>5. w = [i \in Nat |-> w[i]] /\ \A i \in Nat : i + MAX_DNAME_LEN >= MAX_DNAME_LEN => w[i] = MeasureStep(d, p, f, w, i)
  BY <1>4, Zenon
<1>6. \A i \in Nat : w[i] = MeasureStep(d, p, f, w, i)
  BY <1>0, <1>5
<1>7. w = [i \in Nat |-> MeasureStep(d, p, f, w, i)]
  BY <1>5, <1>6
<1> QED BY <1>7, Zenon DEF Measures

\* get_dname_len answers from where the loop ends that begins at the front.
LEMMA MeasureReads ==
  ASSUME Dname!NamesAssumption, NEW d \in Buffer, NEW p, NEW f
  PROVE  \E w : /\ \A i \in Nat : w[i] = MeasureStep(d, p, f, w, i)
               /\ Dname!get_dname_len(d, p, f) =
                    IF w[0].bad \/ w[0].i >= MAX_DNS_PKT_LEN THEN -1
                    ELSE IF w[0].url THEN -2 ELSE w[0].i
<1> DEFINE w == CHOOSE w : Measures(w, d, p, f)
<1>1. Measures(w, d, p, f)
  BY MeasureExists, Zenon
<1>2. Dname!get_dname_len(d, p, f) =
        IF w[0].bad \/ w[0].i >= MAX_DNS_PKT_LEN THEN -1
        ELSE IF w[0].url THEN -2 ELSE w[0].i
  BY DEF Dname!get_dname_len, Measures, MeasureStep, Chars
<1> HIDE DEF w
<1>3. \A i \in Nat : w[i] = MeasureStep(d, p, f, w, i)
  BY <1>1, Zenon DEF Measures
<1> QED BY <1>2, <1>3

\* w is what the loop comes to from each place.
Loop(w, d, p, f) == \A i \in Nat : w[i] = MeasureStep(d, p, f, w, i)
Ends == [i : Nat, url : BOOLEAN, bad : BOOLEAN]

\* What the loop looks at below its limit are bytes.
LEMMA BytesAreNat ==
  ASSUME Dname!NamesAssumption, NEW d \in Buffer
  PROVE  /\ MAX_DNAME_LEN \in Nat /\ MAX_DNS_PKT_LEN \in Nat /\ MaxLabel \in Nat
         /\ MAX_DNS_PKT_LEN <= MAX_DNAME_LEN
         /\ \A i \in Nat : i < MAX_DNAME_LEN => i \in 0..(BufLen - 1) /\ d[i] \in Nat
BY DEF Dname!NamesAssumption, Buffer

\* Behind MAX_DNAME_LEN the loop ends at once, and it does at the zero of a name in the packet.
LEMMA LoopStops ==
  ASSUME NEW d, NEW p, NEW f, NEW w, Loop(w, d, p, f), NEW i \in Nat,
         i >= MAX_DNAME_LEN \/ (i < p /\ MaxLabel \in Nat /\ d[i] = 0)
  PROVE  w[i] = [i |-> i, url |-> FALSE, bad |-> FALSE]
<1>1. w[i] = MeasureStep(d, p, f, w, i)
  BY DEF Loop
<1>2. CASE i >= MAX_DNAME_LEN
  <2>1. MeasureStep(d, p, f, w, i) = [i |-> i, url |-> FALSE, bad |-> FALSE]
    BY <1>2, Zenon DEF MeasureStep
  <2> QED BY <1>1, <2>1
<1>3. CASE ~ (i >= MAX_DNAME_LEN)
  <2>1. Dname!InPacket(i, p) /\ ~ (d[i] > MaxLabel) /\ d[i] = 0
    BY <1>3 DEF Dname!InPacket
  <2>2. MeasureStep(d, p, f, w, i) = [i |-> i, url |-> FALSE, bad |-> FALSE]
    BY <1>3, <2>1, Zenon DEF MeasureStep
  <2> QED BY <1>1, <2>2
<1> QED BY <1>2, <1>3

\* Wherever it begins, the loop comes to a place and two answers.
LEMMA LoopEnds ==
  ASSUME Dname!NamesAssumption, NEW d \in Buffer, NEW p, NEW f, NEW w, Loop(w, d, p, f)
  PROVE  \A i \in Nat : w[i] \in Ends
<1> DEFINE S == {k \in Nat : \A i \in Nat : i + k >= MAX_DNAME_LEN => w[i] \in Ends}
<1>0. /\ MAX_DNAME_LEN \in Nat
      /\ \A i \in Nat : i < MAX_DNAME_LEN => d[i] \in Nat
  BY BytesAreNat
<1>a. ASSUME NEW i \in Nat, i >= MAX_DNAME_LEN PROVE w[i] \in Ends
  <2>1. w[i] = [i |-> i, url |-> FALSE, bad |-> FALSE]
    BY <1>a, LoopStops
  <2> QED BY <2>1 DEF Ends
<1>1. 0 \in S
  <2>1. \A i \in Nat : i + 0 = i
    OBVIOUS
  <2> QED BY <1>a, <2>1
<1>2. ASSUME NEW k \in Nat, k \in S PROVE k + 1 \in S
  <2> SUFFICES ASSUME NEW i \in Nat, i + (k + 1) >= MAX_DNAME_LEN PROVE w[i] \in Ends
    OBVIOUS
  <2>1. CASE i >= MAX_DNAME_LEN
    BY <1>a, <2>1
  <2>2. CASE ~ (i >= MAX_DNAME_LEN)
    <3> DEFINE j == i + d[i] + 1
    <3>1. j \in Nat /\ j + k >= MAX_DNAME_LEN
      BY <1>0, <2>2
    <3>2. w[j] \in Ends
      BY <1>2, <3>1
    <3> HIDE DEF j
    <3>3. \A b : [w[j] EXCEPT !.url = @ \/ Slash \in b] \in Ends
      BY Zenon, <3>2 DEF Ends
    <3>4. \/ w[i] = [i |-> i, url |-> FALSE, bad |-> TRUE]
          \/ w[i] = [i |-> i, url |-> FALSE, bad |-> FALSE]
          \/ w[i] = [w[j] EXCEPT !.url = @ \/ Slash \in Chars(d, i)]
      BY <2>2 DEF Loop, MeasureStep, j
    <3>5. [i |-> i, url |-> FALSE, bad |-> TRUE] \in Ends /\ [i |-> i, url |-> FALSE, bad |-> FALSE] \in Ends
      BY DEF Ends
    <3> QED BY <3>3, <3>4, <3>5
  <2> QED BY <2>1, <2>2
<1> HIDE DEF S
<1>3. Nat \subseteq S
  BY <1>1, <1>2, InductionOverPositions
<1>4. \A i \in Nat : i + MAX_DNAME_LEN >= MAX_DNAME_LEN
  BY <1>0
<1> QED BY Zenon, <1>0, <1>3, <1>4 DEF S

\* One label more.
LEMMA StartsFurther ==
  ASSUME NEW d, NEW i \in Nat, NEW s \in Dname!Starts(d, i), MaxLabel \in Nat,
         d[i] \in 1..MaxLabel, Chars(d, i) \subseteq Dname!Valid
  PROVE  s \cup {i + d[i] + 1} \in Dname!Starts(d, i + d[i] + 1)
<1> DEFINE k == i + d[i] + 1
           t == s \cup {k}
<1>1. k \in Nat /\ k > i /\ k - 1 = i + d[i] /\ d[i] \in Nat
  OBVIOUS
<1>2. /\ s \subseteq 0..i /\ 0 \in s /\ i \in s
      /\ \A e \in s \ {i} :
           /\ d[e] \in 1..MaxLabel
           /\ e + d[e] + 1 \in s
           /\ \A j \in (e + 1)..(e + d[e]) : j \notin s /\ d[j] \in Dname!Valid
  BY DEF Dname!Starts
<1>3. \A j \in (i + 1)..(i + d[i]) : j \notin s /\ j # k /\ d[j] \in Dname!Valid
  BY <1>1, <1>2 DEF Chars
<1>4. ASSUME NEW e \in s \ {i} PROVE \A j \in (e + 1)..(e + d[e]) : j # k
  <2>1. e \in Nat /\ d[e] \in Nat /\ e + d[e] + 1 <= i
    BY <1>2
  <2> QED BY <1>1, <2>1
<1>5. t \subseteq 0..k /\ {0, k} \subseteq t
  <2> HIDE DEF k
  <2>1. \A e \in s : e \in 0..k
    BY <1>1, <1>2
  <2>2. k \in 0..k
    BY <1>1
  <2> QED BY Zenon, <1>2, <2>1, <2>2
<1>6. t \ {k} = s
  <2> HIDE DEF k
  <2>1. k \notin s
    BY <1>1, <1>2
  <2> QED BY <2>1
<1> HIDE DEF k
<1>7. ASSUME NEW e \in s
      PROVE  /\ d[e] \in 1..MaxLabel
             /\ e + d[e] + 1 \in t
             /\ \A j \in (e + 1)..(e + d[e]) : j \notin t /\ d[j] \in Dname!Valid
  <2>1. CASE e = i
    BY <1>3, <2>1 DEF k
  <2>2. CASE e # i
    BY <1>2, <1>4, <2>2
  <2> QED BY <2>1, <2>2
<1> HIDE DEF t
<1>8. t \in Dname!Starts(d, k)
  BY <1>5, <1>6, <1>7 DEF Dname!Starts
<1> QED BY <1>8 DEF t, k

\* When the loop, begun where a label starts, does not refuse and ends below the limit, it
\* ends at the end of a name within the packet.
LEMMA LoopFindsNames ==
  ASSUME Dname!NamesAssumption, NEW d \in Buffer, NEW p, NEW f, NEW w, Loop(w, d, p, f)
  PROVE  \A i \in Nat : Dname!Starts(d, i) # {} /\ ~ w[i].bad /\ w[i].i < MAX_DNS_PKT_LEN
           => w[i].i \in Nat /\ Dname!IsName(d, w[i].i) /\ w[i].i < p
<1> DEFINE Good(i) == Dname!Starts(d, i) # {} /\ ~ w[i].bad /\ w[i].i < MAX_DNS_PKT_LEN
             => w[i].i \in Nat /\ Dname!IsName(d, w[i].i) /\ w[i].i < p
           S == {k \in Nat : \A i \in Nat : i + k >= MAX_DNAME_LEN => Good(i)}
<1>0. /\ MAX_DNAME_LEN \in Nat /\ MAX_DNS_PKT_LEN \in Nat /\ MaxLabel \in Nat
      /\ MAX_DNS_PKT_LEN <= MAX_DNAME_LEN
      /\ \A i \in Nat : i < MAX_DNAME_LEN => d[i] \in Nat
  BY BytesAreNat
<1>1. ASSUME NEW i \in Nat, i >= MAX_DNAME_LEN PROVE Good(i)
  <2>1. w[i] = [i |-> i, url |-> FALSE, bad |-> FALSE]
    BY <1>1, LoopStops
  <2> QED BY <1>0, <1>1, <2>1
<1>2. 0 \in S
  <2> HIDE DEF Good
  <2>1. \A i \in Nat : i + 0 = i
    OBVIOUS
  <2> QED BY <1>1, <2>1
<1>3. ASSUME NEW k \in Nat, k \in S PROVE k + 1 \in S
  <2> SUFFICES ASSUME NEW i \in Nat, i + (k + 1) >= MAX_DNAME_LEN PROVE Good(i)
    OBVIOUS
  <2> SUFFICES ASSUME ~ (i >= MAX_DNAME_LEN), NEW s \in Dname!Starts(d, i),
                      ~ w[i].bad, w[i].i < MAX_DNS_PKT_LEN
               PROVE  w[i].i \in Nat /\ Dname!IsName(d, w[i].i) /\ w[i].i < p
    BY <1>1
  <2> DEFINE j == i + d[i] + 1
  <2>1. d[i] \in Nat /\ j \in Nat /\ j + k >= MAX_DNAME_LEN
    BY <1>0
  <2>2. w[i] = MeasureStep(d, p, f, w, i)
    BY DEF Loop
  <2>3. i < p /\ ~ (d[i] > MaxLabel)
    <3>1. ~ (~Dname!InPacket(i, p) \/ d[i] > MaxLabel)
      BY <2>2 DEF MeasureStep
    <3> QED BY <3>1 DEF Dname!InPacket
  <2>4. CASE d[i] = 0
    <3>1. w[i].i = i
      BY <2>2, <2>3, <2>4 DEF MeasureStep, Dname!InPacket
    <3> QED BY <2>3, <2>4, <3>1 DEF Dname!IsName
  <2>5. CASE d[i] # 0
    <3>1. ~ (~(Chars(d, i) \subseteq Dname!Valid) \/ (Slash \in Chars(d, i) /\ f) \/ d[1] = Dash)
      BY <2>2, <2>3, <2>5 DEF MeasureStep, Dname!InPacket
    <3>2. w[i] = [w[j] EXCEPT !.url = @ \/ Slash \in Chars(d, i)]
      BY <2>2, <2>3, <2>5, <3>1 DEF MeasureStep, Dname!InPacket
    <3>3. w[j] \in Ends
      BY <2>1, LoopEnds
    <3>4. w[i].bad = w[j].bad /\ w[i].i = w[j].i
      <4> HIDE DEF j
      <4> QED BY <3>2, <3>3 DEF Ends
    <3>5. s \cup {j} \in Dname!Starts(d, j)
      <4>1. d[i] \in 1..MaxLabel
        BY <1>0, <2>1, <2>3, <2>5
      <4>2. Chars(d, i) \subseteq Dname!Valid
        BY <3>1
      <4> QED BY Zenon, <1>0, <4>1, <4>2, StartsFurther
    <3>6. Good(j)
      BY <1>3, <2>1
    <3> HIDE DEF j
    <3> QED BY <3>4, <3>5, <3>6
  <2> QED BY <2>4, <2>5
<1> HIDE DEF S
<1>4. Nat \subseteq S
  BY <1>2, <1>3, InductionOverPositions
<1> QED BY <1>0, <1>4 DEF S

\* The characters of the name that ends at n, from i on, when its labels start at T.
Rest(d, T, n, i) == {d[j] : j \in (i..n) \ T}

\* What the loop comes to with another URL character.
LEMMA UrlNoted ==
  ASSUME NEW n, NEW u \in BOOLEAN, NEW v \in BOOLEAN
  PROVE  [[i |-> n, url |-> u, bad |-> FALSE] EXCEPT !.url = @ \/ v]
           = [i |-> n, url |-> u \/ v, bad |-> FALSE]
<1>1. \A x, y, z : [[i |-> n, url |-> x, bad |-> y] EXCEPT !.url = z] = [i |-> n, url |-> z, bad |-> y]
  OBVIOUS
<1>2. [[i |-> n, url |-> u, bad |-> FALSE] EXCEPT !.url = u \/ v] = [i |-> n, url |-> u \/ v, bad |-> FALSE]
  BY <1>1, ZenonT(40)
<1>3. [i |-> n, url |-> u, bad |-> FALSE].url = u
  OBVIOUS
<1> QED BY <1>2, <1>3, Zenon

\* The loop, begun at a label of a name within the packet, ends at the name's end and has seen
\* its characters from there on, unless it refuses.
LEMMA LoopMeasures ==
  ASSUME Dname!NamesAssumption, NEW d \in Buffer, NEW p \in Nat, NEW f \in BOOLEAN, NEW w, Loop(w, d, p, f),
         NEW n \in Nat, NEW T \in Dname!Starts(d, n), d[n] = 0, n < MAX_DNS_PKT_LEN, n < p
  PROVE  \A i \in T :
           IF i # n /\ (d[1] = Dash \/ (f /\ Slash \in Rest(d, T, n, i))) THEN w[i].bad
           ELSE w[i] = [i |-> n, url |-> Slash \in Rest(d, T, n, i), bad |-> FALSE]
<1> DEFINE Good(i) ==
             IF i # n /\ (d[1] = Dash \/ (f /\ Slash \in Rest(d, T, n, i))) THEN w[i].bad
             ELSE w[i] = [i |-> n, url |-> Slash \in Rest(d, T, n, i), bad |-> FALSE]
           S == {k \in Nat : \A i \in T : i + k >= n => Good(i)}
<1>0. /\ MAX_DNAME_LEN \in Nat /\ MAX_DNS_PKT_LEN \in Nat /\ MaxLabel \in Nat
      /\ MAX_DNS_PKT_LEN <= MAX_DNAME_LEN
  BY BytesAreNat
<1>1. /\ T \subseteq 0..n /\ n \in T
      /\ \A i \in T \ {n} :
           /\ d[i] \in 1..MaxLabel
           /\ i + d[i] + 1 \in T
           /\ \A j \in (i + 1)..(i + d[i]) : j \notin T /\ d[j] \in Dname!Valid
  BY DEF Dname!Starts
<1>2. Good(n)
  <2>1. Rest(d, T, n, n) = {}
    BY <1>1 DEF Rest
  <2>2. w[n] = [i |-> n, url |-> FALSE, bad |-> FALSE]
    BY <1>0, LoopStops
  <2>3. (Slash \in Rest(d, T, n, n)) = FALSE
    BY <2>1
  <2> QED BY <2>2, <2>3, Zenon
<1>3. 0 \in S
  <2>1. \A i \in T : i + 0 >= n => i = n
    BY <1>1
  <2> HIDE DEF Good
  <2> QED BY <1>2, <2>1
<1>4. ASSUME NEW k \in Nat, k \in S PROVE k + 1 \in S
  <2> SUFFICES ASSUME NEW i \in T, i + (k + 1) >= n, i # n PROVE Good(i)
    <3> HIDE DEF Good
    <3> QED BY <1>2
  <2> DEFINE j == i + d[i] + 1
             C == Chars(d, i)
             R(x) == Rest(d, T, n, x)
  <2>1. /\ i \in Nat /\ d[i] \in Nat /\ d[i] >= 1 /\ d[i] <= MaxLabel
        /\ j \in T /\ j \in Nat /\ j <= n /\ j + k >= n /\ i < n
    BY <1>0, <1>1
  <2>2. C \subseteq Dname!Valid
    BY <1>1 DEF Chars
  <2>3. R(i) = C \cup R(j)
    <3>1. \A x : x \in (i..n) \ T <=> x \in (i + 1)..(i + d[i]) \/ x \in (j..n) \ T
      <4> TAKE x
      <4>1. CASE x \in (i + 1)..(i + d[i])
        <5>1. x \notin T
          BY <1>1, <4>1
        <5>2. x \in i..n
          BY <2>1, <4>1
        <5> QED BY <4>1, <5>1, <5>2
      <4>2. CASE x \notin (i + 1)..(i + d[i])
        <5>1. x \in i..n => x = i \/ x \in j..n
          BY <2>1, <4>2
        <5>2. x \in j..n => x \in i..n
          BY <2>1
        <5> QED BY <4>2, <5>1, <5>2
      <4> QED BY <4>1, <4>2
    <3> HIDE DEF j
    <3> QED BY <3>1 DEF Rest, Chars
  <2>4. w[i] = IF (Slash \in C /\ f) \/ d[1] = Dash
               THEN [i |-> i, url |-> FALSE, bad |-> TRUE]
               ELSE [w[j] EXCEPT !.url = @ \/ Slash \in C]
    <3>1. ~ (i >= MAX_DNAME_LEN) /\ Dname!InPacket(i, p) /\ ~ (d[i] > MaxLabel) /\ d[i] # 0
      BY <1>0, <2>1 DEF Dname!InPacket
    <3>2. w[i] = MeasureStep(d, p, f, w, i)
      BY <2>1 DEF Loop
    <3> QED BY <2>2, <3>1, <3>2 DEF MeasureStep
  <2>5. w[j] \in Ends
    BY <2>1, LoopEnds
  <2>6. IF j # n /\ (d[1] = Dash \/ (f /\ Slash \in R(j))) THEN w[j].bad
        ELSE w[j] = [i |-> n, url |-> Slash \in R(j), bad |-> FALSE]
    BY <1>4, <2>1
  <2>7. j = n => R(j) = {}
    BY <1>1 DEF Rest
  <2> HIDE DEF j, C, R
  <2>8. CASE (Slash \in C /\ f) \/ d[1] = Dash
    <3>1. w[i].bad
      BY <2>4, <2>8
    <3>2. d[1] = Dash \/ (f /\ Slash \in R(i))
      BY <2>3, <2>8
    <3> QED BY <3>1, <3>2 DEF R
  <2>9. CASE ~ ((Slash \in C /\ f) \/ d[1] = Dash)
    <3>1. w[i] = [w[j] EXCEPT !.url = @ \/ Slash \in C]
      BY <2>4, <2>9
    <3>2. CASE f /\ Slash \in R(j)
      <4>1. w[j].bad
        BY <2>6, <2>7, <3>2
      <4>2. w[i].bad
        BY <2>5, <3>1, <4>1 DEF Ends
      <4> QED BY <2>3, <3>2, <4>2 DEF R
    <3>3. CASE ~ (f /\ Slash \in R(j))
      <4>1. w[j] = [i |-> n, url |-> Slash \in R(j), bad |-> FALSE]
        BY <2>6, <2>9, <3>3
      <4>2. w[i] = [i |-> n, url |-> (Slash \in R(j)) \/ Slash \in C, bad |-> FALSE]
        <5> DEFINE e == [i |-> n, url |-> Slash \in R(j), bad |-> FALSE]
        <5>1. [e EXCEPT !.url = @ \/ Slash \in C] = [i |-> n, url |-> (Slash \in R(j)) \/ Slash \in C, bad |-> FALSE]
          <6>1. (Slash \in R(j)) \in BOOLEAN /\ (Slash \in C) \in BOOLEAN
            OBVIOUS
          <6> QED BY Zenon, <6>1, UrlNoted
        <5> QED BY <3>1, <4>1, <5>1
      <4>3. (Slash \in R(i)) = ((Slash \in R(j)) \/ Slash \in C)
        BY <2>3
      <4>4. ~ (d[1] = Dash \/ (f /\ Slash \in R(i)))
        BY <2>9, <3>3, <4>3
      <4>5. w[i] = [i |-> n, url |-> Slash \in R(i), bad |-> FALSE]
        BY <4>2, <4>3, Zenon
      <4> QED BY <4>4, <4>5 DEF R
    <3> QED BY <3>2, <3>3
  <2> QED BY <2>8, <2>9
<1> HIDE DEF S
<1>5. Nat \subseteq S
  BY <1>3, <1>4, InductionOverPositions
<1>6. \A i \in T : i + n >= n
  BY <1>1
<1> QED BY <1>5, <1>6 DEF S

\* A buffer has one name in front at most.
LEMMA OneName ==
  ASSUME NEW d, NEW n \in Nat, NEW m \in Nat, Dname!IsName(d, n), Dname!IsName(d, m)
  PROVE  n = m
<1>1. ASSUME NEW a \in Nat, NEW b \in Nat, Dname!IsName(d, a), Dname!IsName(d, b), a < b
      PROVE  FALSE
  <2>1. PICK s \in Dname!Starts(d, a) : d[a] = 0
    BY <1>1 DEF Dname!IsName
  <2>2. PICK t \in Dname!Starts(d, b) : TRUE
    BY <1>1 DEF Dname!IsName
  <2>3. s \subseteq 0..a /\ a \in s /\ 0 \in t /\ \A i \in t \ {b} : d[i] \in 1..MaxLabel /\ i + d[i] + 1 \in t
    BY DEF Dname!Starts
  <2> DEFINE S == {k \in Nat : \A j \in 0..k : j \in s => j \in t}
  <2>4. 0 \in S
    BY <2>3
  <2>5. ASSUME NEW k \in Nat, k \in S PROVE k + 1 \in S
    <3>1. k + 1 \in s => k + 1 \in t
      <4> SUFFICES ASSUME k + 1 \in s PROVE k + 1 \in t
        OBVIOUS
      <4>1. PICK i \in s \ {a} : i <= k /\ k + 1 = i + d[i] + 1
        BY LabelBefore
      <4>2. i \in 0..k /\ i # b
        BY <1>1, <2>3, <4>1
      <4>3. i \in t
        BY <2>5, <4>1, <4>2
      <4> QED BY <2>3, <4>1, <4>2, <4>3
    <3>2. \A j \in 0..(k + 1) : j \in 0..k \/ j = k + 1
      OBVIOUS
    <3> QED BY <2>5, <3>1, <3>2
  <2> HIDE DEF S
  <2>6. Nat \subseteq S
    BY <2>4, <2>5, InductionOverPositions
  <2>7. a \in t
    BY <2>3, <2>6 DEF S
  <2>8. d[a] \in 1..MaxLabel
    BY <1>1, <2>3, <2>7
  <2> QED BY <2>1, <2>8
<1> QED BY <1>1

\* What is shown of a name, when its labels start at T.
LEMMA ShownIsRest ==
  ASSUME NEW d, NEW n \in Nat, NEW T \in Dname!Starts(d, n)
  PROVE  Dname!Shown(d, n) = Rest(d, T, n, 0)
<1>1. Dname!Starts(d, n) = {T}
  BY StartsUnique
<1>2. UNION {T} = T
  OBVIOUS
<1> QED BY <1>1, <1>2 DEF Dname!Shown, Rest

\* No byte behind the packet and nothing behind the name changes what get_dname_len answers: the
\* length of the name in front of the packet, or why there is none to tell.
LEMMA MeasuredRight ==
  ASSUME Dname!NamesAssumption, NEW d \in Buffer, NEW p \in 0..BufLen, NEW f \in BOOLEAN
  PROVE  LET names == {n \in 0..(MAX_DNS_PKT_LEN - 1) : Dname!IsName(d, n)} IN
         Dname!get_dname_len(d, p, f) =
           IF \/ \A n \in names : n >= p
              \/ d[0] # 0 /\ d[1] = Dash
           THEN -1
           ELSE LET n == CHOOSE n \in names : TRUE IN
                IF Slash \notin Dname!Shown(d, n) THEN n ELSE IF f THEN -1 ELSE -2
<1> DEFINE names == {n \in 0..(MAX_DNS_PKT_LEN - 1) : Dname!IsName(d, n)}
           chosen == CHOOSE n \in names : TRUE
           len == Dname!get_dname_len(d, p, f)
<1>0. /\ MAX_DNS_PKT_LEN \in Nat /\ p \in Nat /\ MaxLabel \in Nat
  BY DEF Dname!NamesAssumption
<1>1. PICK w : /\ \A i \in Nat : w[i] = MeasureStep(d, p, f, w, i)
               /\ len = IF w[0].bad \/ w[0].i >= MAX_DNS_PKT_LEN THEN -1
                        ELSE IF w[0].url THEN -2 ELSE w[0].i
  BY MeasureReads
<1>2. Loop(w, d, p, f)
  BY <1>1 DEF Loop
<1> HIDE DEF len
<1>3. CASE \A n \in names : n >= p
  <2>1. {0} \in Dname!Starts(d, 0)
    BY DEF Dname!Starts
  <2>2. ~ w[0].bad /\ w[0].i < MAX_DNS_PKT_LEN
          => w[0].i \in Nat /\ Dname!IsName(d, w[0].i) /\ w[0].i < p
    BY <1>2, <2>1, LoopFindsNames
  <2>3. w[0].bad \/ w[0].i >= MAX_DNS_PKT_LEN
    <3> SUFFICES ASSUME ~ w[0].bad, ~ (w[0].i >= MAX_DNS_PKT_LEN) PROVE FALSE
      OBVIOUS
    <3>1. w[0] \in Ends
      BY <1>2, LoopEnds
    <3> DEFINE e == w[0].i
    <3>2. e \in Nat
      BY <3>1 DEF Ends
    <3>3. e < MAX_DNS_PKT_LEN
      BY <1>0, <3>2
    <3>4. Dname!IsName(d, e) /\ e < p
      BY <2>2, <3>3
    <3> HIDE DEF e
    <3>5. e \in names
      BY <1>0, <3>2, <3>3, <3>4
    <3> QED BY <1>0, <1>3, <3>2, <3>4, <3>5
  <2>4. len = -1
    BY <1>1, <2>3
  <2> QED BY <1>3, <2>4 DEF len
<1>4. CASE \E n \in names : n < p
  <2>1. PICK n \in names : n < p
    BY <1>4
  <2>2. n \in Nat /\ n < MAX_DNS_PKT_LEN /\ Dname!IsName(d, n)
    BY <1>0
  <2>3. PICK T \in Dname!Starts(d, n) : d[n] = 0
    BY <2>2 DEF Dname!IsName
  <2>4. chosen = n
    <3>1. chosen \in names
      OBVIOUS
    <3> HIDE DEF chosen
    <3> QED BY <1>0, <2>2, <3>1, OneName
  <2>5. ~ \A m \in names : m >= p
    BY <1>0, <2>1, <2>2
  <2> DEFINE R == Dname!Shown(d, n)
  <2>6. R = Rest(d, T, n, 0)
    BY <2>2, ShownIsRest
  <2>7. 0 \in T /\ (0 # n => d[0] \in 1..MaxLabel)
    BY DEF Dname!Starts
  <2>8. IF 0 # n /\ (d[1] = Dash \/ (f /\ Slash \in R)) THEN w[0].bad
        ELSE w[0] = [i |-> n, url |-> Slash \in R, bad |-> FALSE]
    BY <1>0, <1>2, <2>1, <2>2, <2>3, <2>6, <2>7, LoopMeasures
  <2>9. d[0] # 0 <=> n # 0
    BY <1>0, <2>3, <2>7
  <2>10. n = 0 => Slash \notin R
    BY <2>6, <2>7 DEF Rest
  <2> HIDE DEF names, chosen, R
  <2>11. CASE n # 0 /\ (d[1] = Dash \/ (f /\ Slash \in R))
    <3>1. len = -1
      BY <1>1, <2>8, <2>11
    <3> QED BY Zenon, <2>4, <2>9, <2>11, <3>1 DEF len, R, names, chosen
  <2>12. CASE ~ (n # 0 /\ (d[1] = Dash \/ (f /\ Slash \in R)))
    <3>1. w[0] = [i |-> n, url |-> Slash \in R, bad |-> FALSE]
      BY <2>8, <2>12
    <3>2. w[0].bad = FALSE /\ w[0].i = n /\ w[0].url = (Slash \in R)
      BY <3>1
    <3>3. len = IF Slash \in R THEN -2 ELSE n
      <4>1. ~ (n >= MAX_DNS_PKT_LEN)
        BY <1>0, <2>2
      <4> QED BY Zenon, <1>1, <3>2, <4>1
    <3>4. ~ (d[0] # 0 /\ d[1] = Dash) /\ (Slash \in R => ~ f)
      BY <2>9, <2>10, <2>12
    <3> QED BY Zenon, <2>4, <2>5, <3>3, <3>4 DEF len, R, names, chosen
  <2> QED BY <2>11, <2>12
<1>5. (\A n \in names : n >= p) \/ \E n \in names : n < p
  BY <1>0
<1> QED BY <1>3, <1>4, <1>5

\* Whatever is in the buffer, get_dname_len answers the length of the name in front of the
\* packet, -1 when there is none within the packet and the limits, and tells a URL apart.
THEOREM LengthsAreRight == PartsSpec => []MeasuresTheName
<1> USE PartsAssumption
<1>1. NamesInv => Dname!MeasuresTheName
  BY Zenon, MeasuredRight DEF NamesInv, Dname!MeasuresTheName
<1>2. NamesPart => MeasuresTheName
  BY <1>1 DEF NamesPart, MeasuresTheName
<1> QED BY <1>2, NamesKept, PTL

(***************************************************************************)
(* What test_seg finds.                                                    *)
(***************************************************************************)

\* strlen answers a place in the buffer, or its size.
LEMMA StrlenReads ==
  ASSUME Dname!NamesAssumption, NEW d \in Buffer
  PROVE  /\ Dname!strlen(d) \in 0..BufLen
         /\ Dname!strlen(d) < BufLen => d[Dname!strlen(d)] = 0
         /\ \A j \in 0..(BufLen - 1) : d[j] = 0 => Dname!strlen(d) <= j
<1> DEFINE Z == {k \in 0..BufLen : k = BufLen \/ d[k] = 0}
<1>1. BufLen \in Nat
  BY DEF Dname!NamesAssumption
<1>2. Z \subseteq Nat /\ BufLen \in Z
  BY <1>1
<1>3. Min(Z) \in Z /\ \A x \in Z : Min(Z) <= x
  BY <1>2, LeastPosition
<1>4. Dname!strlen(d) = Min(Z)
  BY DEF Dname!strlen, Dname!Min, Min
<1>5. \A j \in 0..(BufLen - 1) : d[j] = 0 => j \in Z
  BY <1>1
<1> DEFINE m == Min(Z)
<1>6. m \in 0..BufLen /\ (m = BufLen \/ d[m] = 0)
  BY <1>3
<1> HIDE DEF m
<1>7. m < BufLen => d[m] = 0
  BY <1>1, <1>6
<1> QED BY <1>3, <1>4, <1>5, <1>6, <1>7 DEF m

\* A name of labels has no zero in it, so strlen is where it ends.
LEMMA StrlenIsEnd ==
  ASSUME Dname!NamesAssumption, NEW d \in Buffer, NEW L, NEW n \in 0..(BufLen - 1), Labelled(d, L, n), d[n] = 0
  PROVE  Dname!strlen(d) = n
<1>0. /\ n \in Nat /\ BufLen \in Nat /\ MaxLabel \in Nat /\ 0 \in L /\ L \subseteq 0..(n - 1)
      /\ Dname!Valid \subseteq Nat \ {0}
  BY DEF Dname!NamesAssumption, Labelled
<1>1. \A l \in L : /\ d[l] \in 1..MaxLabel /\ l \in Nat
                  /\ l + d[l] + 1 \in L \cup {n}
                  /\ \A j \in (l + 1)..(l + d[l]) : d[j] \in Dname!Valid
  BY <1>0 DEF Labelled
<1> DEFINE S == {k \in Nat : k < n => \E l \in L : l <= k /\ k <= l + d[l]}
<1>2. 0 \in S
  BY <1>0, <1>1
<1>3. ASSUME NEW k \in Nat, k \in S PROVE k + 1 \in S
  <2> SUFFICES ASSUME k + 1 < n PROVE \E l \in L : l <= k + 1 /\ k + 1 <= l + d[l]
    OBVIOUS
  <2>1. PICK l \in L : l <= k /\ k <= l + d[l]
    BY <1>0, <1>3
  <2>2. l \in Nat /\ d[l] \in Nat /\ l + d[l] + 1 \in L \cup {n}
    BY <1>1
  <2>3. CASE k + 1 <= l + d[l]
    BY <2>1, <2>2, <2>3
  <2>4. CASE ~ (k + 1 <= l + d[l])
    <3>1. k + 1 = l + d[l] + 1
      BY <2>1, <2>2, <2>4
    <3>2. k + 1 \in L
      BY <1>0, <2>2, <3>1
    <3>3. d[k + 1] \in Nat
      BY <1>1, <3>2
    <3> QED BY <3>2, <3>3
  <2> QED BY <2>3, <2>4
<1> HIDE DEF S
<1>4. Nat \subseteq S
  BY <1>2, <1>3, InductionOverPositions
<1>5. ASSUME NEW k \in Nat, k < n PROVE d[k] # 0
  <2>1. PICK l \in L : l <= k /\ k <= l + d[l]
    BY <1>4, <1>5 DEF S
  <2>2. CASE k = l
    BY <1>1, <2>2
  <2>3. CASE k # l
    <3>1. k \in (l + 1)..(l + d[l])
      BY <1>1, <2>1, <2>3
    <3> QED BY <1>0, <1>1, <3>1
  <2> QED BY <2>2, <2>3
<1> DEFINE m == Dname!strlen(d)
<1>6. m \in 0..BufLen /\ (m < BufLen => d[m] = 0) /\ m <= n
  BY StrlenReads
<1> HIDE DEF m
<1>7. m \in Nat /\ d[m] = 0
  BY <1>0, <1>6
<1>8. ~ (m < n)
  BY <1>5, <1>7
<1>9. m = n
  BY <1>0, <1>6, <1>7, <1>8
<1> QED BY <1>9 DEF m

\* The loop of test_seg at i, when w says what it finds from later places.
SegStep(d, w, i) ==
  IF i >= Dname!strlen(d) THEN <<>>
  ELSE <<[offset |-> i, len |-> Dname!strlen(d) - i]>> \o w[Dname!NextLabel(d, i)]
SegLoop(w, d) == w = [i \in Nat |-> SegStep(d, w, i)]

\* The loop ends: it goes forward, and strlen is its limit.
LEMMA SegLoopExists ==
  ASSUME Dname!NamesAssumption, NEW d \in Buffer
  PROVE  \E w : SegLoop(w, d)
<1> DEFINE n == Dname!strlen(d)
           From(w, k) == /\ w = [i \in Nat |-> w[i]]
                         /\ \A i \in Nat : i + k >= n => w[i] = SegStep(d, w, i)
           S == {k \in Nat : \E w : From(w, k)}
<1>0. /\ n \in Nat
      /\ \A i \in Nat : i < n => d[i] \in Nat
  <2>1. n \in 0..BufLen /\ BufLen \in Nat
    BY StrlenReads DEF Dname!NamesAssumption
  <2> HIDE DEF n
  <2>2. \A i \in Nat : i < n => i \in 0..(BufLen - 1)
    BY <2>1
  <2> QED BY <2>1, <2>2 DEF Buffer
<1> HIDE DEF n
<1>1. 0 \in S
  <2> DEFINE w == [i \in Nat |-> <<>>]
  <2>1. \A i \in Nat : i + 0 >= n => w[i] = SegStep(d, w, i)
    BY <1>0 DEF SegStep, n
  <2>2. w = [i \in Nat |-> w[i]]
    OBVIOUS
  <2> HIDE DEF w
  <2>3. From(w, 0)
    BY <2>1, <2>2
  <2> HIDE DEF From
  <2> QED BY <2>3
<1>2. ASSUME NEW k \in Nat, k \in S PROVE k + 1 \in S
  <2>1. PICK w : From(w, k)
    BY <1>2
  <2>2. w = [i \in Nat |-> w[i]] /\ \A i \in Nat : i + k >= n => w[i] = SegStep(d, w, i)
    BY <2>1, Zenon
  <2> DEFINE v == [i \in Nat |-> IF i + k >= n THEN w[i] ELSE SegStep(d, w, i)]
  <2>3. v = [i \in Nat |-> v[i]]
    OBVIOUS
  <2>4. ASSUME NEW i \in Nat, i + (k + 1) >= n
        PROVE  v[i] = SegStep(d, v, i)
    <3>1. v[i] = SegStep(d, w, i)
      BY <2>2
    <3>2. i < n => v[Dname!NextLabel(d, i)] = w[Dname!NextLabel(d, i)]
      <4> SUFFICES ASSUME i < n PROVE v[Dname!NextLabel(d, i)] = w[Dname!NextLabel(d, i)]
        OBVIOUS
      <4>1. d[i] \in Nat
        BY <1>0
      <4> DEFINE j == Dname!NextLabel(d, i)
      <4>2. j \in Nat /\ j + k >= n
        BY <1>0, <2>4, <4>1 DEF Dname!NextLabel
      <4> HIDE DEF j
      <4>3. v[j] = w[j]
        BY <4>2
      <4> QED BY <4>3 DEF j
    <3> HIDE DEF v
    <3>3. SegStep(d, v, i) = SegStep(d, w, i)
      <4>1. CASE i >= n
        BY <4>1 DEF SegStep, n
      <4>2. CASE ~ (i >= n)
        <5>1. v[Dname!NextLabel(d, i)] = w[Dname!NextLabel(d, i)]
          BY <1>0, <3>2, <4>2
        <5> QED BY <5>1, Zenon DEF SegStep
      <4> QED BY <4>1, <4>2
    <3> QED BY <3>1, <3>3
  <2> HIDE DEF v
  <2>5. From(v, k + 1)
    BY <2>3, <2>4
  <2> HIDE DEF From
  <2> QED BY <2>5
<1> HIDE DEF S
<1>3. Nat \subseteq S
  BY <1>1, <1>2, InductionOverPositions
<1>4. PICK w : From(w, n)
  BY <1>0, <1>3 DEF S
<1>5. w = [i \in Nat |-> w[i]] /\ \A i \in Nat : i + n >= n => w[i] = SegStep(d, w, i)
  BY <1>4, Zenon
<1>6. \A i \in Nat : w[i] = SegStep(d, w, i)
  BY <1>0, <1>5
<1>7. w = [i \in Nat |-> SegStep(d, w, i)]
  BY <1>5, <1>6
<1> QED BY <1>7, Zenon DEF SegLoop

\* What test_seg finds is what its loop finds from the front.
LEMMA SegsRead ==
  ASSUME Dname!NamesAssumption, NEW d \in Buffer
  PROVE  \E w : Dname!Segs(d) = w[0] /\ \A i \in Nat : w[i] = SegStep(d, w, i)
<1> DEFINE w == CHOOSE w : SegLoop(w, d)
<1>1. SegLoop(w, d)
  BY SegLoopExists, Zenon
<1>2. Dname!Segs(d) = w[0]
  BY DEF Dname!Segs, SegLoop, SegStep
<1> HIDE DEF w
<1>3. \A i \in Nat : w[i] = SegStep(d, w, i)
  BY <1>1, Zenon DEF SegLoop
<1> QED BY <1>2, <1>3

\* q is the segments of a name with labels at L and its end at n, from i on.
SegsOf(q, L, n, i) ==
  /\ q \in Seq([offset : Nat, len : Nat])
  /\ \A k \in 1..Len(q) : q[k].offset \in L /\ q[k].offset >= i /\ q[k].len = n - q[k].offset
  /\ \A l \in L : l >= i => \E k \in 1..Len(q) : q[k].offset = l
  /\ \A j, k \in 1..Len(q) : j < k => q[j].offset < q[k].offset

\* A label in front of the others.
LEMMA SegsGrow ==
  ASSUME NEW L \in SUBSET Nat, NEW n \in Nat, NEW i \in L, i < n, NEW j \in Nat, i < j,
         \A l \in L : l >= i => l = i \/ l >= j, NEW q, SegsOf(q, L, n, j)
  PROVE  SegsOf(<<[offset |-> i, len |-> n - i]>> \o q, L, n, i)
<1> DEFINE e == [offset |-> i, len |-> n - i]
           E == [offset : Nat, len : Nat]
           t == <<e>> \o q
           N == Len(q)
<1>1. i \in Nat /\ e \in E /\ e.offset = i /\ e.len = n - i
  OBVIOUS
<1>2. /\ q \in Seq(E)
      /\ \A k \in 1..N : q[k].offset \in L /\ q[k].offset >= j /\ q[k].len = n - q[k].offset
      /\ \A l \in L : l >= j => \E k \in 1..N : q[k].offset = l
      /\ \A a, b \in 1..N : a < b => q[a].offset < q[b].offset
  BY Zenon DEF SegsOf
<1> HIDE DEF e, E
<1>3. /\ N \in Nat /\ t \in Seq(E) /\ Len(t) = N + 1
      /\ \A k \in 1..(N + 1) : t[k] = IF k = 1 THEN e ELSE q[k - 1]
  BY <1>1, <1>2, PushFrontProperties, LenProperties
<1> HIDE DEF t, N
<1>4. \A k \in 1..(N + 1) : k = 1 \/ (k - 1 \in 1..N /\ t[k] = q[k - 1])
  BY <1>3
<1>5. t[1] = e /\ 1 \in 1..(N + 1) /\ \A k \in 1..N : k + 1 \in 1..(N + 1) /\ t[k + 1] = q[k]
  BY <1>3
<1>6. ASSUME NEW k \in 1..(N + 1)
      PROVE  t[k].offset \in L /\ t[k].offset >= i /\ t[k].len = n - t[k].offset
  <2>1. CASE k = 1
    BY <1>1, <1>5, <2>1
  <2>2. CASE k # 1
    <3>1. k - 1 \in 1..N /\ t[k] = q[k - 1]
      BY <1>4, <2>2
    <3>2. t[k].offset \in L /\ t[k].offset >= j /\ t[k].len = n - t[k].offset
      BY <1>2, <3>1
    <3>3. t[k].offset \in Nat
      BY Zenon, <3>2
    <3> QED BY <1>1, <3>2, <3>3
  <2> QED BY <2>1, <2>2
<1>7. ASSUME NEW l \in L, l >= i PROVE \E k \in 1..(N + 1) : t[k].offset = l
  <2>1. CASE l = i
    BY <1>1, <1>5, <2>1
  <2>2. CASE l >= j
    <3>1. PICK k \in 1..N : q[k].offset = l
      BY <1>2, <2>2
    <3> QED BY <1>5, <3>1
  <2> QED BY Zenon, <1>7, <2>1, <2>2
<1>8. ASSUME NEW a \in 1..(N + 1), NEW b \in 1..(N + 1), a < b
      PROVE  t[a].offset < t[b].offset
  <2>1. b - 1 \in 1..N /\ t[b] = q[b - 1]
    BY <1>3, <1>4, <1>8
  <2>2. q[b - 1].offset \in Nat /\ q[b - 1].offset >= j
    BY Zenon, <1>2, <2>1
  <2>3. CASE a = 1
    BY <1>1, <1>5, <2>1, <2>2, <2>3
  <2>4. CASE a # 1
    <3>1. a - 1 \in 1..N /\ t[a] = q[a - 1] /\ a - 1 < b - 1
      BY <1>3, <1>4, <1>8, <2>4
    <3> QED BY <1>2, <2>1, <3>1
  <2> QED BY <2>3, <2>4
<1>9. SegsOf(t, L, n, i)
  BY Zenon, <1>3, <1>6, <1>7, <1>8 DEF SegsOf, E
<1> QED BY <1>9 DEF t, e

\* In a name the loop of test_seg finds its suffixes, from any label.
LEMMA SegsFound ==
  ASSUME Dname!NamesAssumption, NEW d \in Buffer, NEW L, NEW n \in 0..(BufLen - 1), Labelled(d, L, n), d[n] = 0,
         NEW w, \A i \in Nat : w[i] = SegStep(d, w, i)
  PROVE  SegsOf(w[0], L, n, 0)
<1>0. /\ n \in Nat /\ 0 \in L /\ L \subseteq 0..(n - 1) /\ Dname!strlen(d) = n /\ MaxLabel \in Nat
      /\ \A l \in L : /\ d[l] \in 1..MaxLabel
                      /\ l + d[l] + 1 \in L \cup {n}
                      /\ \A j \in (l + 1)..(l + d[l]) : j \notin L
  <2>1. Dname!strlen(d) = n
    BY StrlenIsEnd
  <2> QED BY <2>1 DEF Dname!NamesAssumption, Labelled
<1>s. \A i \in Nat : w[i] = IF i >= n THEN <<>>
                            ELSE <<[offset |-> i, len |-> n - i]>> \o w[Dname!NextLabel(d, i)]
  <2> TAKE i \in Nat
  <2>1. w[i] = IF i >= Dname!strlen(d) THEN <<>>
               ELSE <<[offset |-> i, len |-> Dname!strlen(d) - i]>> \o w[Dname!NextLabel(d, i)]
    BY Zenon DEF SegStep
  <2>2. Dname!strlen(d) = n
    BY <1>0
  <2> QED BY <2>1, <2>2, Zenon
<1> DEFINE S == {k \in Nat : \A i \in L \cup {n} : i + k >= n => SegsOf(w[i], L, n, i)}
<1>1. SegsOf(w[n], L, n, n)
  <2>1. w[n] = <<>>
    <3>1. n >= n /\ n \in Nat
      BY <1>0
    <3> QED BY <1>s, <3>1, Zenon
  <2>2. <<>> \in Seq([offset : Nat, len : Nat]) /\ Len(<<>>) = 0
    BY EmptySeq
  <2>3. \A l \in L : ~ (l >= n)
    BY <1>0
  <2> QED BY <2>1, <2>2, <2>3 DEF SegsOf
<1>2. 0 \in S
  <2>1. \A i \in L \cup {n} : i + 0 >= n => i = n
    BY <1>0
  <2> QED BY <1>1, <2>1
<1>3. ASSUME NEW k \in Nat, k \in S PROVE k + 1 \in S
  <2> SUFFICES ASSUME NEW i \in L, i + (k + 1) >= n PROVE SegsOf(w[i], L, n, i)
    BY <1>1
  <2> DEFINE j == Dname!NextLabel(d, i)
  <2>1. i \in Nat /\ i < n /\ d[i] \in Nat /\ j = i + d[i] + 1 /\ j \in L \cup {n}
    BY <1>0 DEF Dname!NextLabel
  <2>2. w[i] = <<[offset |-> i, len |-> n - i]>> \o w[j]
    <3>1. ~ (i >= n)
      BY <1>0, <2>1
    <3> QED BY <1>s, <2>1, <3>1, Zenon
  <2> HIDE DEF j
  <2>3. j \in Nat /\ i < j /\ j + k >= n
    BY <1>0, <2>1
  <2>4. SegsOf(w[j], L, n, j)
    BY <1>3, <2>1, <2>3
  <2>5. \A l \in L : l >= i => l = i \/ l >= j
    <3> SUFFICES ASSUME NEW l \in L, l >= i, l # i, ~ (l >= j) PROVE FALSE
      OBVIOUS
    <3>1. l \in (i + 1)..(i + d[i])
      BY <1>0, <2>1
    <3> QED BY <1>0, <3>1
  <2>6. L \in SUBSET Nat
    BY <1>0
  <2>7. SegsOf(<<[offset |-> i, len |-> n - i]>> \o w[j], L, n, i)
    BY <1>0, <2>1, <2>3, <2>4, <2>5, <2>6, SegsGrow, Zenon
  <2> QED BY <2>2, <2>7, Zenon
<1> HIDE DEF S
<1>4. Nat \subseteq S
  BY <1>2, <1>3, InductionOverPositions
<1>5. 0 + n >= n
  BY <1>0
<1> QED BY <1>0, <1>4, <1>5 DEF S

\* A suffix of a name is a name.
LEMMA SuffixIsName ==
  ASSUME Dname!NamesAssumption, NEW d \in Buffer, NEW L, NEW n \in 0..(BufLen - 1), Labelled(d, L, n), d[n] = 0,
         NEW o \in L
  PROVE  Dname!IsName([k \in 0..(BufLen - 1) |-> IF o + k < BufLen THEN d[o + k] ELSE 0], n - o)
<1> DEFINE c == [k \in 0..(BufLen - 1) |-> IF o + k < BufLen THEN d[o + k] ELSE 0]
           M1 == {l - o : l \in {l \in L : l >= o}}
<1>0. /\ n \in Nat /\ BufLen \in Nat /\ n < BufLen /\ L \subseteq 0..(n - 1) /\ MaxLabel \in Nat
      /\ o \in Nat /\ o < n
      /\ \A l \in L : /\ d[l] \in 1..MaxLabel
                      /\ l + d[l] + 1 \in L \cup {n}
                      /\ \A j \in (l + 1)..(l + d[l]) : j \notin L \cup {n} /\ d[j] \in Dname!Valid
  BY DEF Dname!NamesAssumption, Labelled
<1>1. \A k \in 0..(n - o) : c[k] = d[o + k]
  <2> TAKE k \in 0..(n - o)
  <2>1. k \in 0..(BufLen - 1) /\ o + k < BufLen
    BY <1>0
  <2> QED BY <2>1
<1> HIDE DEF c
<1>2. \A m \in M1 : m \in 0..(n - o - 1) /\ o + m \in L
  <2> SUFFICES ASSUME NEW l \in L, l >= o PROVE l - o \in 0..(n - o - 1) /\ o + (l - o) \in L
    OBVIOUS
  <2>1. l \in 0..(n - 1)
    BY <1>0
  <2>2. o + (l - o) = l
    BY <1>0, <2>1
  <2> QED BY <1>0, <2>1, <2>2
<1>3. \A m \in Nat : o + m \in L => m \in M1
  <2> SUFFICES ASSUME NEW m \in Nat, o + m \in L PROVE m \in M1
    OBVIOUS
  <2>1. (o + m) - o = m /\ o + m >= o
    BY <1>0
  <2> QED BY <2>1
<1> HIDE DEF M1
<1>4. 0 \in M1
  <2>1. o + 0 = o
    BY <1>0
  <2> QED BY <1>3, <2>1
<1>5. ASSUME NEW m \in M1
      PROVE  /\ c[m] \in 1..MaxLabel
             /\ m + c[m] + 1 \in M1 \cup {n - o}
             /\ \A j \in (m + 1)..(m + c[m]) : j \notin M1 \cup {n - o} /\ c[j] \in Dname!Valid
  <2> DEFINE l == o + m
  <2>1. m \in Nat /\ m < n - o /\ l \in L
    BY <1>0, <1>2
  <2>2. c[m] = d[l]
    BY <1>0, <1>1, <2>1
  <2>3. d[l] \in 1..MaxLabel /\ d[l] \in Nat /\ l + d[l] + 1 \in L \cup {n} /\ l + d[l] + 1 <= n
    BY <1>0, <2>1
  <2>4. m + c[m] + 1 \in M1 \cup {n - o}
    <3>1. CASE l + d[l] + 1 = n
      BY <1>0, <2>1, <2>2, <2>3, <3>1
    <3>2. CASE l + d[l] + 1 \in L
      <4>1. o + (m + c[m] + 1) = l + d[l] + 1 /\ m + c[m] + 1 \in Nat
        BY <1>0, <2>1, <2>2, <2>3
      <4> QED BY <1>3, <3>2, <4>1
    <3> QED BY <2>3, <3>1, <3>2
  <2>5. ASSUME NEW j \in (m + 1)..(m + c[m]) PROVE j \notin M1 \cup {n - o} /\ c[j] \in Dname!Valid
    <3>1. j \in Nat /\ j \in 0..(n - o) /\ o + j \in (l + 1)..(l + d[l])
      BY <1>0, <2>1, <2>2, <2>3
    <3>2. o + j \notin L /\ o + j # n /\ d[o + j] \in Dname!Valid
      BY <1>0, <2>1, <3>1
    <3>3. j \notin M1
      BY <1>2, <3>2
    <3>4. j # n - o
      BY <1>0, <3>1, <3>2
    <3> QED BY <1>1, <3>1, <3>2, <3>3, <3>4
  <2> QED BY <2>2, <2>3, <2>4, <2>5
<1>6. n - o \in Nat /\ M1 \subseteq 0..((n - o) - 1)
  BY <1>0, <1>2
<1>7. Labelled(c, M1, n - o)
  BY <1>4, <1>5, <1>6 DEF Labelled
<1>8. Dname!Starts(c, n - o) = {M1 \cup {n - o}}
  BY <1>7, LabelledStarts
<1>9. c[n - o] = 0
  <2>1. n - o \in 0..(n - o) /\ o + (n - o) = n
    BY <1>0
  <2> QED BY <1>1, <2>1
<1>10. Dname!IsName(c, n - o)
  BY Zenon, <1>8, <1>9 DEF Dname!IsName
<1> QED BY <1>10 DEF c

\* From the k-th segment on there are as many labels as there are segments.
LEMMA SegsCount ==
  ASSUME NEW L \in SUBSET Nat, NEW n \in Nat, NEW q, SegsOf(q, L, n, 0), NEW k \in 1..Len(q)
  PROVE  Cardinality({l \in L : l >= q[k].offset}) = Len(q) - k + 1
<1> DEFINE N == Len(q)
           A == {l \in L : l >= q[k].offset}
           f == [i \in k..N |-> q[i].offset]
<1>0. /\ N \in Nat /\ k \in Nat /\ k <= N
      /\ \A i \in 1..N : q[i].offset \in L /\ q[i].offset \in Nat
      /\ \A l \in L : \E i \in 1..N : q[i].offset = l
      /\ \A i, j \in 1..N : i < j => q[i].offset < q[j].offset
  <2>1. q \in Seq([offset : Nat, len : Nat])
    BY DEF SegsOf
  <2>2. N \in Nat
    BY <2>1, LenProperties
  <2>3. \A i \in 1..N : q[i].offset \in L
    BY Zenon DEF SegsOf
  <2>4. \A l \in L : \E i \in 1..N : q[i].offset = l
    <3>1. \A l \in L : l >= 0
      OBVIOUS
    <3> QED BY Zenon, <3>1 DEF SegsOf
  <2>5. \A i, j \in 1..N : i < j => q[i].offset < q[j].offset
    BY DEF SegsOf
  <2> HIDE DEF N
  <2>6. k \in Nat /\ k <= N
    BY <2>2 DEF N
  <2> QED BY Zenon, <2>2, <2>3, <2>4, <2>5, <2>6
<1> HIDE DEF N
<1>1. \A i \in k..N : i \in 1..N /\ q[i].offset \in A
  <2> TAKE i \in k..N
  <2>1. i \in 1..N /\ k \in 1..N /\ (k < i \/ k = i)
    BY <1>0
  <2> QED BY <1>0, <2>1
<1>2. \A a \in A : \E i \in k..N : f[i] = a
  <2> TAKE a \in A
  <2>1. PICK i \in 1..N : q[i].offset = a
    BY Zenon, <1>0
  <2>2. ~ (i < k)
    BY <1>0, <2>1
  <2>3. i \in k..N
    BY <1>0, <2>2
  <2> QED BY <2>1, <2>3
<1>3. \A i, j \in k..N : f[i] = f[j] => i = j
  <2> TAKE i, j \in k..N
  <2>1. i \in 1..N /\ j \in 1..N /\ i \in Nat /\ j \in Nat /\ f[i] = q[i].offset /\ f[j] = q[j].offset
    BY <1>0
  <2>2. i < j \/ i = j \/ j < i
    BY <2>1
  <2>3. f[i] \in Nat /\ f[j] \in Nat /\ (i < j => f[i] < f[j]) /\ (j < i => f[j] < f[i])
    BY Zenon, <1>0, <2>1
  <2> HIDE DEF f
  <2> QED BY <2>2, <2>3
<1>4. f \in Bijection(k..N, A)
  <2>1. f \in [k..N -> A]
    BY <1>1
  <2> HIDE DEF f, A
  <2> QED BY <1>2, <1>3, <2>1 DEF Bijection, Injection, Surjection, IsInjective
<1>5. ExistsBijection(k..N, A)
  BY <1>4 DEF ExistsBijection
<1>6. IsFiniteSet(k..N) /\ Cardinality(k..N) = N - k + 1
  <2>1. k \in Int /\ N \in Int /\ ~ (k > N)
    BY <1>0
  <2> QED BY Zenon, <2>1, FS_Interval
<1> HIDE DEF A
<1>7. Cardinality(A) = N - k + 1
  BY <1>5, <1>6, FS_Bijection
<1> QED BY <1>7 DEF A, N

\* The least of ZoneEntries and a number.
LEMMA ZonesReach ==
  ASSUME NEW N \in Nat, NEW i \in 1..(Dname!Min({Dname!ZoneEntries, N}) - 1)
  PROVE  i \in 1..N /\ i < N
<1>1. Min({Dname!ZoneEntries, N}) \in Nat /\ Min({Dname!ZoneEntries, N}) <= N
  <2>1. Dname!ZoneEntries \in Nat
    BY DEF Dname!ZoneEntries
  <2>2. {Dname!ZoneEntries, N} \subseteq Nat
    BY <2>1
  <2> QED BY <2>2, LeastPosition
<1>2. Dname!Min({Dname!ZoneEntries, N}) = Min({Dname!ZoneEntries, N})
  BY DEF Dname!Min, Min
<1> DEFINE m == Dname!Min({Dname!ZoneEntries, N})
<1>3. m \in Nat /\ m <= N
  BY <1>1, <1>2
<1> HIDE DEF m
<1>4. i \in 1..(m - 1)
  BY DEF m
<1> QED BY <1>3, <1>4

\* When it takes apart a well-formed name that was translated to a cleared buffer, test_seg finds
\* one suffix for each label, each a name of the length it says, and looks each of the last three
\* up in the zone for its number of labels.
THEOREM SuffixesAreFound == PartsSpec => []SegsAreSuffixes
<1> USE PartsAssumption
<1>1. NamesInv => Dname!SegsAreSuffixes
  <2> DEFINE segs      == Dname!Segs(buf)
             behind(o) == [k \in 0..(BufLen - 1) |-> IF o + k < BufLen THEN buf[o + k] ELSE 0]
             L         == Dname!LengthAt(name)
             n         == Dname!WireLen(name)
  <2> SUFFICES ASSUME NamesInv, Dname!WellFormed(name), fresh
               PROVE  /\ {segs[k].offset : k \in 1..Len(segs)} = L
                      /\ \A k \in 1..Len(segs) : Dname!IsName(behind(segs[k].offset), segs[k].len)
                      /\ \A z \in Dname!Zones(buf) :
                           Dname!Cardinality({d \in L : d >= segs[z.segid + 1].offset})
                             = Dname!ZoneEntries - z.zoneid
    BY Zenon DEF Dname!SegsAreSuffixes
  <2>1. n \in 0..(BufLen - 1) /\ Labelled(buf, L, n) /\ buf[n] = 0 /\ buf \in Buffer
    BY NameLabelled DEF NamesInv
  <2> HIDE DEF n, L
  <2>2. PICK w : segs = w[0] /\ \A i \in Nat : w[i] = SegStep(buf, w, i)
    BY <2>1, SegsRead
  <2> DEFINE N == Len(segs)
  <2>3. SegsOf(w[0], L, n, 0)
    BY <2>1, <2>2, SegsFound
  <2>4. SegsOf(segs, L, n, 0)
    BY <2>2, <2>3, Zenon
  <2>5. n \in Nat /\ L \in SUBSET Nat
    BY <2>1 DEF Labelled
  <2>6. Dname!Zones(buf) \subseteq
          {[zoneid |-> Dname!ZoneEntries - i, segid |-> N - i] : i \in 1..(Dname!Min({Dname!ZoneEntries, N}) - 1)}
    BY Zenon DEF Dname!Zones
  <2> HIDE DEF segs
  <2>7. {segs[k].offset : k \in 1..N} = L
    <3>1. \A k \in 1..N : segs[k].offset \in L
      BY <2>4 DEF SegsOf
    <3>2. \A l \in L : l >= 0 => \E k \in 1..N : segs[k].offset = l
      BY <2>4 DEF SegsOf
    <3>3. \A l \in L : l >= 0
      BY <2>5
    <3> HIDE DEF N, L
    <3>4. \A l \in L : \E k \in 1..N : segs[k].offset = l
      BY <3>2, <3>3, Zenon
    <3> QED BY <3>1, <3>4
  <2>8. ASSUME NEW k \in 1..N PROVE Dname!IsName(behind(segs[k].offset), segs[k].len)
    <3> DEFINE o == segs[k].offset
    <3>1. o \in L /\ segs[k].len = n - o
      BY <2>4 DEF SegsOf
    <3> HIDE DEF o
    <3>2. Dname!IsName(behind(o), n - o)
      BY <2>1, <3>1, SuffixIsName
    <3> QED BY <3>1, <3>2, Zenon DEF o
  <2>9. ASSUME NEW z \in Dname!Zones(buf)
        PROVE  Dname!Cardinality({d \in L : d >= segs[z.segid + 1].offset}) = Dname!ZoneEntries - z.zoneid
    <3>1. PICK i \in 1..(Dname!Min({Dname!ZoneEntries, N}) - 1) :
            z = [zoneid |-> Dname!ZoneEntries - i, segid |-> N - i]
      BY Zenon, <2>6
    <3>2. N \in Nat
      BY <2>4, LenProperties DEF SegsOf
    <3>3. i \in 1..N /\ i < N
      BY <3>2, <3>1, ZonesReach
    <3> HIDE DEF N
    <3> DEFINE k == N - i + 1
    <3>4. k \in 1..N /\ z.segid + 1 = k /\ N - k + 1 = i
      BY <3>1, <3>2, <3>3
    <3>5. Dname!ZoneEntries - z.zoneid = i
      BY <3>1, <3>3 DEF Dname!ZoneEntries
    <3> HIDE DEF k
    <3>6. Cardinality({d \in L : d >= segs[k].offset}) = Len(segs) - k + 1
      BY Zenon, <2>4, <2>5, <3>4, SegsCount DEF N
    <3>7. \A A : Dname!Cardinality(A) = Cardinality(A)
      BY DEF Dname!Cardinality, Cardinality
    <3> QED BY Zenon, <3>4, <3>5, <3>6, <3>7 DEF N
  <2> QED BY Zenon, <2>7, <2>8, <2>9
<1>2. NamesPart => SegsAreSuffixes
  BY <1>1 DEF NamesPart, SegsAreSuffixes
<1> QED BY <1>2, NamesKept, PTL

(***************************************************************************)
(* Addresses.  What a mask keeps.                                          *)
(***************************************************************************)

\* A byte without all but its first b bits has these and zeros behind them.
LEMMA BitsKept ==
  ASSUME NEW byte \in Ip!Bytes, NEW b \in 1..7, NEW r \in 0..7
  PROVE  ((byte - (byte % Ip!Worth[b])) \div Ip!Worth[r + 1]) % 2
           = IF r < b THEN (byte \div Ip!Worth[r + 1]) % 2 ELSE 0
<1>0. byte \in 0..255
  BY DEF Ip!Bytes
<1>1. CASE b = 1
  BY <1>0, <1>1, SMTT(60) DEF Ip!Worth
<1>2. CASE b = 2
  BY <1>0, <1>2, SMTT(60) DEF Ip!Worth
<1>3. CASE b = 3
  BY <1>0, <1>3, SMTT(60) DEF Ip!Worth
<1>4. CASE b = 4
  BY <1>0, <1>4, SMTT(60) DEF Ip!Worth
<1>5. CASE b = 5
  BY <1>0, <1>5, SMTT(60) DEF Ip!Worth
<1>6. CASE b = 6
  BY <1>0, <1>6, SMTT(60) DEF Ip!Worth
<1>7. CASE b = 7
  BY <1>0, <1>7, SMTT(60) DEF Ip!Worth
<1> QED BY <1>1, <1>2, <1>3, <1>4, <1>5, <1>6, <1>7

\* The bits of a byte; those of zero.
LEMMA BitsOfZero == \A r \in 0..7 : (0 \div Ip!Worth[r + 1]) % 2 = 0
  BY DEF Ip!Worth

\* An address of each family, and one with a mask.
Of(is_ipv6) == IF is_ipv6 THEN [1..16 -> Ip!Bytes] ELSE [1..4 -> Ip!Bytes]
Address(a, is_ipv6) == is_ipv6 \in BOOLEAN /\ a \in Of(is_ipv6)

\* What is kept of a byte is a byte.
LEMMA KeptIsByte ==
  ASSUME Ip!AddressAssumption, NEW byte \in Ip!Bytes, NEW b \in 1..7
  PROVE  /\ Ip!Worth[b] \in 1..255
         /\ Kept6(byte, b) = byte - (byte % Ip!Worth[b]) /\ Kept6(byte, b) \in Ip!Bytes
         /\ Kept4(byte, b) = byte - (byte % Ip!Worth[b]) /\ Kept4(byte, b) \in Ip!Bytes
<1>1. Ip!Worth[b] \in 1..255
  BY DEF Ip!Worth
<1>2. /\ Kept6(byte, b) = byte - (byte % Ip!Worth[b])
      /\ Kept4(byte, b) = byte - (byte % Ip!Worth[b])
  BY DEF Ip!AddressAssumption
<1> DEFINE w == Ip!Worth[b]
<1>3. byte - (byte % w) \in 0..255
  <2>1. byte \in Nat /\ byte <= 255 /\ w \in Nat \ {0}
    BY <1>1 DEF Ip!Bytes
  <2> HIDE DEF w
  <2>2. byte \div w \in Nat /\ byte % w \in 0..(w - 1) /\ byte = w * (byte \div w) + (byte % w)
    BY Zenon, <2>1, DivMod
  <2> DEFINE p == w * (byte \div w)
             m == byte % w
  <2>3. p \in Nat
    BY <2>1, <2>2
  <2>4. m \in Nat /\ byte = p + m
    BY <2>1, <2>2
  <2> HIDE DEF p, m
  <2>5. byte - m \in 0..255
    BY <2>1, <2>3, <2>4
  <2> QED BY <2>5 DEF m
<1> QED BY <1>1, <1>2, <1>3 DEF Ip!Bytes

\* addr_prefix, byte by byte.
LEMMA PrefixBytes ==
  ASSUME Ip!AddressAssumption, NEW v \in BOOLEAN, NEW a \in Of(v), NEW m \in Nat
  PROVE  LET p == Ip!addr_prefix(v, a, m)
             b == m % 8
         IN  /\ p \in Of(v)
             /\ \A k \in DOMAIN a :
                  p[k] = IF k <= m \div 8 THEN a[k]
                         ELSE IF k = m \div 8 + 1 /\ b # 0 THEN a[k] - (a[k] % Ip!Worth[b])
                         ELSE 0
<1> DEFINE p == Ip!addr_prefix(v, a, m)
           b == m % 8
           q(k) == IF k <= m \div 8 THEN a[k]
                   ELSE IF k = m \div 8 + 1 /\ b # 0 THEN a[k] - (a[k] % Ip!Worth[b])
                   ELSE 0
<1>1. b \in 0..7 /\ \A k \in DOMAIN a : a[k] \in Ip!Bytes
  BY DEF Of
<1>2. 0 \in Ip!Bytes
  BY DEF Ip!Bytes
<1>3. p = [k \in DOMAIN a |->
             IF k <= m \div 8 THEN a[k]
             ELSE IF k = m \div 8 + 1 /\ b # 0 THEN IF v THEN Kept6(a[k], b) ELSE Kept4(a[k], b)
             ELSE 0]
  BY DEF Ip!addr_prefix
<1> HIDE DEF p, b
<1>4. ASSUME NEW k \in DOMAIN a PROVE p[k] = q(k) /\ p[k] \in Ip!Bytes
  <2>1. CASE k = m \div 8 + 1 /\ b # 0
    <3>1. b \in 1..7
      BY <1>1, <2>1
    <3>2. /\ Kept6(a[k], b) = a[k] - (a[k] % Ip!Worth[b]) /\ Kept6(a[k], b) \in Ip!Bytes
          /\ Kept4(a[k], b) = a[k] - (a[k] % Ip!Worth[b]) /\ Kept4(a[k], b) \in Ip!Bytes
      BY <1>1, <3>1, KeptIsByte
    <3> QED BY <1>1, <1>2, <1>3, <2>1, <3>2
  <2>2. CASE ~ (k = m \div 8 + 1 /\ b # 0)
    BY <1>1, <1>2, <1>3, <2>2
  <2> QED BY <2>1, <2>2
<1>5. p \in Of(v)
  BY <1>3, <1>4 DEF Of
<1> QED BY <1>4, <1>5 DEF p, b

\* The rule is an address with a mask; from the recalculation on it is the prefix of what
\* came in, and what was printed is what inet_ntop4 or inet_ntop6 makes of that.
Printed(r, n) == IF r.is_ipv6 THEN Ip!inet_ntop6(r.addr, n) ELSE Ip!inet_ntop4(r.addr, n)
AddrInv ==
  /\ ip.is_ipv6 \in BOOLEAN /\ ip.addr \in Of(ip.is_ipv6) /\ given \in Of(ip.is_ipv6)
  /\ ip.mask \in Nat /\ ip = [is_ipv6 |-> ip.is_ipv6, addr |-> ip.addr, mask |-> ip.mask]
  /\ stage # "given" => ip.addr = Ip!addr_prefix(ip.is_ipv6, given, ip.mask)
  /\ stage = "given" => ip.addr = given
  /\ stage = "printed" => size \in Nat /\ ret = Printed(ip, size).ret /\ dst = Printed(ip, size).dst

\* A record of the form of a rule; the sets are parameters for the provers' sake.
LEMMA FieldsOf ==
  ASSUME NEW P, NEW Q, NEW R, NEW r \in [is_ipv6 : P, addr : Q, mask : R]
  PROVE  /\ r.is_ipv6 \in P /\ r.addr \in Q /\ r.mask \in R
         /\ r = [is_ipv6 |-> r.is_ipv6, addr |-> r.addr, mask |-> r.mask]
OBVIOUS

LEMMA AddrStarts == Ip!AddressAssumption /\ Ip!Init => AddrInv
<1> SUFFICES ASSUME Ip!AddressAssumption, Ip!Init PROVE AddrInv
  OBVIOUS
<1>1. ip \in Ip!Family /\ given = ip.addr /\ stage = "given"
  BY DEF Ip!Init, Ip!AddressAssumption
<1>2. /\ ip.is_ipv6 \in BOOLEAN /\ ip.addr \in Of(ip.is_ipv6) /\ ip.mask \in Nat
      /\ ip = [is_ipv6 |-> ip.is_ipv6, addr |-> ip.addr, mask |-> ip.mask]
  <2>1. CASE ip \in [is_ipv6 : {FALSE}, addr : [1..4 -> Ip!Bytes], mask : 0..32]
    <3>1. ip.is_ipv6 \in {FALSE} /\ ip.addr \in [1..4 -> Ip!Bytes] /\ ip.mask \in 0..32
      BY Zenon, <2>1, FieldsOf
    <3>3. ip.is_ipv6 = FALSE
      BY <3>1, Zenon
    <3>2. ip = [is_ipv6 |-> ip.is_ipv6, addr |-> ip.addr, mask |-> ip.mask]
      BY <2>1, FieldsOf
    <3>4. Of(ip.is_ipv6) = [1..4 -> Ip!Bytes]
      BY <3>3, Zenon DEF Of
    <3>5. ip.is_ipv6 \in BOOLEAN
      BY <3>3, Zenon
    <3> QED BY <3>1, <3>2, <3>4, <3>5
  <2>2. CASE ip \in [is_ipv6 : {TRUE}, addr : [1..16 -> Ip!Bytes], mask : 0..128]
    <3>1. ip.is_ipv6 \in {TRUE} /\ ip.addr \in [1..16 -> Ip!Bytes] /\ ip.mask \in 0..128
      BY Zenon, <2>2, FieldsOf
    <3>3. ip.is_ipv6 = TRUE
      BY <3>1, Zenon
    <3>2. ip = [is_ipv6 |-> ip.is_ipv6, addr |-> ip.addr, mask |-> ip.mask]
      BY <2>2, FieldsOf
    <3>4. Of(ip.is_ipv6) = [1..16 -> Ip!Bytes]
      BY <3>3, Zenon DEF Of
    <3>5. ip.is_ipv6 \in BOOLEAN
      BY <3>3, Zenon
    <3> QED BY <3>1, <3>2, <3>4, <3>5
  <2> QED BY Zenon, <1>1, <2>1, <2>2 DEF Ip!Family
<1> QED BY <1>1, <1>2 DEF AddrInv

LEMMA AddrStep == Ip!AddressAssumption /\ AddrInv /\ [Ip!Next]_(Ip!vars) => AddrInv'
<1> SUFFICES ASSUME Ip!AddressAssumption, AddrInv, [Ip!Next]_(Ip!vars) PROVE AddrInv'
  OBVIOUS
<1>1. CASE Ip!ipaddr_prefix_recalc
  <2>1. /\ stage = "given" /\ stage' = "recalculated" /\ given' = given
        /\ ip' = [ip EXCEPT !.addr = Ip!addr_prefix(ip.is_ipv6, @, ip.mask)]
    BY <1>1 DEF Ip!ipaddr_prefix_recalc
  <2> DEFINE p == Ip!addr_prefix(ip.is_ipv6, given, ip.mask)
  <2>2. p \in Of(ip.is_ipv6)
    BY PrefixBytes DEF AddrInv
  <2> HIDE DEF p
  <2>3. ip' = [is_ipv6 |-> ip.is_ipv6, addr |-> p, mask |-> ip.mask]
    BY <2>1 DEF AddrInv, p
  <2>4. ip'.is_ipv6 = ip.is_ipv6 /\ ip'.addr = p /\ ip'.mask = ip.mask
    BY <2>3
  <2> QED BY <2>1, <2>2, <2>3, <2>4 DEF AddrInv, p
<1>2. ASSUME NEW n \in Sizes, Ip!inet_ntop(n) PROVE AddrInv'
  <2>1. /\ stage # "given" /\ stage' = "printed" /\ size' = n /\ ip' = ip /\ given' = given
        /\ ret' = Printed(ip, n).ret /\ dst' = Printed(ip, n).dst
    BY <1>2 DEF Ip!inet_ntop, Printed
  <2>2. n \in Nat
    BY DEF Ip!AddressAssumption
  <2>3. Printed(ip, n)' = Printed(ip', n)
    BY <2>1 DEF Printed
  <2> QED BY <2>1, <2>2 DEF AddrInv
<1>3. CASE UNCHANGED Ip!vars
  BY <1>3 DEF Ip!vars, AddrInv
<1> QED BY <1>1, <1>2, <1>3 DEF Ip!Next

\* The bits of an address, in front of its mask and behind.
LEMMA MaskKept == Ip!AddressAssumption /\ AddrInv => Ip!MaskKeepsThePrefix
<1> SUFFICES ASSUME Ip!AddressAssumption, AddrInv, stage # "given", NEW k \in 0..(8 * Len(given) - 1)
             PROVE  Ip!Bit(ip.addr, k) = IF k < ip.mask THEN Ip!Bit(given, k) ELSE 0
  BY DEF Ip!MaskKeepsThePrefix
<1> DEFINE K == k \div 8 + 1
           r == k % 8
           m == ip.mask
           o == m \div 8
           b == m % 8
           p == Ip!addr_prefix(ip.is_ipv6, given, m)
<1>1. ip.addr = p /\ ip.is_ipv6 \in BOOLEAN /\ given \in Of(ip.is_ipv6) /\ m \in Nat
  BY DEF AddrInv
<1>2. Len(given) \in Nat /\ DOMAIN given = 1..Len(given)
  BY <1>1 DEF Of
<1>3. r \in 0..7 /\ K \in 1..Len(given) /\ k = 8 * (K - 1) + r /\ k \in Nat
  BY <1>2
<1>4. b \in 0..7 /\ o \in Nat /\ m = 8 * o + b
  BY <1>1
<1>5. p[K] = IF K <= o THEN given[K]
             ELSE IF K = o + 1 /\ b # 0 THEN given[K] - (given[K] % Ip!Worth[b])
             ELSE 0
  <2>1. \A x \in DOMAIN given :
          p[x] = IF x <= o THEN given[x]
                 ELSE IF x = o + 1 /\ b # 0 THEN given[x] - (given[x] % Ip!Worth[b])
                 ELSE 0
    BY Zenon, <1>1, PrefixBytes
  <2>2. K \in DOMAIN given
    BY <1>2, <1>3
  <2> HIDE DEF K, p, o, b
  <2> QED BY <2>1, <2>2
<1>6. given[K] \in Ip!Bytes
  BY Zenon, <1>1, <1>2, <1>3 DEF Of
<1>7. /\ Ip!Bit(ip.addr, k) = (p[K] \div Ip!Worth[r + 1]) % 2
      /\ Ip!Bit(given, k) = (given[K] \div Ip!Worth[r + 1]) % 2
  BY <1>1 DEF Ip!Bit
<1> HIDE DEF K, r, o, b, p, m
<1>8. CASE K <= o
  <2>1. k < m
    BY <1>3, <1>4, <1>8
  <2> QED BY <1>5, <1>7, <1>8, <2>1 DEF m
<1>9. CASE K = o + 1 /\ b # 0
  <2>1. b \in 1..7 /\ (k < m <=> r < b) /\ ~ (K <= o)
    BY <1>3, <1>4, <1>9
  <2>2. p[K] = given[K] - (given[K] % Ip!Worth[b])
    BY <1>5, <1>9, <2>1
  <2>3. Ip!Bit(ip.addr, k) = IF r < b THEN (given[K] \div Ip!Worth[r + 1]) % 2 ELSE 0
    BY Zenon, <1>3, <1>6, <1>7, <2>1, <2>2, BitsKept
  <2> QED BY <1>7, <2>1, <2>3 DEF m
<1>10. CASE ~ (K <= o) /\ ~ (K = o + 1 /\ b # 0)
  <2>1. ~ (k < m)
    BY <1>3, <1>4, <1>10
  <2>2. p[K] = 0
    BY <1>5, <1>10
  <2> QED BY Zenon, <1>3, <1>7, <2>1, <2>2, BitsOfZero DEF m
<1> QED BY <1>8, <1>9, <1>10

(***************************************************************************)
(* The scan for the longest run of zero words.                             *)
(***************************************************************************)

\* f takes the n steps of g from x.
Takes(f, x, g, n) == f = [k \in 0..n |-> IF k = 0 THEN x ELSE g[k][f[k - 1]]]

\* There is such a function, for every number of steps.
LEMMA TakesExists ==
  ASSUME NEW S, NEW x \in S, NEW g \in [Nat -> [S -> S]]
  PROVE  \A n \in Nat : \E f : Takes(f, x, g, n) /\ f \in [0..n -> S]
<1> DEFINE Good(f, n) == Takes(f, x, g, n) /\ f \in [0..n -> S]
           T == {n \in Nat : \E f : Good(f, n)}
<1>1. 0 \in T
  <2> DEFINE f == [k \in 0..0 |-> x]
  <2>1. f = [k \in 0..0 |-> IF k = 0 THEN x ELSE g[k][f[k - 1]]]
    OBVIOUS
  <2>2. f \in [0..0 -> S]
    OBVIOUS
  <2>3. Good(f, 0)
    BY <2>1, <2>2, Zenon DEF Takes
  <2> HIDE DEF f, Good
  <2> QED BY <2>3
<1>2. ASSUME NEW n \in Nat, n \in T PROVE n + 1 \in T
  <2>1. PICK f : Good(f, n)
    BY <1>2
  <2>2. Takes(f, x, g, n) /\ f \in [0..n -> S]
    BY <2>1
  <2> DEFINE h == [k \in 0..(n + 1) |-> IF k <= n THEN f[k] ELSE g[k][f[k - 1]]]
             q == [k \in 0..(n + 1) |-> IF k = 0 THEN x ELSE g[k][h[k - 1]]]
  <2>3. ASSUME NEW k \in 0..(n + 1) PROVE h[k] = q[k] /\ h[k] \in S
    <3>1. CASE k \in 0..n
      <4>1. h[k] = f[k] /\ (k # 0 => h[k - 1] = f[k - 1])
        <5>1. k <= n /\ (k # 0 => k - 1 \in 0..(n + 1) /\ k - 1 <= n)
          BY <3>1
        <5> QED BY <5>1
      <4>2. q[k] = IF k = 0 THEN x ELSE g[k][h[k - 1]]
        BY <3>1
      <4>3. f[k] = IF k = 0 THEN x ELSE g[k][f[k - 1]]
        BY <2>2, <3>1, Zenon DEF Takes
      <4>4. f[k] \in S
        BY <2>2, <3>1
      <4> HIDE DEF h, q
      <4> QED BY <4>1, <4>2, <4>3, <4>4
    <3>2. CASE k = n + 1
      <4>1. h[k] = g[k][f[k - 1]] /\ h[k - 1] = f[k - 1] /\ k # 0
        BY <3>2
      <4>2. q[k] = g[k][h[k - 1]]
        BY <3>2
      <4>3. f[k - 1] \in S /\ k \in Nat
        BY <2>2, <3>2
      <4> HIDE DEF h, q
      <4>4. g[k][f[k - 1]] \in S
        BY <4>3
      <4> QED BY <4>1, <4>2, <4>4
    <3> QED BY <3>1, <3>2
  <2>4. h = [k \in 0..(n + 1) |-> h[k]] /\ q = [k \in 0..(n + 1) |-> q[k]]
    OBVIOUS
  <2>5. h = q /\ h \in [0..(n + 1) -> S]
    <3> HIDE DEF h, q
    <3> QED BY <2>3, <2>4
  <2>6. Good(h, n + 1)
    <3> HIDE DEF h
    <3> QED BY <2>5, Zenon DEF Takes
  <2> HIDE DEF h, Good
  <2> QED BY <2>6
<1> HIDE DEF T
<1>3. Nat \subseteq T
  BY <1>1, <1>2, InductionOverPositions
<1> QED BY <1>3 DEF T

\* Words of an address, the runs the scan works with, and one step of it.
EightWords == [0..7 -> Nat]
Run  == [base : -1..7, len : Nat]
Scan == [best : Run, cur : Run]
ScanStep(w, i, r) ==
  IF w[i - 1] = 0
  THEN [r EXCEPT !.cur = IF @.base = -1 THEN [base |-> i - 1, len |-> 1]
                         ELSE [base |-> @.base, len |-> @.len + 1]]
  ELSE [best |-> Ip!Longer(r.best, r.cur), cur |-> [r.cur EXCEPT !.base = -1]]
ScanStart == [best |-> Ip!None, cur |-> Ip!None]

LEMMA ScanStays ==
  ASSUME NEW w, NEW i \in 1..8, NEW r \in Scan
  PROVE  ScanStep(w, i, r) \in Scan
<1>1. r.best \in Run /\ r.cur \in Run /\ r = [best |-> r.best, cur |-> r.cur]
  BY DEF Scan
<1> DEFINE b == r.best
           c == r.cur
<1>2. /\ b.base \in -1..7 /\ b.len \in Nat /\ b = [base |-> b.base, len |-> b.len]
      /\ c.base \in -1..7 /\ c.len \in Nat /\ c = [base |-> c.base, len |-> c.len]
  BY <1>1 DEF Run
<1>3. CASE w[i - 1] = 0
  <2> DEFINE d == IF c.base = -1 THEN [base |-> i - 1, len |-> 1] ELSE [base |-> c.base, len |-> c.len + 1]
  <2>1. d \in Run
    BY <1>2 DEF Run
  <2>2. ScanStep(w, i, r) = [best |-> b, cur |-> d]
    BY <1>1, <1>3 DEF ScanStep
  <2> QED BY <1>1, <2>1, <2>2 DEF Scan
<1>4. CASE w[i - 1] # 0
  <2>1. Ip!Longer(b, c) \in Run /\ [c EXCEPT !.base = -1] \in Run
    BY <1>1, <1>2 DEF Ip!Longer, Run
  <2>2. ScanStep(w, i, r) = [best |-> Ip!Longer(b, c), cur |-> [c EXCEPT !.base = -1]]
    BY <1>4 DEF ScanStep
  <2> QED BY <2>1, <2>2 DEF Scan
<1> QED BY <1>3, <1>4

\* BestRun takes these steps.
ScanFrom(s, w) == s = [i \in 0..8 |-> IF i = 0 THEN ScanStart ELSE ScanStep(w, i, s[i - 1])]

LEMMA ScanExists ==
  ASSUME NEW w
  PROVE  \E s : ScanFrom(s, w)
<1> DEFINE step(k, r) == IF k \in 1..8 THEN ScanStep(w, k, r) ELSE r
           g == [k \in Nat |-> [r \in Scan |-> step(k, r)]]
<1>1. ScanStart \in Scan
  BY DEF ScanStart, Scan, Run, Ip!None
<1>2. \A k \in Nat, r \in Scan : step(k, r) \in Scan
  BY ScanStays
<1>3. g \in [Nat -> [Scan -> Scan]] /\ \A k \in Nat, r \in Scan : g[k][r] = step(k, r)
  <2> HIDE DEF step
  <2> QED BY <1>2
<1> HIDE DEF g
<1>4. PICK s : Takes(s, ScanStart, g, 8) /\ s \in [0..8 -> Scan]
  BY Zenon, <1>1, <1>3, TakesExists
<1> DEFINE t == [i \in 0..8 |-> IF i = 0 THEN ScanStart ELSE ScanStep(w, i, s[i - 1])]
<1>5. ASSUME NEW i \in 0..8 PROVE s[i] = t[i]
  <2>1. s[i] = IF i = 0 THEN ScanStart ELSE g[i][s[i - 1]]
    <3>1. 8 \in Nat /\ Takes(s, ScanStart, g, 8) /\ i \in 0..8
      BY <1>4
    <3> HIDE DEF t
    <3> QED BY <3>1, Zenon DEF Takes
  <2>2. CASE i = 0
    BY <2>1, <2>2
  <2>3. CASE i # 0
    <3>1. i \in 1..8 /\ i \in Nat /\ i - 1 \in 0..8
      BY <2>3
    <3>2. s[i - 1] \in Scan
      BY <1>4, <3>1
    <3>3. g[i][s[i - 1]] = ScanStep(w, i, s[i - 1])
      BY <1>3, <3>1, <3>2
    <3> QED BY <2>1, <2>3, <3>3
  <2> QED BY <2>2, <2>3
<1>6. s = [i \in 0..8 |-> s[i]] /\ t = [i \in 0..8 |-> t[i]]
  BY <1>4
<1>7. s = t
  <2> HIDE DEF t
  <2> QED BY <1>5, <1>6
<1> QED BY <1>7, Zenon DEF ScanFrom

LEMMA ScanReads ==
  ASSUME NEW w
  PROVE  \E s : /\ s[0] = ScanStart
                /\ \A i \in 1..8 : s[i] = ScanStep(w, i, s[i - 1])
                /\ Ip!BestRun(w) = LET best == Ip!Longer(s[8].best, s[8].cur)
                                   IN  IF best.len < 2 THEN Ip!None ELSE best
<1> DEFINE s == CHOOSE s : ScanFrom(s, w)
<1>1. ScanFrom(s, w)
  BY ScanExists, Zenon
<1>2. Ip!BestRun(w) = LET best == Ip!Longer(s[8].best, s[8].cur)
                      IN  IF best.len < 2 THEN Ip!None ELSE best
  BY DEF Ip!BestRun, ScanFrom, ScanStep, ScanStart, Ip!WCOUNT
<1> HIDE DEF s
<1>3. \A i \in 0..8 : s[i] = IF i = 0 THEN ScanStart ELSE ScanStep(w, i, s[i - 1])
  BY <1>1, Zenon DEF ScanFrom
<1>4. s[0] = ScanStart /\ \A i \in 1..8 : s[i] = ScanStep(w, i, s[i - 1])
  BY <1>3
<1> QED BY <1>2, <1>4

\* best is the first of the longest runs of zeros among the words 0 to e - 1, or there is none.
Covers(w, best, e) ==
  /\ best.base = -1 => best.len = 0
  /\ best.base # -1 => best.len >= 1 /\ best.base + best.len <= e
                       /\ Ip!Zeros(w, best.base, best.base + best.len)
  /\ \A a, b \in 0..e : Ip!Zeros(w, a, b) =>
       best.base # -1 /\ (b - a < best.len \/ (b - a = best.len /\ best.base <= a))

\* cur is the run of zeros that the word i - 1 ends, or there is none.
Current(w, cur, i) ==
  IF cur.base = -1 THEN i = 0 \/ w[i - 1] # 0
  ELSE /\ cur.len >= 1 /\ cur.base + cur.len = i /\ Ip!Zeros(w, cur.base, i)
       /\ cur.base = 0 \/ w[cur.base - 1] # 0
Edge(cur, i) == IF cur.base = -1 THEN i ELSE cur.base
Scanned(w, r, i) ==
  r \in Scan /\ Current(w, r.cur, i) /\ Covers(w, r.best, Edge(r.cur, i))

\* Taking the current run into account covers everything so far.
LEMMA LongerCovers ==
  ASSUME NEW w, NEW i \in 0..8, NEW r, Scanned(w, r, i)
  PROVE  Ip!Longer(r.best, r.cur) \in Run /\ Covers(w, Ip!Longer(r.best, r.cur), i)
<1> DEFINE b == r.best
           c == r.cur
           l == Ip!Longer(b, c)
<1>1. /\ b \in Run /\ c \in Run /\ Current(w, c, i) /\ Covers(w, b, Edge(c, i))
  BY DEF Scanned, Scan
<1> HIDE DEF b, c
<1>2. b.base \in -1..7 /\ b.len \in Nat /\ c.base \in -1..7 /\ c.len \in Nat
  BY <1>1 DEF Run
<1>3. l \in Run
  BY <1>1 DEF Ip!Longer
<1>4. CASE c.base = -1
  BY <1>1, <1>3, <1>4 DEF Ip!Longer, Edge, b, c
<1>5. CASE c.base # -1
  <2> DEFINE e == c.base
  <2>1. /\ e \in 0..7 /\ e + c.len = i /\ c.len >= 1 /\ Ip!Zeros(w, e, i)
        /\ e = 0 \/ w[e - 1] # 0
        /\ Covers(w, b, e)
    BY <1>1, <1>2, <1>5 DEF Current, Edge
  <2> HIDE DEF e
  <2>2. ASSUME NEW x \in 0..i, NEW y \in 0..i, Ip!Zeros(w, x, y)
        PROVE  \/ x \in 0..e /\ y \in 0..e
               \/ e <= x /\ y - x <= c.len /\ (y - x = c.len => x = e)
    <3>1. x < y /\ \A k \in x..(y - 1) : w[k] = 0
      BY <2>2 DEF Ip!Zeros
    <3>2. CASE y <= e
      BY <2>1, <3>1, <3>2
    <3>3. CASE y > e /\ x < e
      <4>1. e - 1 \in x..(y - 1) /\ e # 0
        BY <2>1, <3>3
      <4> QED BY <2>1, <3>1, <4>1
    <3>4. CASE y > e /\ x >= e
      BY <1>2, <2>1, <3>4
    <3> QED BY <2>1, <3>2, <3>3, <3>4
  <2>3. /\ b.base = -1 => b.len = 0
        /\ b.base # -1 => b.len >= 1 /\ b.base + b.len <= e /\ Ip!Zeros(w, b.base, b.base + b.len)
        /\ \A x, y \in 0..e : Ip!Zeros(w, x, y) =>
             b.base # -1 /\ (y - x < b.len \/ (y - x = b.len /\ b.base <= x))
    BY <2>1, Zenon DEF Covers
  <2>4. CASE b.base = -1 \/ c.len > b.len
    <3>1. l = c
      BY <1>5, <2>4 DEF Ip!Longer
    <3>2. ASSUME NEW x \in 0..i, NEW y \in 0..i, Ip!Zeros(w, x, y)
          PROVE  y - x < c.len \/ (y - x = c.len /\ c.base <= x)
      <4>1. CASE x \in 0..e /\ y \in 0..e
        <5>1. b.base # -1 /\ y - x <= b.len
          BY <1>2, <2>3, <3>2, <4>1
        <5> QED BY <1>2, <2>4, <5>1
      <4>2. CASE e <= x /\ y - x <= c.len /\ (y - x = c.len => x = e)
        BY <1>2, <4>2 DEF e
      <4> QED BY <2>2, <3>2, <4>1, <4>2
    <3>3. c.base + c.len <= i /\ Ip!Zeros(w, c.base, c.base + c.len)
      BY <1>2, <2>1 DEF e
    <3> HIDE DEF l
    <3>4. Covers(w, c, i)
      BY <1>5, <2>1, <3>2, <3>3 DEF Covers
    <3> QED BY <1>3, <3>1, <3>4 DEF b, c, l
  <2>5. CASE ~ (b.base = -1 \/ c.len > b.len)
    <3>1. l = b
      BY <2>5 DEF Ip!Longer
    <3>2. ASSUME NEW x \in 0..i, NEW y \in 0..i, Ip!Zeros(w, x, y)
          PROVE  y - x < b.len \/ (y - x = b.len /\ b.base <= x)
      <4>1. CASE x \in 0..e /\ y \in 0..e
        BY <2>3, <3>2, <4>1
      <4>2. CASE e <= x /\ y - x <= c.len /\ (y - x = c.len => x = e)
        BY <1>2, <2>1, <2>3, <2>5, <4>2
      <4> QED BY <2>2, <3>2, <4>1, <4>2
    <3>3. b.len >= 1 /\ b.base + b.len <= i /\ Ip!Zeros(w, b.base, b.base + b.len)
      BY <1>2, <2>1, <2>3, <2>5
    <3> HIDE DEF l
    <3>4. Covers(w, b, i)
      BY <2>5, <3>2, <3>3 DEF Covers
    <3> QED BY <1>3, <3>1, <3>4 DEF b, c, l
  <2> QED BY <2>4, <2>5
<1> QED BY <1>4, <1>5

\* A step of the scan.
LEMMA ScanGoes ==
  ASSUME NEW w, NEW i \in 1..8, NEW r, Scanned(w, r, i - 1)
  PROVE  Scanned(w, ScanStep(w, i, r), i)
<1> DEFINE b == r.best
           c == r.cur
<1>1. r \in Scan /\ b \in Run /\ c \in Run /\ Current(w, c, i - 1) /\ Covers(w, b, Edge(c, i - 1))
  BY DEF Scanned, Scan
<1>2. b.base \in -1..7 /\ b.len \in Nat /\ c.base \in -1..7 /\ c.len \in Nat
  BY <1>1 DEF Run
<1>3. ScanStep(w, i, r) \in Scan
  BY <1>1, ScanStays
<1>4. CASE w[i - 1] = 0
  <2> DEFINE d == IF c.base = -1 THEN [base |-> i - 1, len |-> 1]
                  ELSE [base |-> c.base, len |-> c.len + 1]
  <2>1. ScanStep(w, i, r).best = b /\ ScanStep(w, i, r).cur = d
    BY <1>1, <1>4 DEF ScanStep, Scan
  <2> HIDE DEF b, c
  <2>2. Edge(d, i) = Edge(c, i - 1)
    BY <1>2 DEF Edge
  <2>3. Current(w, d, i)
    <3>1. CASE c.base = -1
      <4>1. d.base = i - 1 /\ d.len = 1 /\ d.base # -1
        BY <3>1
      <4>2. i - 1 = 0 \/ w[(i - 1) - 1] # 0
        BY <1>1, <3>1 DEF Current
      <4>3. Ip!Zeros(w, i - 1, i)
        BY <1>4 DEF Ip!Zeros
      <4> QED BY <4>1, <4>2, <4>3 DEF Current
    <3>2. CASE c.base # -1
      <4>1. d.base = c.base /\ d.len = c.len + 1
        BY <3>2
      <4>2. /\ c.len >= 1 /\ c.base + c.len = i - 1 /\ Ip!Zeros(w, c.base, i - 1)
            /\ c.base = 0 \/ w[c.base - 1] # 0
        BY <1>1, <3>2 DEF Current
      <4>3. Ip!Zeros(w, c.base, i)
        BY <1>2, <1>4, <4>2 DEF Ip!Zeros
      <4>4. d.base + d.len = i /\ d.len >= 1 /\ d.base # -1
        BY <1>2, <3>2, <4>1, <4>2
      <4> QED BY <4>1, <4>2, <4>3, <4>4 DEF Current
    <3> QED BY <3>1, <3>2
  <2> QED BY <1>1, <1>3, <2>1, <2>2, <2>3 DEF Scanned
<1>5. CASE w[i - 1] # 0
  <2> DEFINE l == Ip!Longer(b, c)
             d == [c EXCEPT !.base = -1]
  <2>1. ScanStep(w, i, r).best = l /\ ScanStep(w, i, r).cur = d
    BY <1>5 DEF ScanStep
  <2>2. l \in Run /\ Covers(w, l, i - 1)
    BY LongerCovers
  <2>3. d.base = -1
    BY <1>1 DEF Run
  <2> HIDE DEF l, b, c, d
  <2>4. Current(w, d, i) /\ Edge(d, i) = i
    BY <1>5, <2>3 DEF Current, Edge
  <2>5. ASSUME NEW x \in 0..i, NEW y \in 0..i, Ip!Zeros(w, x, y)
        PROVE  x \in 0..(i - 1) /\ y \in 0..(i - 1)
    <3>1. x < y /\ \A k \in x..(y - 1) : w[k] = 0
      BY <2>5 DEF Ip!Zeros
    <3>2. y # i
      <4> SUFFICES ASSUME y = i PROVE FALSE
        OBVIOUS
      <4>1. i - 1 \in x..(y - 1)
        BY <3>1
      <4> QED BY <1>5, <3>1, <4>1
    <3> QED BY <3>1, <3>2
  <2>6. /\ l.base = -1 => l.len = 0
        /\ l.base # -1 => l.len >= 1 /\ l.base + l.len <= i - 1 /\ Ip!Zeros(w, l.base, l.base + l.len)
        /\ \A x, y \in 0..(i - 1) : Ip!Zeros(w, x, y) =>
             l.base # -1 /\ (y - x < l.len \/ (y - x = l.len /\ l.base <= x))
    BY <2>2, Zenon DEF Covers
  <2>7. l.base + l.len <= i - 1 => l.base + l.len <= i
    BY <2>2 DEF Run
  <2>8. Covers(w, l, i)
    BY <2>5, <2>6, <2>7 DEF Covers
  <2> QED BY <1>3, <2>1, <2>4, <2>8 DEF Scanned
<1> QED BY <1>4, <1>5

\* BestRun finds the first of the longest runs of two words or more, if there is one.
LEMMA BestRunIs ==
  ASSUME NEW w
  PROVE  LET best == Ip!BestRun(w)
         IN  IF best.base = -1
             THEN best = Ip!None /\ \A a, b \in 0..8 : Ip!Zeros(w, a, b) => b - a < 2
             ELSE /\ best \in Run /\ best.len >= 2 /\ best.base + best.len <= 8
                  /\ Ip!Zeros(w, best.base, best.base + best.len)
                  /\ \A a, b \in 0..8 : Ip!Zeros(w, a, b) =>
                       b - a < best.len \/ (b - a = best.len /\ best.base <= a)
<1>1. PICK s : /\ s[0] = ScanStart
               /\ \A i \in 1..8 : s[i] = ScanStep(w, i, s[i - 1])
               /\ Ip!BestRun(w) = LET best == Ip!Longer(s[8].best, s[8].cur)
                                  IN  IF best.len < 2 THEN Ip!None ELSE best
  BY ScanReads
<1>2. Scanned(w, s[0], 0)
  <2>1. /\ ScanStart \in Scan /\ ScanStart.best = Ip!None /\ ScanStart.cur = Ip!None
        /\ Ip!None.base = -1 /\ Ip!None.len = 0
    BY DEF ScanStart, Scan, Run, Ip!None
  <2>2. Current(w, Ip!None, 0) /\ Edge(Ip!None, 0) = 0
    BY <2>1 DEF Current, Edge
  <2>3. Covers(w, Ip!None, 0)
    BY <2>1 DEF Covers, Ip!Zeros
  <2> QED BY <1>1, <2>1, <2>2, <2>3 DEF Scanned
<1> DEFINE T == {n \in Nat : n <= 8 => Scanned(w, s[n], n)}
<1>3. 0 \in T
  BY <1>2
<1>4. ASSUME NEW n \in Nat, n \in T PROVE n + 1 \in T
  <2> SUFFICES ASSUME n + 1 <= 8 PROVE Scanned(w, s[n + 1], n + 1)
    OBVIOUS
  <2> DEFINE i == n + 1
  <2>1. i \in 1..8 /\ i - 1 = n
    OBVIOUS
  <2>2. Scanned(w, s[n], n)
    BY <1>4
  <2> HIDE DEF i
  <2>3. Scanned(w, s[i - 1], i - 1)
    BY <2>1, <2>2
  <2>4. Scanned(w, ScanStep(w, i, s[i - 1]), i)
    BY <2>1, <2>3, ScanGoes
  <2> QED BY <1>1, <2>1, <2>4 DEF i
<1> HIDE DEF T
<1>5. Nat \subseteq T
  BY <1>3, <1>4, InductionOverPositions
<1>6. Scanned(w, s[8], 8)
  BY <1>5 DEF T
<1> DEFINE l == Ip!Longer(s[8].best, s[8].cur)
<1>7. l \in Run /\ Covers(w, l, 8)
  BY <1>6, LongerCovers
<1>8. Ip!BestRun(w) = IF l.len < 2 THEN Ip!None ELSE l
  BY <1>1
<1> HIDE DEF l
<1>9. /\ l.base \in -1..7 /\ l.len \in Nat
      /\ l.base = -1 => l.len = 0
      /\ l.base # -1 => l.base + l.len <= 8 /\ Ip!Zeros(w, l.base, l.base + l.len)
      /\ \A x, y \in 0..8 : Ip!Zeros(w, x, y) =>
           l.base # -1 /\ (y - x < l.len \/ (y - x = l.len /\ l.base <= x))
  BY <1>7 DEF Covers, Run
<1>10. CASE l.len < 2
  <2>1. Ip!BestRun(w) = Ip!None /\ Ip!None.base = -1
    BY <1>8, <1>10 DEF Ip!None
  <2>2. \A a, b \in 0..8 : Ip!Zeros(w, a, b) => b - a < 2
    BY <1>9, <1>10
  <2> QED BY <2>1, <2>2
<1>11. CASE ~ (l.len < 2)
  <2>1. Ip!BestRun(w) = l /\ l.base # -1 /\ l.len >= 2
    BY <1>8, <1>9, <1>11
  <2> QED BY <1>7, <1>9, <2>1
<1> QED BY <1>10, <1>11

(***************************************************************************)
(* The characters of a text.                                               *)
(***************************************************************************)

LEMMA WidthIsSmall ==
  /\ \A c : Ip!Width(c) \in 1..4
  /\ Ip!Width(Ip!Colon) = 1 /\ Ip!Width(Ip!Dot) = 1 /\ \A d : Ip!Width(Ip!Dec(d)) = 1
BY DEF Ip!Width, Ip!Colon, Ip!Dot, Ip!Dec

\* u is how many characters come up to each place of t.
Counts(u, t) ==
  /\ u \in [0..Len(t) -> Nat] /\ u[0] = 0
  /\ \A k \in 1..Len(t) : u[k] = u[k - 1] + Ip!Width(t[k])
CountsFrom(u, t) ==
  u = [k \in 0..Len(t) |-> IF k = 0 THEN 0 ELSE u[k - 1] + Ip!Width(t[k])]

LEMMA CountsExist ==
  ASSUME NEW E, NEW t \in Seq(E)
  PROVE  \E u \in [0..Len(t) -> Nat] : CountsFrom(u, t)
<1> DEFINE n == Len(t)
           step(k, v) == v + Ip!Width(t[k])
           g == [k \in Nat |-> [v \in Nat |-> step(k, v)]]
<1>1. \A k \in Nat, v \in Nat : step(k, v) \in Nat
  BY WidthIsSmall
<1>2. n \in Nat
  BY LenProperties
<1>3. g \in [Nat -> [Nat -> Nat]] /\ \A k \in Nat, v \in Nat : g[k][v] = step(k, v)
  <2> HIDE DEF step
  <2> QED BY Zenon, <1>1
<1> HIDE DEF g, n
<1>4. PICK u : Takes(u, 0, g, n) /\ u \in [0..n -> Nat]
  BY Zenon, <1>2, <1>3, TakesExists
<1> DEFINE h == [k \in 0..n |-> IF k = 0 THEN 0 ELSE u[k - 1] + Ip!Width(t[k])]
<1>5. ASSUME NEW i \in 0..n PROVE u[i] = h[i]
  <2>1. u[i] = IF i = 0 THEN 0 ELSE g[i][u[i - 1]]
    <3>1. Takes(u, 0, g, n) /\ i \in 0..n
      BY <1>4
    <3> HIDE DEF h
    <3> QED BY <3>1, Zenon DEF Takes
  <2>2. CASE i = 0
    BY <2>1, <2>2
  <2>3. CASE i # 0
    <3>1. i \in Nat /\ i - 1 \in 0..n
      BY <1>2, <2>3
    <3>2. u[i - 1] \in Nat
      BY <1>4, <3>1
    <3>3. g[i][u[i - 1]] = u[i - 1] + Ip!Width(t[i])
      BY Zenon, <1>3, <3>1, <3>2
    <3> QED BY <2>1, <2>3, <3>3
  <2> QED BY <2>2, <2>3
<1>6. u = [i \in 0..n |-> u[i]] /\ h = [i \in 0..n |-> h[i]]
  BY <1>4
<1>7. u = h
  <2> HIDE DEF h
  <2> QED BY <1>5, <1>6
<1>8. CountsFrom(u, t)
  BY <1>7, Zenon DEF CountsFrom, n
<1> QED BY <1>4, <1>8 DEF n

LEMMA CharsReads ==
  ASSUME NEW E, NEW t \in Seq(E)
  PROVE  \E u : Counts(u, t) /\ Ip!Chars(t) = u[Len(t)]
<1> DEFINE u == CHOOSE u : CountsFrom(u, t)
<1>1. CountsFrom(u, t)
  BY CountsExist, Zenon
<1>2. Ip!Chars(t) = u[Len(t)]
  BY DEF Ip!Chars, CountsFrom
<1> HIDE DEF u
<1>3. u = [k \in 0..Len(t) |-> IF k = 0 THEN 0 ELSE u[k - 1] + Ip!Width(t[k])]
  BY <1>1, Zenon DEF CountsFrom
<1>4. \A k \in 0..Len(t) : u[k] = IF k = 0 THEN 0 ELSE u[k - 1] + Ip!Width(t[k])
  BY <1>3, Zenon
<1>5. Len(t) \in Nat
  BY LenProperties
<1>6. u[0] = 0 /\ \A k \in 1..Len(t) : u[k] = u[k - 1] + Ip!Width(t[k])
  BY <1>4, <1>5
<1> DEFINE T == {n \in Nat : n <= Len(t) => u[n] \in Nat}
<1>7. 0 \in T
  BY <1>6
<1>8. ASSUME NEW n \in Nat, n \in T PROVE n + 1 \in T
  <2>1. n + 1 <= Len(t) => u[n + 1] = u[n] + Ip!Width(t[n + 1])
    BY <1>5, <1>6
  <2>2. Ip!Width(t[n + 1]) \in Nat
    BY WidthIsSmall
  <2> QED BY <1>5, <1>8, <2>1, <2>2
<1> HIDE DEF T
<1>9. Nat \subseteq T
  BY <1>7, <1>8, InductionOverPositions
<1>10. \A k \in 0..Len(t) : u[k] \in Nat
  BY <1>5, <1>9 DEF T
<1>11. u \in [0..Len(t) -> Nat]
  BY <1>3, <1>10
<1> QED BY <1>2, <1>6, <1>11 DEF Counts

\* No two functions count differently; what bounds the steps bounds the sum.
LEMMA CountsBounded ==
  ASSUME NEW E, NEW t \in Seq(E), NEW u, Counts(u, t), NEW c \in [0..Len(t) -> Nat], c[0] = 0
  PROVE  /\ (\A k \in 1..Len(t) : c[k - 1] + Ip!Width(t[k]) <= c[k]) => u[Len(t)] <= c[Len(t)]
         /\ (\A k \in 1..Len(t) : c[k - 1] + Ip!Width(t[k]) = c[k]) => u[Len(t)] = c[Len(t)]
<1>1. Len(t) \in Nat
  BY LenProperties
<1>2. /\ u \in [0..Len(t) -> Nat] /\ u[0] = 0
      /\ \A k \in 1..Len(t) : u[k] = u[k - 1] + Ip!Width(t[k])
  BY DEF Counts
<1>3. ASSUME \A k \in 1..Len(t) : c[k - 1] + Ip!Width(t[k]) <= c[k] PROVE u[Len(t)] <= c[Len(t)]
  <2> DEFINE T == {n \in Nat : n <= Len(t) => u[n] <= c[n]}
  <2>1. 0 \in T
    BY <1>2
  <2>2. ASSUME NEW n \in Nat, n \in T PROVE n + 1 \in T
    <3> SUFFICES ASSUME n + 1 <= Len(t) PROVE u[n + 1] <= c[n + 1]
      OBVIOUS
    <3>1. u[n + 1] = u[n] + Ip!Width(t[n + 1]) /\ c[n] + Ip!Width(t[n + 1]) <= c[n + 1]
      BY <1>1, <1>2, <1>3
    <3>2. u[n] <= c[n] /\ u[n] \in Nat /\ c[n] \in Nat /\ c[n + 1] \in Nat
      BY <1>1, <1>2, <2>2
    <3>3. Ip!Width(t[n + 1]) \in Nat
      BY WidthIsSmall
    <3> QED BY <3>1, <3>2, <3>3
  <2> HIDE DEF T
  <2>3. Nat \subseteq T
    BY <2>1, <2>2, InductionOverPositions
  <2> QED BY <1>1, <2>3 DEF T
<1>4. ASSUME \A k \in 1..Len(t) : c[k - 1] + Ip!Width(t[k]) = c[k] PROVE u[Len(t)] = c[Len(t)]
  <2> DEFINE T == {n \in Nat : n <= Len(t) => u[n] = c[n]}
  <2>1. 0 \in T
    BY <1>2
  <2>2. ASSUME NEW n \in Nat, n \in T PROVE n + 1 \in T
    <3> SUFFICES ASSUME n + 1 <= Len(t) PROVE u[n + 1] = c[n + 1]
      OBVIOUS
    <3>1. u[n + 1] = u[n] + Ip!Width(t[n + 1]) /\ c[n] + Ip!Width(t[n + 1]) = c[n + 1]
      BY <1>1, <1>2, <1>4
    <3>2. u[n] = c[n]
      BY <1>1, <2>2
    <3> QED BY <3>1, <3>2
  <2> HIDE DEF T
  <2>3. Nat \subseteq T
    BY <2>1, <2>2, InductionOverPositions
  <2> QED BY <1>1, <2>3 DEF T
<1> QED BY <1>3, <1>4

\* The characters of a text are a number, no greater than any bound of them.
LEMMA CharsBounded ==
  ASSUME NEW E, NEW t \in Seq(E)
  PROVE  /\ Ip!Chars(t) \in Nat
         /\ \A c \in [0..Len(t) -> Nat] :
              c[0] = 0 /\ (\A k \in 1..Len(t) : c[k - 1] + Ip!Width(t[k]) <= c[k])
                => Ip!Chars(t) <= c[Len(t)]
<1>1. PICK u : Counts(u, t) /\ Ip!Chars(t) = u[Len(t)]
  BY CharsReads
<1>2. Len(t) \in Nat /\ u \in [0..Len(t) -> Nat]
  BY <1>1, LenProperties DEF Counts
<1> QED BY <1>1, <1>2, CountsBounded

\* Two texts, one behind the other.
LEMMA CharsConcat ==
  ASSUME NEW E, NEW s \in Seq(E), NEW t \in Seq(E)
  PROVE  Ip!Chars(s \o t) = Ip!Chars(s) + Ip!Chars(t)
<1>1. PICK u : Counts(u, s) /\ Ip!Chars(s) = u[Len(s)]
  BY CharsReads
<1>2. PICK v : Counts(v, t) /\ Ip!Chars(t) = v[Len(t)]
  BY CharsReads
<1> DEFINE m == Len(s)
           n == Len(t)
           q == s \o t
           c == [k \in 0..(m + n) |-> IF k <= m THEN u[k] ELSE u[m] + v[k - m]]
<1>3. m \in Nat /\ n \in Nat
  BY LenProperties
<1>4. q \in Seq(E) /\ Len(q) = m + n /\ \A k \in 1..(m + n) : q[k] = IF k <= m THEN s[k] ELSE t[k - m]
  BY ConcatProperties
<1>5. /\ u \in [0..m -> Nat] /\ u[0] = 0 /\ \A k \in 1..m : u[k] = u[k - 1] + Ip!Width(s[k])
      /\ v \in [0..n -> Nat] /\ v[0] = 0 /\ \A k \in 1..n : v[k] = v[k - 1] + Ip!Width(t[k])
  BY <1>1, <1>2 DEF Counts
<1> HIDE DEF m, n, q
<1>6. c \in [0..(m + n) -> Nat] /\ c[0] = 0
  BY <1>3, <1>5
<1>7. ASSUME NEW k \in 1..(m + n) PROVE c[k - 1] + Ip!Width(q[k]) = c[k]
  <2>1. CASE k <= m
    <3>1. c[k] = u[k] /\ c[k - 1] = u[k - 1] /\ k \in 1..m
      BY <1>3, <2>1
    <3> HIDE DEF c
    <3> QED BY <1>4, <1>5, <2>1, <3>1
  <2>2. CASE k = m + 1
    <3>1. c[k] = u[m] + v[1] /\ c[k - 1] = u[m] /\ 1 \in 1..n /\ k - m = 1
      BY <1>3, <2>2
    <3>2. q[k] = t[1]
      BY <1>3, <1>4, <2>2, <3>1
    <3>3. v[1] = v[1 - 1] + Ip!Width(t[1]) /\ v[1 - 1] = 0
      BY <1>5, <3>1
    <3>4. Ip!Width(t[1]) \in Nat
      BY WidthIsSmall
    <3>5. u[m] \in Nat
      BY <1>3, <1>5
    <3> HIDE DEF c
    <3> QED BY <3>1, <3>2, <3>3, <3>4, <3>5
  <2>3. CASE k > m + 1
    <3> DEFINE j == k - m
    <3>1. c[k] = u[m] + v[j] /\ c[k - 1] = u[m] + v[j - 1] /\ j \in 1..n /\ j - 1 \in 0..n
      <4>1. (k - 1) - m = j - 1 /\ ~ (k - 1 <= m) /\ ~ (k <= m) /\ k - 1 \in 0..(m + n) /\ k \in 0..(m + n)
        BY <1>3, <2>3
      <4>2. j \in 1..n /\ j - 1 \in 0..n
        BY <1>3, <2>3
      <4> HIDE DEF j
      <4> QED BY <4>1, <4>2 DEF j
    <3>2. q[k] = t[j]
      BY <1>3, <1>4, <2>3
    <3> HIDE DEF c, j
    <3>3. v[j] = v[j - 1] + Ip!Width(t[j])
      BY <1>5, <3>1
    <3>4. Ip!Width(t[j]) \in Nat
      BY WidthIsSmall
    <3>5. u[m] \in Nat /\ v[j - 1] \in Nat
      BY <1>3, <1>5, <3>1
    <3> QED BY <3>1, <3>2, <3>3, <3>4, <3>5
  <2> QED BY <1>3, <2>1, <2>2, <2>3
<1>8. c[m + n] = u[m] + v[n]
  <2>1. n = 0 => u[m] + v[n] = u[m]
    BY <1>3, <1>5
  <2> QED BY <1>3, <2>1
<1> HIDE DEF c
<1>9. PICK w : Counts(w, q) /\ Ip!Chars(q) = w[Len(q)]
  BY <1>4, CharsReads
<1>10. w[Len(q)] = c[Len(q)]
  BY Zenon, <1>4, <1>6, <1>7, <1>9, CountsBounded
<1> QED BY <1>1, <1>2, <1>4, <1>8, <1>9, <1>10 DEF m, n, q

(***************************************************************************)
(* The text of an IPv6 address.                                            *)
(***************************************************************************)

Symbols == {Ip!Colon, Ip!Dot} \cup {Ip!Hex(v) : v \in Nat} \cup {Ip!Dec(v) : v \in Nat}
LEMMA SymbolsAre ==
  Ip!Colon \in Symbols /\ Ip!Dot \in Symbols
    /\ \A v \in Nat : Ip!Hex(v) \in Symbols /\ Ip!Dec(v) \in Symbols
BY DEF Symbols

\* The text of the words a to c - 1, with a colon in front of each, or between them.
Led(w, a, c) ==
  [k \in 1..(2 * (c - a)) |-> IF k % 2 = 1 THEN Ip!Colon ELSE Ip!Hex(w[a + (k \div 2) - 1])]
Between(w, a, c) == Ip!Plain([k \in 1..(c - a) |-> w[a + k - 1]])

LEMMA LedIs ==
  ASSUME NEW w \in EightWords, NEW a \in 0..8, NEW c \in a..8
  PROVE  /\ Led(w, a, c) \in Seq(Symbols) /\ Len(Led(w, a, c)) = 2 * (c - a)
         /\ \A k \in 1..(2 * (c - a)) :
              Led(w, a, c)[k] = IF k % 2 = 1 THEN Ip!Colon ELSE Ip!Hex(w[a + (k \div 2) - 1])
<1> DEFINE n == 2 * (c - a)
<1>1. n \in Nat
  OBVIOUS
<1>2. ASSUME NEW k \in 1..n
      PROVE  (IF k % 2 = 1 THEN Ip!Colon ELSE Ip!Hex(w[a + (k \div 2) - 1])) \in Symbols
  <2>1. CASE k % 2 = 1
    BY <2>1, SymbolsAre
  <2>2. CASE k % 2 # 1
    <3>1. a + (k \div 2) - 1 \in 0..7
      BY <2>2
    <3>2. w[a + (k \div 2) - 1] \in Nat
      BY <3>1 DEF EightWords
    <3> QED BY <2>2, <3>2, SymbolsAre
  <2> QED BY <2>1, <2>2
<1>3. Led(w, a, c) = [k \in 1..n |-> IF k % 2 = 1 THEN Ip!Colon ELSE Ip!Hex(w[a + (k \div 2) - 1])]
  BY DEF Led
<1> HIDE DEF n
<1>4. Led(w, a, c) \in [1..n -> Symbols]
  BY <1>2, <1>3
<1>5. Led(w, a, c) \in Seq(Symbols) /\ Len(Led(w, a, c)) = n
  BY <1>1, <1>3, <1>4
<1> QED BY <1>3, <1>5 DEF n

\* How long the text of n words is, with colons between them.
Span(n) == IF n = 0 THEN 0 ELSE 2 * n - 1

LEMMA FunctionIsSeq ==
  ASSUME NEW S, NEW n \in Nat, NEW f \in [1..n -> S]
  PROVE  f \in Seq(S) /\ Len(f) = n
OBVIOUS

LEMMA PlainIs ==
  ASSUME NEW n \in Nat, NEW s \in [1..n -> Nat]
  PROVE  /\ Ip!Plain(s) \in Seq(Symbols) /\ Len(Ip!Plain(s)) = Span(n)
         /\ \A k \in 1..Span(n) :
              Ip!Plain(s)[k] = IF k % 2 = 1 THEN Ip!Hex(s[(k + 1) \div 2]) ELSE Ip!Colon
<1>1. Span(n) \in Nat /\ Len(s) = n
  BY DEF Span
<1>2. 1..(2 * Len(s) - 1) = 1..Span(n)
  BY <1>1 DEF Span
<1>3. ASSUME NEW k \in 1..Span(n)
      PROVE  (IF k % 2 = 1 THEN Ip!Hex(s[(k + 1) \div 2]) ELSE Ip!Colon) \in Symbols
  <2>1. (k + 1) \div 2 \in 1..n
    BY DEF Span
  <2>2. s[(k + 1) \div 2] \in Nat
    BY <2>1
  <2> QED BY <2>2, SymbolsAre
<1>4. Ip!Plain(s) = [k \in 1..Span(n) |-> IF k % 2 = 1 THEN Ip!Hex(s[(k + 1) \div 2]) ELSE Ip!Colon]
  BY <1>2 DEF Ip!Plain
<1>5. Ip!Plain(s) \in [1..Span(n) -> Symbols]
  BY Zenon, <1>3, <1>4
<1>6. Ip!Plain(s) \in Seq(Symbols) /\ Len(Ip!Plain(s)) = Span(n)
  BY Zenon, <1>1, <1>5, FunctionIsSeq
<1> QED BY Zenon, <1>4, <1>6

LEMMA BetweenIs ==
  ASSUME NEW w \in EightWords, NEW a \in 0..8, NEW c \in a..8
  PROVE  /\ Between(w, a, c) \in Seq(Symbols) /\ Len(Between(w, a, c)) = Span(c - a)
         /\ \A k \in 1..Span(c - a) :
              Between(w, a, c)[k] = IF k % 2 = 1 THEN Ip!Hex(w[a + ((k + 1) \div 2) - 1]) ELSE Ip!Colon
<1> DEFINE n == c - a
           s == [k \in 1..n |-> w[a + k - 1]]
<1>1. n \in Nat
  OBVIOUS
<1>2. ASSUME NEW k \in 1..n PROVE w[a + k - 1] \in Nat
  <2>1. a + k - 1 \in 0..7
    OBVIOUS
  <2> QED BY <2>1 DEF EightWords
<1>3. s \in [1..n -> Nat] /\ \A k \in 1..n : s[k] = w[a + k - 1]
  BY Zenon, <1>2
<1>4. Between(w, a, c) = Ip!Plain(s)
  BY DEF Between
<1> HIDE DEF s, n
<1>5. /\ Ip!Plain(s) \in Seq(Symbols) /\ Len(Ip!Plain(s)) = Span(n)
      /\ \A k \in 1..Span(n) : Ip!Plain(s)[k] = IF k % 2 = 1 THEN Ip!Hex(s[(k + 1) \div 2]) ELSE Ip!Colon
  BY Zenon, <1>1, <1>3, PlainIs
<1>6. \A k \in 1..Span(n) : s[(k + 1) \div 2] = w[a + ((k + 1) \div 2) - 1]
  <2> TAKE k \in 1..Span(n)
  <2>1. (k + 1) \div 2 \in 1..n
    BY <1>1 DEF Span
  <2> QED BY <1>3, <2>1
<1> QED BY Zenon, <1>4, <1>5, <1>6 DEF n

\* Nothing.
LEMMA NoWords ==
  ASSUME NEW w \in EightWords, NEW a \in 0..8
  PROVE  Led(w, a, a) = <<>> /\ Between(w, a, a) = <<>>
<1>0. a \in a..8 /\ 2 * (a - a) = 0 /\ Span(a - a) = 0
  BY DEF Span
<1>1. /\ Led(w, a, a) \in Seq(Symbols) /\ Len(Led(w, a, a)) = 0
  BY Zenon, <1>0, LedIs
<1>2. Between(w, a, a) \in Seq(Symbols) /\ Len(Between(w, a, a)) = 0
  BY Zenon, <1>0, BetweenIs
<1> QED BY <1>1, <1>2, EmptySeq

\* One word in front.
LEMMA LedGrows ==
  ASSUME NEW w \in EightWords, NEW a \in 0..7, NEW c \in (a + 1)..8
  PROVE  <<Ip!Colon>> \o (<<Ip!Hex(w[a])>> \o Led(w, a + 1, c)) = Led(w, a, c)
<1> DEFINE l == Led(w, a + 1, c)
           h == <<Ip!Hex(w[a])>> \o l
           q == <<Ip!Colon>> \o h
           t == Led(w, a, c)
           m == 2 * (c - (a + 1))
<1>1. a + 1 \in 0..8 /\ c \in (a + 1)..8 /\ c \in a..8 /\ a \in 0..8 /\ m \in Nat /\ 2 * (c - a) = m + 2
  OBVIOUS
<1>2. /\ l \in Seq(Symbols) /\ Len(l) = m
      /\ \A k \in 1..m : l[k] = IF k % 2 = 1 THEN Ip!Colon ELSE Ip!Hex(w[(a + 1) + (k \div 2) - 1])
  BY Zenon, <1>1, LedIs
<1>3. /\ t \in Seq(Symbols) /\ Len(t) = m + 2
      /\ \A k \in 1..(m + 2) : t[k] = IF k % 2 = 1 THEN Ip!Colon ELSE Ip!Hex(w[a + (k \div 2) - 1])
  BY Zenon, <1>1, LedIs
<1>4. Ip!Colon \in Symbols /\ Ip!Hex(w[a]) \in Symbols
  BY SymbolsAre DEF EightWords
<1> HIDE DEF l, t, m
<1>5. /\ h \in Seq(Symbols) /\ Len(h) = m + 1
      /\ \A k \in 1..(m + 1) : h[k] = IF k = 1 THEN Ip!Hex(w[a]) ELSE l[k - 1]
  BY <1>2, <1>4, PushFrontProperties
<1> HIDE DEF h
<1>6. /\ q \in Seq(Symbols) /\ Len(q) = (m + 1) + 1
      /\ \A k \in 1..((m + 1) + 1) : q[k] = IF k = 1 THEN Ip!Colon ELSE h[k - 1]
  BY <1>4, <1>5, PushFrontProperties
<1> HIDE DEF q
<1>7. ASSUME NEW k \in 1..(m + 2) PROVE q[k] = t[k]
  <2>1. CASE k = 1
    BY <1>1, <1>3, <1>6, <2>1
  <2>2. CASE k = 2
    <3>1. q[2] = h[1] /\ h[1] = Ip!Hex(w[a]) /\ t[2] = Ip!Hex(w[a + (2 \div 2) - 1])
      BY <1>1, <1>3, <1>5, <1>6
    <3>2. a + (2 \div 2) - 1 = a
      OBVIOUS
    <3> QED BY <2>2, <3>1, <3>2
  <2>3. CASE k > 2
    <3>1. k - 1 \in 1..(m + 1) /\ k - 1 # 1 /\ k # 1 /\ k - 2 \in 1..m /\ (k - 1) - 1 = k - 2 /\ k \in 1..((m + 1) + 1)
      BY <1>1, <2>3
    <3>2. q[k] = h[k - 1] /\ h[k - 1] = l[k - 2]
      BY Zenon, <1>5, <1>6, <3>1
    <3>3. (k - 2) % 2 = k % 2 /\ (a + 1) + ((k - 2) \div 2) - 1 = a + (k \div 2) - 1
      OBVIOUS
    <3> QED BY Zenon, <1>2, <1>3, <3>1, <3>2, <3>3
  <2> QED BY <1>1, <2>1, <2>2, <2>3
<1>8. q = t
  <2>1. Len(q) = m + 2 /\ Len(t) = m + 2
    BY <1>1, <1>3, <1>6
  <2>2. \A k \in 1..Len(q) : q[k] = t[k]
    BY <1>7, <2>1
  <2> QED BY Zenon, <1>3, <1>6, <2>1, <2>2, SeqEqual
<1> QED BY <1>8 DEF q, h, l, t

\* The first colon taken off.
LEMMA LedIsColon ==
  ASSUME NEW w \in EightWords, NEW a \in 0..7, NEW c \in (a + 1)..8
  PROVE  Led(w, a, c) = <<Ip!Colon>> \o Between(w, a, c)
<1> DEFINE p == Between(w, a, c)
           q == <<Ip!Colon>> \o p
           t == Led(w, a, c)
           m == 2 * (c - a) - 1
<1>1. c \in a..8 /\ a \in 0..8 /\ m \in Nat /\ 2 * (c - a) = m + 1 /\ Span(c - a) = m
  BY DEF Span
<1>2. /\ p \in Seq(Symbols) /\ Len(p) = m
      /\ \A k \in 1..m : p[k] = IF k % 2 = 1 THEN Ip!Hex(w[a + ((k + 1) \div 2) - 1]) ELSE Ip!Colon
  BY Zenon, <1>1, BetweenIs
<1>3. /\ t \in Seq(Symbols) /\ Len(t) = m + 1
      /\ \A k \in 1..(m + 1) : t[k] = IF k % 2 = 1 THEN Ip!Colon ELSE Ip!Hex(w[a + (k \div 2) - 1])
  BY Zenon, <1>1, LedIs
<1>4. Ip!Colon \in Symbols
  BY SymbolsAre
<1> HIDE DEF p, t, m
<1>5. /\ q \in Seq(Symbols) /\ Len(q) = m + 1
      /\ \A k \in 1..(m + 1) : q[k] = IF k = 1 THEN Ip!Colon ELSE p[k - 1]
  BY <1>2, <1>4, PushFrontProperties
<1> HIDE DEF q
<1>6. ASSUME NEW k \in 1..(m + 1) PROVE q[k] = t[k]
  <2>1. CASE k = 1
    BY <1>3, <1>5, <2>1
  <2>2. CASE k # 1
    <3>1. k - 1 \in 1..m /\ ((k - 1) % 2 = 1 <=> k % 2 # 1) /\ ((k - 1) + 1) \div 2 = k \div 2
      BY <1>1, <2>2
    <3> QED BY <1>2, <1>3, <1>5, <2>2, <3>1
  <2> QED BY <2>1, <2>2
<1>7. q = t
  BY <1>3, <1>5, <1>6, SeqEqual
<1> QED BY <1>7 DEF q, p, t

\* The word 0 has no colon in front.
LEMMA BetweenStarts ==
  ASSUME NEW w \in EightWords, NEW c \in 1..8
  PROVE  <<Ip!Hex(w[0])>> \o Led(w, 1, c) = Between(w, 0, c)
<1> DEFINE l == Led(w, 1, c)
           q == <<Ip!Hex(w[0])>> \o l
           t == Between(w, 0, c)
           m == 2 * (c - 1)
<1>1. 1 \in 0..8 /\ c \in 1..8 /\ 0 \in 0..8 /\ c \in 0..8 /\ m \in Nat /\ Span(c - 0) = m + 1
  BY DEF Span
<1>2. /\ l \in Seq(Symbols) /\ Len(l) = m
      /\ \A k \in 1..m : l[k] = IF k % 2 = 1 THEN Ip!Colon ELSE Ip!Hex(w[1 + (k \div 2) - 1])
  BY Zenon, <1>1, LedIs
<1>3. /\ t \in Seq(Symbols) /\ Len(t) = m + 1
      /\ \A k \in 1..(m + 1) : t[k] = IF k % 2 = 1 THEN Ip!Hex(w[0 + ((k + 1) \div 2) - 1]) ELSE Ip!Colon
  BY Zenon, <1>1, BetweenIs
<1>4. Ip!Hex(w[0]) \in Symbols
  BY SymbolsAre DEF EightWords
<1> HIDE DEF l, t, m
<1>5. /\ q \in Seq(Symbols) /\ Len(q) = m + 1
      /\ \A k \in 1..(m + 1) : q[k] = IF k = 1 THEN Ip!Hex(w[0]) ELSE l[k - 1]
  BY <1>2, <1>4, PushFrontProperties
<1> HIDE DEF q
<1>6. ASSUME NEW k \in 1..(m + 1) PROVE q[k] = t[k]
  <2>1. CASE k = 1
    <3>1. 0 + ((1 + 1) \div 2) - 1 = 0 /\ 1 % 2 = 1
      OBVIOUS
    <3> QED BY <1>3, <1>5, <2>1, <3>1
  <2>2. CASE k # 1
    <3>1. /\ k - 1 \in 1..m /\ ((k - 1) % 2 = 1 <=> k % 2 # 1)
          /\ k % 2 = 1 => 1 + ((k - 1) \div 2) - 1 = 0 + ((k + 1) \div 2) - 1
      BY <1>1, <2>2
    <3> QED BY <1>2, <1>3, <1>5, <2>2, <3>1
  <2> QED BY <2>1, <2>2
<1>7. q = t
  BY <1>3, <1>5, <1>6, SeqEqual
<1> QED BY <1>7 DEF q, l, t

\* A run of words that best is, or none.
RunIn(best, n) == best.base = -1 \/ (best.base \in 0..7 /\ best.len \in 1..8 /\ best.base + best.len <= n)

\* What the loop of inet_ntop6 writes from the word i on, behind the first word and at the first.
Rest6(best, w, n, i) ==
  IF best.base # -1 /\ i <= best.base
  THEN Led(w, i, best.base) \o (<<Ip!Colon>> \o Led(w, best.base + best.len, n))
  ELSE Led(w, i, n)
Whole(best, w, n) ==
  IF best.base = 0 THEN Rest6(best, w, n, 0) ELSE <<Ip!Hex(w[0])>> \o Rest6(best, w, n, 1)
From6(best, w, n, i) == IF i = 0 THEN Whole(best, w, n) ELSE Rest6(best, w, n, i)

\* One round of the loop, when f says what the later ones write.
Round(best, w, n, f, i) ==
  IF i = n THEN <<>>
  ELSE IF i = best.base THEN <<Ip!Colon>> \o f[i + best.len]
  ELSE (IF i # 0 THEN <<Ip!Colon>> ELSE <<>>) \o <<Ip!Hex(w[i])>> \o f[i + 1]
Rounds(f, best, w, n) == f = [i \in 0..n |-> Round(best, w, n, f, i)]

LEMMA RestIsText ==
  ASSUME NEW w \in EightWords, NEW n \in 1..8, NEW best, RunIn(best, n), NEW i \in 0..n
  PROVE  Rest6(best, w, n, i) \in Seq(Symbols)
<1>1. CASE best.base # -1 /\ i <= best.base
  <2> DEFINE b == best.base
             e == best.base + best.len
  <2>1. i \in 0..8 /\ b \in i..8 /\ e \in 0..8 /\ n \in e..8
    BY <1>1 DEF RunIn
  <2> HIDE DEF b, e
  <2>2. Led(w, i, b) \in Seq(Symbols) /\ Led(w, e, n) \in Seq(Symbols)
    BY Zenon, <2>1, LedIs
  <2>3. <<Ip!Colon>> \o Led(w, e, n) \in Seq(Symbols)
    BY <2>2, SymbolsAre, PushFrontProperties
  <2>4. Led(w, i, b) \o (<<Ip!Colon>> \o Led(w, e, n)) \in Seq(Symbols)
    BY <2>2, <2>3, ConcatProperties
  <2> QED BY <1>1, <2>4 DEF Rest6, b, e
<1>2. CASE ~ (best.base # -1 /\ i <= best.base)
  <2>1. i \in 0..8 /\ n \in i..8
    OBVIOUS
  <2>2. Led(w, i, n) \in Seq(Symbols)
    BY Zenon, <2>1, LedIs
  <2> QED BY <1>2, <2>2 DEF Rest6
<1> QED BY <1>1, <1>2

\* The closed form does what a round does.
LEMMA RoundsClosed ==
  ASSUME NEW w \in EightWords, NEW n \in 1..8, NEW best, RunIn(best, n), NEW i \in 0..n,
         NEW f, \A j \in (i + 1)..n : f[j] = From6(best, w, n, j)
  PROVE  Round(best, w, n, f, i) = From6(best, w, n, i)
<1>1. CASE i = n
  <2>1. i # 0 /\ ~ (best.base # -1 /\ i <= best.base)
    BY <1>1 DEF RunIn
  <2>2. Led(w, i, i) = <<>>
    BY NoWords
  <2> QED BY <1>1, <2>1, <2>2 DEF Round, From6, Rest6
<1>2. CASE i # n /\ i = best.base
  <2> DEFINE e == best.base + best.len
  <2>1. i # -1 /\ e \in (i + 1)..n /\ e # 0 /\ ~ (e <= best.base) /\ i \in 0..8 /\ i + best.len = e /\ n \in e..8 /\ e \in 0..8
    BY <1>2 DEF RunIn
  <2> HIDE DEF e
  <2>2. f[e] = Led(w, e, n)
    BY <2>1 DEF From6, Rest6
  <2>3. Round(best, w, n, f, i) = <<Ip!Colon>> \o Led(w, e, n)
    BY Zenon, <1>2, <2>1, <2>2 DEF Round
  <2>4. Rest6(best, w, n, i) = <<>> \o (<<Ip!Colon>> \o Led(w, e, n))
    <3>1. Led(w, i, i) = <<>>
      BY <2>1, NoWords
    <3> QED BY <1>2, <2>1, <3>1 DEF Rest6, e
  <2>5. <<Ip!Colon>> \o Led(w, e, n) \in Seq(Symbols)
    BY Zenon, <2>1, LedIs, SymbolsAre, PushFrontProperties
  <2>6. Rest6(best, w, n, i) = <<Ip!Colon>> \o Led(w, e, n)
    BY <2>4, <2>5, ConcatEmptySeq
  <2>7. From6(best, w, n, i) = Rest6(best, w, n, i)
    BY <1>2 DEF From6, Whole
  <2> QED BY <2>3, <2>6, <2>7
<1>3. CASE i # n /\ i # best.base
  <2> DEFINE r == Rest6(best, w, n, i + 1)
             h == <<Ip!Hex(w[i])>>
             c == <<Ip!Colon>>
  <2>1. i + 1 \in (i + 1)..n /\ i + 1 # 0 /\ i + 1 \in 0..n /\ i \in 0..7
    BY <1>3
  <2>2. f[i + 1] = r /\ r \in Seq(Symbols)
    BY Zenon, <2>1, RestIsText DEF From6
  <2>3. h \in Seq(Symbols) /\ c \in Seq(Symbols) /\ <<>> \in Seq(Symbols)
    <3>1. Ip!Hex(w[i]) \in Symbols /\ Ip!Colon \in Symbols
      BY <2>1, SymbolsAre DEF EightWords
    <3> QED BY <3>1
  <2>4. Round(best, w, n, f, i) = ((IF i # 0 THEN c ELSE <<>>) \o h) \o r
    BY <1>3, <2>2 DEF Round
  <2> HIDE DEF r, h, c
  <2>5. CASE i = 0
    <3>1. <<>> \o h = h
      BY <2>3, ConcatEmptySeq
    <3>2. Whole(best, w, n) = h \o r
      BY <1>3, <2>5 DEF Whole, h, r
    <3> QED BY <2>4, <2>5, <3>1, <3>2 DEF From6
  <2>6. CASE i # 0
    <3>1. Round(best, w, n, f, i) = c \o (h \o r)
      <4>1. AllSeqs(Symbols, c, h, r)
        BY <2>2, <2>3 DEF AllSeqs
      <4>2. (c \o h) \o r = c \o (h \o r)
        BY <4>1, ConcatThree
      <4> QED BY <2>4, <2>6, <4>2
    <3>2. CASE best.base # -1 /\ i < best.base
      <4> DEFINE b == best.base
                 q == <<Ip!Colon>> \o Led(w, best.base + best.len, n)
                 l == Led(w, i + 1, b)
      <4>1. i + 1 \in 0..8 /\ b \in (i + 1)..8 /\ b \in 0..8 /\ b + best.len \in 0..8 /\ n \in (b + best.len)..8
        BY <2>1, <3>2 DEF RunIn
      <4> HIDE DEF b
      <4>2. l \in Seq(Symbols)
        BY Zenon, <4>1, LedIs
      <4>3. q \in Seq(Symbols)
        BY Zenon, <4>1, LedIs, SymbolsAre, PushFrontProperties DEF b
      <4>4. r = l \o q
        <5>1. i + 1 <= best.base
          BY <2>1, <3>2, <4>1 DEF b
        <5> QED BY <3>2, <5>1 DEF r, Rest6, b
      <4>5. Rest6(best, w, n, i) = Led(w, i, b) \o q
        <5>1. i <= best.base
          BY <2>1, <3>2, <4>1 DEF b
        <5> QED BY <3>2, <5>1 DEF Rest6, b
      <4>6. c \o (h \o l) = Led(w, i, b)
        BY Zenon, <2>1, <4>1, LedGrows DEF c, h
      <4> HIDE DEF l, q
      <4>7. h \o (l \o q) = (h \o l) \o q /\ h \o l \in Seq(Symbols)
        <5>1. AllSeqs(Symbols, h, l, q)
          BY <2>3, <4>2, <4>3 DEF AllSeqs
        <5> QED BY <2>3, <4>2, <5>1, ConcatThree, ConcatProperties
      <4> DEFINE hl == h \o l
      <4>8. c \o (hl \o q) = (c \o hl) \o q
        <5>1. AllSeqs(Symbols, c, hl, q)
          BY <2>3, <4>3, <4>7 DEF AllSeqs
        <5> HIDE DEF hl
        <5> QED BY <5>1, ConcatThree
      <4> QED BY <2>6, <3>1, <4>4, <4>5, <4>6, <4>7, <4>8 DEF From6
    <3>3. CASE ~ (best.base # -1 /\ i < best.base)
      <4>1. ~ (best.base # -1 /\ i <= best.base) /\ ~ (best.base # -1 /\ i + 1 <= best.base)
        BY <1>3, <2>1, <3>3 DEF RunIn
      <4>2. r = Led(w, i + 1, n) /\ Rest6(best, w, n, i) = Led(w, i, n)
        BY <4>1 DEF r, Rest6
      <4>3. n \in (i + 1)..8
        BY <2>1
      <4>4. c \o (h \o Led(w, i + 1, n)) = Led(w, i, n)
        BY Zenon, <2>1, <4>3, LedGrows DEF c, h
      <4> QED BY <2>6, <3>1, <4>2, <4>4 DEF From6
    <3> QED BY <3>2, <3>3
  <2> QED BY <2>5, <2>6
<1> QED BY <1>1, <1>2, <1>3

\* A round looks at later ones only.
LEMMA GroupsAre ==
  ASSUME NEW w \in EightWords, NEW n \in 1..8, NEW best, RunIn(best, n)
  PROVE  Ip!Groups(best, w, n) = Whole(best, w, n)
<1> DEFINE F == [i \in 0..n |-> From6(best, w, n, i)]
<1>1. Rounds(F, best, w, n)
  <2> DEFINE G == [i \in 0..n |-> Round(best, w, n, F, i)]
  <2>1. ASSUME NEW i \in 0..n PROVE F[i] = G[i]
    <3>1. \A j \in (i + 1)..n : F[j] = From6(best, w, n, j)
      OBVIOUS
    <3>2. F[i] = From6(best, w, n, i) /\ G[i] = Round(best, w, n, F, i)
      OBVIOUS
    <3> HIDE DEF F, G
    <3> QED BY <3>1, <3>2, RoundsClosed
  <2>2. F = [i \in 0..n |-> F[i]] /\ G = [i \in 0..n |-> G[i]]
    OBVIOUS
  <2>3. F = G
    <3> HIDE DEF F, G
    <3> QED BY <2>1, <2>2
  <2> HIDE DEF F
  <2> QED BY <2>3, Zenon DEF Rounds
<1> DEFINE f == CHOOSE f : Rounds(f, best, w, n)
<1>2. Rounds(f, best, w, n)
  <2> HIDE DEF F
  <2> QED BY <1>1, Zenon
<1>3. Ip!Groups(best, w, n) = f[0]
  BY DEF Ip!Groups, Rounds, Round
<1> HIDE DEF f, F
<1>4. \A i \in 0..n : f[i] = Round(best, w, n, f, i)
  BY <1>2, Zenon DEF Rounds
<1> DEFINE T == {k \in Nat : \A i \in 0..n : n - i <= k => f[i] = From6(best, w, n, i)}
<1>5. 0 \in T
  <2> SUFFICES ASSUME NEW i \in 0..n, n - i <= 0 PROVE f[i] = From6(best, w, n, i)
    OBVIOUS
  <2>1. \A j \in (i + 1)..n : f[j] = From6(best, w, n, j)
    OBVIOUS
  <2> QED BY <1>4, <2>1, RoundsClosed
<1>6. ASSUME NEW k \in Nat, k \in T PROVE k + 1 \in T
  <2> SUFFICES ASSUME NEW i \in 0..n, n - i <= k + 1 PROVE f[i] = From6(best, w, n, i)
    OBVIOUS
  <2>1. \A j \in (i + 1)..n : f[j] = From6(best, w, n, j)
    <3> TAKE j \in (i + 1)..n
    <3>1. j \in 0..n /\ n - j <= k
      OBVIOUS
    <3> QED BY <1>6, <3>1
  <2> QED BY <1>4, <2>1, RoundsClosed
<1> HIDE DEF T
<1>7. Nat \subseteq T
  BY <1>5, <1>6, InductionOverPositions
<1>8. f[0] = From6(best, w, n, 0)
  <2>1. n \in T /\ 0 \in 0..n /\ n - 0 <= n
    BY <1>7
  <2> QED BY <2>1 DEF T
<1> QED BY <1>3, <1>8 DEF From6

\* The text of a whole address, for a best run of words.
Closing(best) == IF best.base # -1 /\ best.base + best.len = 8 THEN <<Ip!Colon>> ELSE <<>>

\* What the loop writes, and the colon behind it, is a text without short forms, or one with
\* two colons for the run.
LEMMA LoopWritesPlain ==
  ASSUME NEW w \in EightWords, NEW best, best.base = -1
  PROVE  Ip!Groups(best, w, 8) \o Closing(best) = Between(w, 0, 8)
<1>1. Ip!Groups(best, w, 8) = Whole(best, w, 8)
  BY GroupsAre DEF RunIn
<1>2. Whole(best, w, 8) = <<Ip!Hex(w[0])>> \o Led(w, 1, 8)
  BY DEF Whole, Rest6
<1>3. <<Ip!Hex(w[0])>> \o Led(w, 1, 8) = Between(w, 0, 8)
  <2>1. 8 \in 1..8
    OBVIOUS
  <2> QED BY <2>1, BetweenStarts, Zenon
<1>4. Between(w, 0, 8) \in Seq(Symbols)
  BY BetweenIs
<1>5. Closing(best) = <<>>
  BY DEF Closing
<1> QED BY Zenon, <1>1, <1>2, <1>3, <1>4, <1>5, ConcatEmptySeq

LEMMA WholeIs ==
  ASSUME NEW w \in EightWords, NEW best, RunIn(best, 8), best.base # -1
  PROVE  Whole(best, w, 8)
           = Between(w, 0, best.base) \o (<<Ip!Colon>> \o Led(w, best.base + best.len, 8))
<1> DEFINE a == best.base
           b == best.base + best.len
           q == <<Ip!Colon>> \o Led(w, b, 8)
<1>1. a \in 0..7 /\ a \in 0..8 /\ b \in 1..8 /\ b \in 0..8 /\ 8 \in b..8
  BY DEF RunIn
<1>2. q \in Seq(Symbols)
  BY Zenon, <1>1, LedIs, SymbolsAre, PushFrontProperties
<1>3. CASE a = 0
  <2>1. Whole(best, w, 8) = Led(w, a, a) \o q
    BY <1>3 DEF Whole, Rest6
  <2>2. Led(w, a, a) = <<>> /\ Between(w, 0, a) = <<>>
    BY <1>1, <1>3, NoWords
  <2> QED BY <2>1, <2>2
<1>4. CASE a # 0
  <2> DEFINE l == Led(w, 1, a)
             h == <<Ip!Hex(w[0])>>
  <2>1. a \in 1..8 /\ 1 \in 0..8 /\ 1 <= a
    BY <1>1, <1>4
  <2>2. Whole(best, w, 8) = h \o (l \o q)
    BY Zenon, <1>1, <1>4, <2>1 DEF Whole, Rest6
  <2>3. l \in Seq(Symbols)
    BY Zenon, <1>1, <2>1, LedIs
  <2>4. h \in Seq(Symbols)
    <3>1. Ip!Hex(w[0]) \in Symbols
      BY SymbolsAre DEF EightWords
    <3> QED BY <3>1
  <2>5. h \o l = Between(w, 0, a)
    BY Zenon, <2>1, BetweenStarts
  <2> HIDE DEF l, h, q, a, b
  <2>6. (h \o l) \o q = h \o (l \o q)
    <3>1. AllSeqs(Symbols, h, l, q)
      BY <1>2, <2>3, <2>4 DEF AllSeqs
    <3> QED BY <3>1, ConcatThree
  <2> QED BY Zenon, <2>2, <2>5, <2>6 DEF a, b, q
<1> QED BY Zenon, <1>3, <1>4

LEMMA PairOf ==
  ASSUME NEW S, NEW e \in S
  PROVE  <<e>> \in Seq(S) /\ <<e, e>> \in Seq(S) /\ <<e>> \o <<e>> = <<e, e>>
<1>1. <<e>> \in Seq(S) /\ <<e, e>> \in Seq(S) /\ Len(<<e>>) = 1 /\ Len(<<e, e>>) = 2
  OBVIOUS
<1> DEFINE q == <<e>> \o <<e>>
<1>2. /\ q \in Seq(S) /\ Len(q) = 1 + 1
      /\ \A k \in 1..(1 + 1) : q[k] = IF k = 1 THEN e ELSE <<e>>[k - 1]
  BY <1>1, PushFrontProperties
<1>3. q[1] = e /\ q[2] = e
  BY <1>2
<1> HIDE DEF q
<1>4. q = <<e, e>>
  BY <1>1, <1>2, <1>3, SeqEqual
<1> QED BY <1>1, <1>4 DEF q

LEMMA TailIs ==
  ASSUME NEW w \in EightWords, NEW best, RunIn(best, 8), best.base # -1
  PROVE  (<<Ip!Colon>> \o Led(w, best.base + best.len, 8)) \o Closing(best)
           = <<Ip!Colon, Ip!Colon>> \o Between(w, best.base + best.len, 8)
<1> DEFINE b == best.base + best.len
           c == <<Ip!Colon>>
           p == Between(w, b, 8)
<1>1. b \in 1..8 /\ b \in 0..8 /\ 8 \in b..8
  BY DEF RunIn
<1>2. c \in Seq(Symbols) /\ c \o c = <<Ip!Colon, Ip!Colon>> /\ <<Ip!Colon, Ip!Colon>> \in Seq(Symbols)
  <2>1. Ip!Colon \in Symbols
    BY SymbolsAre
  <2> QED BY <2>1, PairOf
<1>3. p \in Seq(Symbols)
  BY Zenon, <1>1, BetweenIs
<1>4. CASE b = 8
  <2>1. Led(w, b, 8) = <<>> /\ p = <<>> /\ Closing(best) = c
    BY <1>1, <1>4, NoWords DEF Closing
  <2> HIDE DEF b, c, p
  <2>2. c \o <<>> = c /\ <<Ip!Colon, Ip!Colon>> \o <<>> = <<Ip!Colon, Ip!Colon>>
    BY <1>2, ConcatEmptySeq
  <2>3. (c \o Led(w, b, 8)) \o Closing(best) = <<Ip!Colon, Ip!Colon>> \o p
    BY Zenon, <1>2, <2>1, <2>2
  <2> QED BY Zenon, <2>3 DEF b, c, p
<1>5. CASE b # 8
  <2>1. b \in 0..7 /\ 8 \in (b + 1)..8
    BY <1>1, <1>5
  <2>2. Led(w, b, 8) = c \o p
    BY Zenon, <2>1, LedIsColon
  <2>3. Closing(best) = <<>>
    BY <1>5 DEF Closing
  <2> HIDE DEF b, c, p
  <2>4. (c \o c) \o p = c \o (c \o p)
    <3>1. AllSeqs(Symbols, c, c, p)
      BY <1>2, <1>3 DEF AllSeqs
    <3> QED BY <3>1, ConcatThree
  <2>5. c \o (c \o p) \in Seq(Symbols)
    BY <1>2, <1>3, ConcatProperties
  <2>6. (c \o (c \o p)) \o <<>> = c \o (c \o p)
    BY <2>5, ConcatEmptySeq
  <2>7. (c \o Led(w, b, 8)) \o Closing(best) = <<Ip!Colon, Ip!Colon>> \o p
    BY Zenon, <1>2, <2>2, <2>3, <2>4, <2>6
  <2> QED BY <2>7 DEF b, c, p
<1> QED BY Zenon, <1>4, <1>5

LEMMA LoopWritesShort ==
  ASSUME NEW w \in EightWords, NEW best, RunIn(best, 8), best.base # -1
  PROVE  Ip!Groups(best, w, 8) \o Closing(best)
           = (Between(w, 0, best.base) \o <<Ip!Colon, Ip!Colon>>)
               \o Between(w, best.base + best.len, 8)
<1> DEFINE a == best.base
           b == best.base + best.len
           B == Between(w, 0, a)
           q == <<Ip!Colon>> \o Led(w, b, 8)
           t == Closing(best)
           cc == <<Ip!Colon, Ip!Colon>>
           P == Between(w, b, 8)
<1>1. a \in 0..8 /\ 0 \in 0..8 /\ b \in 0..8 /\ 8 \in b..8
  BY DEF RunIn
<1>2. Ip!Groups(best, w, 8) = B \o q
  BY GroupsAre, WholeIs
<1>3. q \o t = cc \o P
  BY Zenon, TailIs
<1>4. B \in Seq(Symbols) /\ P \in Seq(Symbols)
  BY Zenon, <1>1, BetweenIs
<1>5. q \in Seq(Symbols)
  BY Zenon, <1>1, LedIs, SymbolsAre, PushFrontProperties
<1>6. t \in Seq(Symbols) /\ cc \in Seq(Symbols)
  BY SymbolsAre DEF Closing
<1> HIDE DEF B, q, t, cc, P, a, b
<1>7. (B \o q) \o t = B \o (q \o t)
  <2>1. AllSeqs(Symbols, B, q, t)
    BY <1>4, <1>5, <1>6 DEF AllSeqs
  <2> QED BY <2>1, ConcatThree
<1>8. (B \o cc) \o P = B \o (cc \o P)
  <2>1. AllSeqs(Symbols, B, cc, P)
    BY <1>4, <1>6 DEF AllSeqs
  <2> QED BY <2>1, ConcatThree
<1>9. Ip!Groups(best, w, 8) \o t = (B \o cc) \o P
  BY Zenon, <1>2, <1>3, <1>7, <1>8
<1> QED BY Zenon, <1>9 DEF a, b, B, t, cc, P

\* The forms of the property.
LEMMA ShortIs ==
  ASSUME NEW w \in EightWords, NEW a \in 0..8, NEW b \in 0..8
  PROVE  /\ Ip!Plain([k \in 1..Ip!WCOUNT |-> w[k - 1]]) = Between(w, 0, 8)
         /\ Ip!Short(w, a, b) = (Between(w, 0, a) \o <<Ip!Colon, Ip!Colon>>) \o Between(w, b, 8)
<1>1. ASSUME NEW c \in 0..8 PROVE Ip!Plain([k \in 1..c |-> w[k - 1]]) = Between(w, 0, c)
  <2>1. [k \in 1..c |-> w[k - 1]] = [k \in 1..(c - 0) |-> w[0 + k - 1]]
    OBVIOUS
  <2> QED BY <2>1 DEF Between
<1>2. Ip!WCOUNT = 8
  BY DEF Ip!WCOUNT
<1>3. Ip!Plain([k \in 1..(Ip!WCOUNT - b) |-> w[b + k - 1]]) = Between(w, b, 8)
  BY <1>2 DEF Between
<1>4. Ip!Plain([k \in 1..a |-> w[k - 1]]) = Between(w, 0, a)
  BY Zenon, <1>1
<1>5. Ip!Plain([k \in 1..Ip!WCOUNT |-> w[k - 1]]) = Between(w, 0, 8)
  BY <1>1, <1>2
<1> QED BY Zenon, <1>3, <1>4, <1>5 DEF Ip!Short

\* No word has more than four digits.
LEMMA BetweenFits ==
  ASSUME NEW w \in EightWords, NEW a \in 0..8, NEW c \in a..8
  PROVE  Ip!Chars(Between(w, a, c)) \in Nat /\ Ip!Chars(Between(w, a, c)) <= 5 * (c - a)
<1> DEFINE t == Between(w, a, c)
           n == Span(c - a)
           u == [k \in 0..n |-> 5 * (k \div 2) + 4 * (k % 2)]
<1>1. /\ t \in Seq(Symbols) /\ Len(t) = n
      /\ \A k \in 1..n : t[k] = IF k % 2 = 1 THEN Ip!Hex(w[a + ((k + 1) \div 2) - 1]) ELSE Ip!Colon
  BY Zenon, BetweenIs
<1>2. n \in Nat
  BY DEF Span
<1>3. u[n] <= 5 * (c - a)
  BY DEF Span
<1> HIDE DEF t, n
<1>4. u \in [0..n -> Nat] /\ u[0] = 0
  BY <1>2
<1>5. ASSUME NEW k \in 1..n PROVE u[k - 1] + Ip!Width(t[k]) <= u[k]
  <2>1. k - 1 \in 0..n /\ k \in 0..n /\ k \in Nat
    BY <1>2
  <2>2. Ip!Width(t[k]) \in 1..4
    BY WidthIsSmall
  <2>3. u[k] = 5 * (k \div 2) + 4 * (k % 2) /\ u[k - 1] = 5 * ((k - 1) \div 2) + 4 * ((k - 1) % 2)
    BY <2>1
  <2> HIDE DEF u
  <2>4. CASE k % 2 = 1
    <3>1. (k - 1) % 2 = 0 /\ (k - 1) \div 2 = k \div 2
      BY <2>1, <2>4
    <3> QED BY <2>1, <2>2, <2>3, <2>4, <3>1
  <2>5. CASE k % 2 # 1
    <3>1. k % 2 = 0 /\ (k - 1) % 2 = 1 /\ (k - 1) \div 2 = (k \div 2) - 1
      BY <2>1, <2>5
    <3>2. Ip!Width(t[k]) = 1
      BY <1>1, <2>5, WidthIsSmall
    <3> QED BY <2>1, <2>3, <3>1, <3>2
  <2> QED BY <2>4, <2>5
<1> HIDE DEF u
<1>6. Ip!Chars(t) \in Nat /\ Ip!Chars(t) <= u[n]
  BY Zenon, <1>1, <1>4, <1>5, CharsBounded
<1>7. u[n] \in Nat
  BY <1>2, <1>4
<1> QED BY <1>3, <1>6, <1>7 DEF t

\* A text of a few elements.
LEMMA FewCharacters ==
  ASSUME NEW E, NEW t \in Seq(E)
  PROVE  Ip!Chars(t) \in Nat /\ Ip!Chars(t) <= 4 * Len(t)
<1> DEFINE n == Len(t)
           u == [k \in 0..n |-> 4 * k]
<1>1. n \in Nat
  BY LenProperties
<1>2. \A k \in 1..n : Ip!Width(t[k]) \in 1..4
  BY WidthIsSmall
<1>3. u \in [0..n -> Nat] /\ u[0] = 0 /\ u[n] = 4 * n
  BY <1>1
<1>4. ASSUME NEW k \in 1..n PROVE u[k - 1] + Ip!Width(t[k]) <= u[k]
  <2>1. u[k - 1] = 4 * (k - 1) /\ u[k] = 4 * k
    BY <1>1
  <2> HIDE DEF u
  <2>2. Ip!Width(t[k]) \in 1..4
    BY WidthIsSmall
  <2> QED BY <1>1, <2>1, <2>2
<1> HIDE DEF u
<1> QED BY <1>3, <1>4, CharsBounded DEF n

LEMMA WordsAre ==
  ASSUME NEW a \in Of(TRUE)
  PROVE  Ip!Words(a) \in EightWords
<1>1. \A k \in 1..16 : a[k] \in 0..255
  BY DEF Of, Ip!Bytes
<1>2. ASSUME NEW i \in 0..7 PROVE a[2 * i + 1] * 256 + a[2 * i + 2] \in Nat
  <2>1. 2 * i + 1 \in 1..16 /\ 2 * i + 2 \in 1..16
    OBVIOUS
  <2> DEFINE hi == a[2 * i + 1]
             lo == a[2 * i + 2]
  <2>2. hi \in 0..255 /\ lo \in 0..255
    BY <1>1, <2>1
  <2> HIDE DEF hi, lo
  <2>3. hi * 256 + lo \in Nat
    BY <2>2
  <2> QED BY <2>3 DEF hi, lo
<1>3. Ip!Words(a) = [i \in 0..7 |-> a[2 * i + 1] * 256 + a[2 * i + 2]]
  BY DEF Ip!Words, Ip!WCOUNT
<1> QED BY <1>2, <1>3 DEF EightWords

\* The text for the words w.
TextOf(w) == Ip!Groups(Ip!BestRun(w), w, 8) \o Closing(Ip!BestRun(w))

LEMMA BestRunIn ==
  ASSUME NEW w
  PROVE  /\ RunIn(Ip!BestRun(w), 8)
         /\ Ip!BestRun(w).base \in -1..7 /\ Ip!BestRun(w).len \in Nat
<1>1. CASE Ip!BestRun(w).base = -1
  <2>1. Ip!BestRun(w) = Ip!None
    BY <1>1, BestRunIs
  <2> QED BY <1>1, <2>1 DEF RunIn, Ip!None
<1>2. CASE Ip!BestRun(w).base # -1
  <2> DEFINE r == Ip!BestRun(w)
  <2>1. r \in Run /\ r.len >= 2 /\ r.base + r.len <= 8
    BY <1>2, BestRunIs
  <2> HIDE DEF r
  <2>2. r.base \in -1..7 /\ r.len \in Nat
    BY <2>1 DEF Run
  <2>3. r.base # -1
    BY <1>2 DEF r
  <2>4. RunIn(r, 8)
    BY <2>1, <2>2, <2>3 DEF RunIn
  <2> QED BY <2>2, <2>4 DEF r
<1> QED BY <1>1, <1>2

LEMMA ZerosAre ==
  ASSUME NEW w, NEW a \in Int, NEW b \in Int, Ip!Zeros(w, a, b), NEW k \in Int, a <= k, k < b
  PROVE  w[k] = 0
BY DEF Ip!Zeros

\* The loop meets an encapsulated address exactly when it is one.
LEMMA MappedIs ==
  ASSUME NEW w \in EightWords
  PROVE  Ip!Encapsulated(Ip!BestRun(w), w) <=> Ip!EmbedsIPv4(w)
<1> DEFINE r == Ip!BestRun(w)
<1>1. r.base \in -1..7 /\ r.len \in Nat
  BY BestRunIn
<1>2. r.base # -1 =>
        /\ r.len >= 2 /\ r.base + r.len <= 8 /\ Ip!Zeros(w, r.base, r.base + r.len)
        /\ \A a, b \in 0..8 : Ip!Zeros(w, a, b) =>
             b - a < r.len \/ (b - a = r.len /\ r.base <= a)
  BY BestRunIs
<1>3. r.base = -1 => \A a, b \in 0..8 : Ip!Zeros(w, a, b) => b - a < 2
  BY BestRunIs
<1>4. Ip!Encapsulated(r, w) <=> r.base = 0 /\ (r.len = 6 \/ (r.len = 5 /\ w[5] = 65535))
  BY DEF Ip!Encapsulated
<1> HIDE DEF r
<1>5. ASSUME r.base = 0, r.len = 6 PROVE Ip!EmbedsIPv4(w)
  <2>1. \A k \in 0..5 : w[k] = 0
    BY <1>2, <1>5 DEF Ip!Zeros
  <2>2. w[6] # 0
    <3> SUFFICES ASSUME w[6] = 0 PROVE FALSE
      OBVIOUS
    <3>1. \A k \in 0..6 : w[k] = 0
      BY <2>1
    <3>2. Ip!Zeros(w, 0, 7)
      BY <3>1 DEF Ip!Zeros
    <3>3. 7 - 0 < r.len \/ 7 - 0 = r.len
      BY <1>2, <1>5, <3>2
    <3> QED BY <1>5, <3>3
  <2> QED BY <2>1, <2>2 DEF Ip!EmbedsIPv4
<1>6. ASSUME r.base = 0, r.len = 5, w[5] = 65535 PROVE Ip!EmbedsIPv4(w)
  BY <1>2, <1>6 DEF Ip!EmbedsIPv4, Ip!Zeros
<1>7. ASSUME Ip!EmbedsIPv4(w), w[5] = 65535 PROVE r.base = 0 /\ r.len = 5
  <2>1. Ip!Zeros(w, 0, 5)
    BY <1>7 DEF Ip!EmbedsIPv4, Ip!Zeros
  <2>2. r.base # -1
    <3>1. r.base = -1 => 5 - 0 < 2
      BY <1>3, <2>1
    <3> QED BY <3>1
  <2>3. 5 < r.len \/ (5 = r.len /\ r.base <= 0)
    <3>1. 5 - 0 < r.len \/ (5 - 0 = r.len /\ r.base <= 0)
      BY <1>2, <2>1, <2>2
    <3> QED BY <3>1
  <2>4. ~ (5 < r.len)
    <3> SUFFICES ASSUME 5 < r.len PROVE FALSE
      OBVIOUS
    <3>1. r.base <= 5 /\ 5 < r.base + r.len /\ r.base + r.len \in Int
      BY <1>1, <1>2, <2>2
    <3>2. Ip!Zeros(w, r.base, r.base + r.len)
      BY <1>2, <2>2
    <3>4. w[5] = 0
      BY <1>1, <3>1, <3>2, ZerosAre
    <3> QED BY <1>7, <3>4
  <2> QED BY <1>1, <2>2, <2>3, <2>4
<1>8. ASSUME Ip!EmbedsIPv4(w), w[5] # 65535 PROVE r.base = 0 /\ r.len = 6
  <2>1. w[5] = 0 /\ w[6] # 0
    BY <1>8 DEF Ip!EmbedsIPv4
  <2>2. Ip!Zeros(w, 0, 6)
    BY <1>8, <2>1 DEF Ip!EmbedsIPv4, Ip!Zeros
  <2>3. r.base # -1
    <3>1. r.base = -1 => 6 - 0 < 2
      BY <1>3, <2>2
    <3> QED BY <3>1
  <2>4. 6 < r.len \/ (6 = r.len /\ r.base <= 0)
    <3>1. 6 - 0 < r.len \/ (6 - 0 = r.len /\ r.base <= 0)
      BY <1>2, <2>2, <2>3
    <3> QED BY <3>1
  <2>5. ~ (6 < r.len)
    <3> SUFFICES ASSUME 6 < r.len PROVE FALSE
      OBVIOUS
    <3>1. r.base <= 6 /\ 6 < r.base + r.len /\ r.base + r.len \in Int
      BY <1>1, <1>2, <2>3
    <3>2. Ip!Zeros(w, r.base, r.base + r.len)
      BY <1>2, <2>3
    <3>4. w[6] = 0
      BY <1>1, <3>1, <3>2, ZerosAre
    <3> QED BY <2>1, <3>4
  <2> QED BY <1>1, <2>3, <2>4, <2>5
<1>9. Ip!Encapsulated(r, w) <=> Ip!EmbedsIPv4(w)
  BY <1>4, <1>5, <1>6, <1>7, <1>8
<1> QED BY <1>9 DEF r

\* Its first six words leave room enough.
LEMMA MappedHasRoom ==
  ASSUME NEW w \in EightWords, Ip!Encapsulated(Ip!BestRun(w), w)
  PROVE  Ip!TmpSize - (Ip!Chars(Ip!Groups(Ip!BestRun(w), w, 6)) + 1) \in Int
         /\ Ip!TmpSize - (Ip!Chars(Ip!Groups(Ip!BestRun(w), w, 6)) + 1) >= Ip!MIN_SIZE
<1> DEFINE r == Ip!BestRun(w)
           l == Led(w, r.base + r.len, 6)
           q == <<Ip!Colon>> \o l
<1>1. r.base = 0 /\ r.len \in 5..6
  BY DEF Ip!Encapsulated
<1>2. RunIn(r, 6) /\ 6 \in 1..8
  BY <1>1 DEF RunIn
<1>3. Ip!Groups(r, w, 6) = Whole(r, w, 6)
  BY <1>2, GroupsAre
<1>4. Whole(r, w, 6) = Led(w, 0, 0) \o q
  BY <1>1 DEF Whole, Rest6
<1>5. Led(w, 0, 0) = <<>>
  BY NoWords
<1>6. l \in Seq(Symbols) /\ Len(l) \in Nat /\ Len(l) <= 2
  <2> DEFINE e == r.base + r.len
  <2>1. e \in 0..8 /\ 6 \in e..8 /\ 2 * (6 - e) \in 0..2
    BY <1>1
  <2> HIDE DEF e
  <2>2. Led(w, e, 6) \in Seq(Symbols) /\ Len(Led(w, e, 6)) = 2 * (6 - e)
    BY Zenon, <2>1, LedIs
  <2>3. 2 * (6 - e) \in Nat /\ 2 * (6 - e) <= 2
    BY <2>1
  <2> QED BY <2>2, <2>3 DEF e
<1> HIDE DEF l, r
<1>7. q \in Seq(Symbols) /\ Len(q) \in Nat /\ Len(q) <= 3
  BY <1>6, SymbolsAre, PushFrontProperties
<1> HIDE DEF q
<1>8. Ip!Groups(r, w, 6) = q
  BY <1>3, <1>4, <1>5, <1>7, ConcatEmptySeq
<1>9. Ip!Chars(q) \in Nat /\ Ip!Chars(q) <= 4 * Len(q)
  BY <1>7, FewCharacters
<1>10. Ip!TmpSize = 46 /\ Ip!MIN_SIZE = 16
  BY DEF Ip!TmpSize, Ip!MIN_SIZE
<1> QED BY <1>7, <1>8, <1>9, <1>10 DEF r

\* Every other text fits into the buffer of 46 bytes.
LEMMA TextFits ==
  ASSUME NEW w \in EightWords
  PROVE  Ip!Chars(TextOf(w)) \in Nat /\ Ip!Chars(TextOf(w)) + 1 <= 46
<1> DEFINE r == Ip!BestRun(w)
<1>1. CASE r.base = -1
  <2>1. TextOf(w) = Between(w, 0, 8)
    BY <1>1, LoopWritesPlain DEF TextOf
  <2>2. Ip!Chars(Between(w, 0, 8)) \in Nat /\ Ip!Chars(Between(w, 0, 8)) <= 5 * (8 - 0)
    BY BetweenFits
  <2> QED BY <2>1, <2>2
<1>2. CASE r.base # -1
  <2> DEFINE a == r.base
             b == r.base + r.len
             A == Between(w, 0, a)
             cc == <<Ip!Colon, Ip!Colon>>
             B == Between(w, b, 8)
  <2>1. RunIn(r, 8) /\ a \in 0..7 /\ b \in 0..8 /\ b >= a + 2
    BY <1>2, BestRunIn, BestRunIs DEF RunIn
  <2>2. TextOf(w) = (A \o cc) \o B
    BY Zenon, <1>2, <2>1, LoopWritesShort DEF TextOf
  <2>3. /\ 0 \in 0..8 /\ a \in 0..8 /\ a \in 0..8 /\ b \in 0..8 /\ 8 \in b..8
    BY <2>1
  <2> HIDE DEF a, b
  <2>4. Ip!Chars(A) \in Nat /\ Ip!Chars(A) <= 5 * (a - 0) /\ A \in Seq(Symbols)
    BY Zenon, <2>3, BetweenFits, BetweenIs
  <2>5. Ip!Chars(B) \in Nat /\ Ip!Chars(B) <= 5 * (8 - b) /\ B \in Seq(Symbols)
    BY Zenon, <2>3, BetweenFits, BetweenIs
  <2>6. cc \in Seq(Symbols) /\ Len(cc) = 2
    BY SymbolsAre, PairOf
  <2> HIDE DEF A, B, cc
  <2>7. Ip!Chars(cc) \in Nat /\ Ip!Chars(cc) <= 8
    <3>1. Ip!Chars(cc) \in Nat /\ Ip!Chars(cc) <= 4 * Len(cc)
      BY Zenon, <2>6, FewCharacters
    <3> QED BY <2>6, <3>1
  <2>8. A \o cc \in Seq(Symbols)
    BY <2>4, <2>6, ConcatProperties
  <2>9. /\ Ip!Chars(A \o cc) = Ip!Chars(A) + Ip!Chars(cc)
        /\ Ip!Chars((A \o cc) \o B) = Ip!Chars(A \o cc) + Ip!Chars(B)
    BY Zenon, <2>4, <2>5, <2>6, <2>8, CharsConcat
  <2> QED BY <2>1, <2>2, <2>3, <2>4, <2>5, <2>7, <2>9
<1> QED BY <1>1, <1>2

\* inet_ntop6.
LEMMA SixIs ==
  ASSUME NEW a \in Of(TRUE), NEW n \in Nat
  PROVE  LET w == Ip!Words(a)
         IN  /\ Ip!inet_ntop6(a, n).ret \in {0, -1}
             /\ Ip!inet_ntop6(a, n).ret = 0 =>
                  Ip!inet_ntop6(a, n).dst = TextOf(w) /\ Ip!Chars(TextOf(w)) + 1 <= n
             /\ Ip!inet_ntop6(a, n).ret = -1 =>
                  Ip!EmbedsIPv4(w) \/ Ip!Chars(TextOf(w)) + 1 > n
<1> DEFINE w == Ip!Words(a)
           r == Ip!BestRun(w)
           room == Ip!TmpSize - (Ip!Chars(Ip!Groups(r, w, 6)) + 1)
           x == Ip!inet_ntop6(a, n)
<1>1. w \in EightWords
  BY Zenon, WordsAre
<1>2. x = IF Ip!Encapsulated(r, w) /\ Ip!inet_ntop4(SubSeq(a, 13, 16), room).ret = 0
          THEN Ip!Failed
          ELSE IF Ip!Chars(TextOf(w)) + 1 > n THEN Ip!Failed ELSE Ip!Done(TextOf(w))
  BY DEF Ip!inet_ntop6, TextOf, Closing, Ip!WCOUNT
<1>3. Ip!Encapsulated(r, w) => Ip!inet_ntop4(SubSeq(a, 13, 16), room).ret = 0
  <2> SUFFICES ASSUME Ip!Encapsulated(r, w) PROVE Ip!inet_ntop4(SubSeq(a, 13, 16), room).ret = 0
    OBVIOUS
  <2> DEFINE src == SubSeq(a, 13, 16)
  <2>1. room \in Int /\ room >= Ip!MIN_SIZE
    BY <1>1, MappedHasRoom
  <2>2. Ip!MIN_SIZE = 16
    BY DEF Ip!MIN_SIZE
  <2> HIDE DEF room, src
  <2>3. ~ (room < Ip!MIN_SIZE)
    BY <2>1, <2>2
  <2>4. Ip!inet_ntop4(src, room).ret = 0
    BY <2>3 DEF Ip!inet_ntop4, Ip!Done
  <2> QED BY <2>4 DEF src
<1>4. Ip!Encapsulated(r, w) <=> Ip!EmbedsIPv4(w)
  BY <1>1, MappedIs
<1>5. Ip!Chars(TextOf(w)) \in Nat
  BY <1>1, TextFits
<1>6. /\ Ip!Failed.ret = -1 /\ Ip!Done(TextOf(w)).ret = 0 /\ Ip!Done(TextOf(w)).dst = TextOf(w)
  BY DEF Ip!Failed, Ip!Done
<1> HIDE DEF w, r, room, x
<1>7. x = IF Ip!EmbedsIPv4(w) \/ Ip!Chars(TextOf(w)) + 1 > n THEN Ip!Failed ELSE Ip!Done(TextOf(w))
  BY <1>2, <1>3, <1>4
<1>8. /\ x.ret \in {0, -1}
      /\ x.ret = 0 => x.dst = TextOf(w) /\ Ip!Chars(TextOf(w)) + 1 <= n
      /\ x.ret = -1 => Ip!EmbedsIPv4(w) \/ Ip!Chars(TextOf(w)) + 1 > n
  <2>1. CASE Ip!EmbedsIPv4(w) \/ Ip!Chars(TextOf(w)) + 1 > n
    BY <1>5, <1>6, <1>7, <2>1
  <2>2. CASE ~ (Ip!EmbedsIPv4(w) \/ Ip!Chars(TextOf(w)) + 1 > n)
    BY <1>5, <1>6, <1>7, <2>2
  <2> QED BY <2>1, <2>2
<1> QED BY <1>8 DEF w, x

\* inet_ntop4 refuses small buffers only.
LEMMA FourAnswers ==
  ASSUME NEW a, NEW n \in Nat
  PROVE  IF n < 16 THEN Ip!inet_ntop4(a, n).ret = -1
         ELSE Ip!inet_ntop4(a, n).ret = 0
BY DEF Ip!inet_ntop4, Ip!Failed, Ip!Done, Ip!MIN_SIZE

(***************************************************************************)
(* The text of an IPv4 address.                                            *)
(***************************************************************************)

\* One, two or three digits in a row.
LEMMA Singles ==
  ASSUME NEW S, NEW a \in S, NEW b \in S, NEW c \in S
  PROVE  /\ <<a>> \in Seq(S) /\ <<a, b>> \in Seq(S) /\ <<a, b, c>> \in Seq(S)
         /\ (<<>> \o <<>>) \o <<a>> = <<a>>
         /\ (<<>> \o <<a>>) \o <<b>> = <<a, b>>
         /\ (<<a>> \o <<b>>) \o <<c>> = <<a, b, c>>
<1>1. /\ <<>> \in Seq(S) /\ <<a>> \in Seq(S) /\ <<b>> \in Seq(S) /\ <<c>> \in Seq(S)
      /\ <<a, b>> \in Seq(S) /\ <<b, c>> \in Seq(S) /\ <<a, b, c>> \in Seq(S)
  OBVIOUS
<1>2. <<>> \o <<>> = <<>> /\ <<>> \o <<a>> = <<a>>
  BY <1>1, ConcatEmptySeq
<1>3. <<a>> \o <<b>> = <<a, b>>
  <2> DEFINE q == <<a>> \o <<b>>
  <2>1. /\ q \in Seq(S) /\ Len(q) = 1 + 1
        /\ \A k \in 1..(1 + 1) : q[k] = IF k = 1 THEN a ELSE <<b>>[k - 1]
    BY <1>1, PushFrontProperties
  <2>2. q[1] = a /\ q[2] = b
    BY <2>1
  <2> HIDE DEF q
  <2>3. q = <<a, b>>
    BY <1>1, <2>1, <2>2, SeqEqual
  <2> QED BY <2>3 DEF q
<1>4. <<a, b>> \o <<c>> = <<a, b, c>>
  <2> DEFINE d == <<a, b>>
             q == d \o <<c>>
  <2>1. d \in Seq(S) /\ Len(d) = 2 /\ d[1] = a /\ d[2] = b /\ Len(<<c>>) = 1 /\ <<c>>[1] = c
    BY <1>1
  <2> HIDE DEF d
  <2>2. /\ q \in Seq(S) /\ Len(q) = 2 + 1
        /\ \A k \in 1..(2 + 1) : q[k] = IF k <= 2 THEN d[k] ELSE <<c>>[k - 2]
    BY SMTT(30), <1>1, <2>1, ConcatProperties
  <2>3. q[1] = a /\ q[2] = b /\ q[3] = c
    BY <2>1, <2>2
  <2> HIDE DEF q
  <2>4. q = <<a, b, c>>
    BY <1>1, <2>2, <2>3, SeqEqual
  <2> QED BY <2>4 DEF q, d
<1> QED BY Zenon, <1>1, <1>2, <1>3, <1>4

\* Number goes over the digits.
NumberFrom(u, t) ==
  u = [k \in 0..Len(t) |-> IF k = 0 THEN 0 ELSE 10 * u[k - 1] + t[k][2]]

LEMMA NumberReads ==
  ASSUME NEW E, NEW t \in Seq(E), \A k \in 1..Len(t) : t[k][2] \in Nat
  PROVE  \E u : /\ u[0] = 0
                /\ \A k \in 1..Len(t) : u[k] = 10 * u[k - 1] + t[k][2]
                /\ Ip!Number(t) = u[Len(t)]
<1> DEFINE n == Len(t)
           step(k, v) == IF k \in 1..n THEN 10 * v + t[k][2] ELSE 0
           g == [k \in Nat |-> [v \in Nat |-> step(k, v)]]
<1>1. \A k \in Nat, v \in Nat : step(k, v) \in Nat
  OBVIOUS
<1>2. n \in Nat
  BY LenProperties
<1>3. g \in [Nat -> [Nat -> Nat]] /\ \A k \in Nat, v \in Nat : g[k][v] = step(k, v)
  <2> HIDE DEF step
  <2> QED BY Zenon, <1>1
<1> HIDE DEF g, n
<1>4. PICK f : Takes(f, 0, g, n) /\ f \in [0..n -> Nat]
  BY Zenon, <1>2, <1>3, TakesExists
<1> DEFINE h == [k \in 0..n |-> IF k = 0 THEN 0 ELSE 10 * f[k - 1] + t[k][2]]
<1>5. ASSUME NEW i \in 0..n PROVE f[i] = h[i]
  <2>1. f[i] = IF i = 0 THEN 0 ELSE g[i][f[i - 1]]
    <3>1. Takes(f, 0, g, n) /\ i \in 0..n
      BY <1>4
    <3> HIDE DEF h
    <3> QED BY <3>1, Zenon DEF Takes
  <2>2. CASE i = 0
    BY <2>1, <2>2
  <2>3. CASE i # 0
    <3>1. i \in Nat /\ i \in 1..n /\ i - 1 \in 0..n
      BY <1>2, <2>3
    <3>2. f[i - 1] \in Nat
      BY <1>4, <3>1
    <3>3. g[i][f[i - 1]] = 10 * f[i - 1] + t[i][2]
      BY Zenon, <1>3, <3>1, <3>2
    <3> QED BY <2>1, <2>3, <3>3
  <2> QED BY <2>2, <2>3
<1>6. f = [i \in 0..n |-> f[i]] /\ h = [i \in 0..n |-> h[i]]
  BY <1>4
<1>7. f = h
  <2> HIDE DEF h
  <2> QED BY <1>5, <1>6
<1>8. NumberFrom(f, t)
  BY <1>7, Zenon DEF NumberFrom, n
<1> DEFINE u == CHOOSE u : NumberFrom(u, t)
<1>9. NumberFrom(u, t)
  BY <1>8, Zenon
<1>10. Ip!Number(t) = u[Len(t)]
  BY DEF Ip!Number, NumberFrom
<1> HIDE DEF u
<1>11. \A k \in 0..Len(t) : u[k] = IF k = 0 THEN 0 ELSE 10 * u[k - 1] + t[k][2]
  BY <1>9, Zenon DEF NumberFrom
<1>12. u[0] = 0 /\ \A k \in 1..Len(t) : u[k] = 10 * u[k - 1] + t[k][2]
  BY <1>2, <1>11 DEF n
<1> QED BY Zenon, <1>10, <1>12

\* What is written for a byte: one digit at least, three at most, no zero in front.
ReadsAs(t, u) ==
  /\ t \in Seq(Symbols) /\ Len(t) \in 1..3
  /\ \A k \in 1..Len(t) : t[k] # Ip!Dot /\ Ip!Width(t[k]) = 1
  /\ Len(t) = 1 \/ t[1] # Ip!Dec(0)
  /\ Ip!Number(t) = u

LEMMA DecIs ==
  ASSUME NEW d \in Nat
  PROVE  /\ Ip!Dec(d) \in Symbols /\ Ip!Dec(d)[2] = d /\ Ip!Dec(d) # Ip!Dot /\ Ip!Width(Ip!Dec(d)) = 1
         /\ d # 0 => Ip!Dec(d) # Ip!Dec(0)
BY SymbolsAre, WidthIsSmall DEF Ip!Dec, Ip!Dot

LEMMA DecimalIs ==
  ASSUME NEW u \in Ip!Bytes
  PROVE  ReadsAs(Ip!Decimal(u), u)
<1>0. u \in 0..255
  BY DEF Ip!Bytes
<1> DEFINE h == u \div 100
           z == (u % 100) \div 10
           o == u % 10
           D == Ip!Decimal(u)
<1>1. /\ h \in Nat /\ z \in Nat /\ o \in Nat
      /\ u <= 9 => o = u
      /\ 9 < u /\ u <= 99 => 10 * z + o = u /\ z # 0
      /\ 99 < u => 10 * (10 * h + z) + o = u /\ h # 0
  BY <1>0
<1>2. D = ((IF u > 99 THEN <<Ip!Dec(h)>> ELSE <<>>) \o (IF u > 9 THEN <<Ip!Dec(z)>> ELSE <<>>))
            \o <<Ip!Dec(o)>>
  BY DEF Ip!Decimal
<1> HIDE DEF h, z, o, D
<1>3. /\ Ip!Dec(h) \in Symbols /\ Ip!Dec(z) \in Symbols /\ Ip!Dec(o) \in Symbols
      /\ Ip!Dec(h)[2] = h /\ Ip!Dec(z)[2] = z /\ Ip!Dec(o)[2] = o
      /\ Ip!Dec(h) # Ip!Dot /\ Ip!Dec(z) # Ip!Dot /\ Ip!Dec(o) # Ip!Dot
      /\ Ip!Width(Ip!Dec(h)) = 1 /\ Ip!Width(Ip!Dec(z)) = 1 /\ Ip!Width(Ip!Dec(o)) = 1
      /\ h # 0 => Ip!Dec(h) # Ip!Dec(0)
      /\ z # 0 => Ip!Dec(z) # Ip!Dec(0)
  BY <1>1, DecIs
<1> DEFINE H == Ip!Dec(h)
           Z == Ip!Dec(z)
           O == Ip!Dec(o)
<1>4. /\ <<O>> \in Seq(Symbols) /\ <<Z, O>> \in Seq(Symbols) /\ <<H, Z, O>> \in Seq(Symbols)
      /\ (<<>> \o <<>>) \o <<O>> = <<O>>
      /\ (<<>> \o <<Z>>) \o <<O>> = <<Z, O>>
      /\ (<<H>> \o <<Z>>) \o <<O>> = <<H, Z, O>>
  BY <1>3, Singles
<1> HIDE DEF H, Z, O
<1>5. CASE u <= 9
  <2>1. D = <<O>>
    <3>1. ~ (u > 99) /\ ~ (u > 9)
      BY <1>0, <1>5
    <3>2. D = (<<>> \o <<>>) \o <<O>>
      BY <1>2, <3>1, Zenon DEF O
    <3> QED BY <1>4, <3>2
  <2>2. D \in Seq(Symbols) /\ Len(D) = 1 /\ D[1] = O
    BY <1>4, <2>1
  <2>3. O[2] = u /\ O # Ip!Dot /\ Ip!Width(O) = 1
    BY <1>1, <1>3, <1>5 DEF O
  <2>4. PICK f : f[0] = 0 /\ (\A k \in 1..Len(D) : f[k] = 10 * f[k - 1] + D[k][2]) /\ Ip!Number(D) = f[Len(D)]
    <3>1. \A k \in 1..Len(D) : D[k][2] \in Nat
      BY <1>0, <2>2, <2>3
    <3> QED BY <2>2, <3>1, NumberReads
  <2>5. f[1] = u
    BY <1>0, <2>2, <2>3, <2>4
  <2>6. ReadsAs(D, u)
    BY <2>2, <2>3, <2>4, <2>5 DEF ReadsAs
  <2> QED BY <2>6 DEF D
<1>6. CASE 9 < u /\ u <= 99
  <2>1. D = <<Z, O>>
    <3>1. ~ (u > 99) /\ u > 9
      BY <1>0, <1>6
    <3>2. D = (<<>> \o <<Z>>) \o <<O>>
      BY <1>2, <3>1, Zenon DEF Z, O
    <3> QED BY <1>4, <3>2
  <2>2. D \in Seq(Symbols) /\ Len(D) = 2 /\ D[1] = Z /\ D[2] = O
    BY <1>4, <2>1
  <2>3. Z[2] = z /\ O[2] = o /\ Z # Ip!Dot /\ O # Ip!Dot /\ Ip!Width(Z) = 1 /\ Ip!Width(O) = 1 /\ Z # Ip!Dec(0)
    BY <1>1, <1>3, <1>6 DEF Z, O
  <2>4. PICK f : f[0] = 0 /\ (\A k \in 1..Len(D) : f[k] = 10 * f[k - 1] + D[k][2]) /\ Ip!Number(D) = f[Len(D)]
    <3>1. \A k \in 1..Len(D) : D[k][2] \in Nat
      BY <1>1, <2>2, <2>3
    <3> QED BY Zenon, <2>2, <3>1, NumberReads
  <2>5. f[1] = z /\ f[2] = u
    <3>1. f[1] = z
      BY <1>1, <2>2, <2>3, <2>4
    <3>2. f[2] = 10 * f[1] + o
      BY <2>2, <2>3, <2>4
    <3> QED BY <1>1, <1>6, <3>1, <3>2
  <2>6. ReadsAs(D, u)
    BY <2>2, <2>3, <2>4, <2>5 DEF ReadsAs
  <2> QED BY <2>6 DEF D
<1>7. CASE 99 < u
  <2>1. D = <<H, Z, O>>
    <3>1. u > 99 /\ u > 9
      BY <1>0, <1>7
    <3>2. D = (<<H>> \o <<Z>>) \o <<O>>
      BY <1>2, <3>1, Zenon DEF H, Z, O
    <3> QED BY <1>4, <3>2
  <2>2. D \in Seq(Symbols) /\ Len(D) = 3 /\ D[1] = H /\ D[2] = Z /\ D[3] = O
    BY <1>4, <2>1
  <2>3. /\ H[2] = h /\ Z[2] = z /\ O[2] = o /\ H # Ip!Dot /\ Z # Ip!Dot /\ O # Ip!Dot
        /\ Ip!Width(H) = 1 /\ Ip!Width(Z) = 1 /\ Ip!Width(O) = 1 /\ H # Ip!Dec(0)
    BY <1>1, <1>3, <1>7 DEF H, Z, O
  <2>4. PICK f : f[0] = 0 /\ (\A k \in 1..Len(D) : f[k] = 10 * f[k - 1] + D[k][2]) /\ Ip!Number(D) = f[Len(D)]
    <3>1. \A k \in 1..Len(D) : D[k][2] \in Nat
      BY <1>1, <2>2, <2>3
    <3> QED BY Zenon, <2>2, <3>1, NumberReads
  <2>5. f[3] = u
    <3>1. f[1] = h
      BY <1>1, <2>2, <2>3, <2>4
    <3>2. f[2] = 10 * f[1] + z
      BY <2>2, <2>3, <2>4
    <3>3. f[3] = 10 * f[2] + o
      BY <2>2, <2>3, <2>4
    <3> QED BY <1>1, <1>7, <3>1, <3>2, <3>3
  <2>6. ReadsAs(D, u)
    BY <2>2, <2>3, <2>4, <2>5 DEF ReadsAs
  <2> QED BY <2>6 DEF D
<1> QED BY <1>0, <1>5, <1>6, <1>7

\* The four fields of a text, with the dots between them, place by place.
FieldEnds(D) == LET a == Len(D[1]) + 1
               b == a + Len(D[2]) + 1
               c == b + Len(D[3]) + 1
           IN  <<a, b, c, c + Len(D[4]) + 1>>
Fields(D, t) ==
  LET e == FieldEnds(D)
  IN  /\ t \in Seq(Symbols) /\ Len(t) = e[4] - 1
      /\ \A k \in 1..Len(D[1]) : t[k] = D[1][k]
      /\ \A k \in 1..Len(D[2]) : t[e[1] + k] = D[2][k]
      /\ \A k \in 1..Len(D[3]) : t[e[2] + k] = D[3][k]
      /\ \A k \in 1..Len(D[4]) : t[e[3] + k] = D[4][k]
      /\ t[e[1]] = Ip!Dot /\ t[e[2]] = Ip!Dot /\ t[e[3]] = Ip!Dot

\* y is the text x of m elements with the field d of n ones and its dot behind.
Row(x, m, d, n, y) ==
  /\ y \in Seq(Symbols) /\ Len(y) = m + n + 1
  /\ \A k \in 1..m : y[k] = x[k]
  /\ \A k \in 1..n : y[m + k] = d[k]
  /\ y[m + n + 1] = Ip!Dot

LEMMA RowBehind ==
  ASSUME NEW x \in Seq(Symbols), NEW d \in Seq(Symbols)
  PROVE  Row(x, Len(x), d, Len(d), x \o Append(d, Ip!Dot))
<1> DEFINE r == Append(d, Ip!Dot)
           y == x \o r
           m == Len(x)
           n == Len(d)
<1>1. m \in Nat /\ n \in Nat
  BY LenProperties
<1>2. r \in Seq(Symbols) /\ Len(r) = n + 1 /\ r[n + 1] = Ip!Dot /\ \A k \in 1..n : r[k] = d[k]
  BY SymbolsAre, AppendProperties
<1> HIDE DEF r
<1>3. /\ y \in Seq(Symbols) /\ Len(y) = m + (n + 1)
      /\ \A k \in 1..(m + (n + 1)) : y[k] = IF k <= m THEN x[k] ELSE r[k - m]
  <2>1. \A k \in 1..(m + Len(r)) : y[k] = IF k <= m THEN x[k] ELSE r[k - m]
    BY <1>2, ConcatProperties, Zenon
  <2>2. y \in Seq(Symbols) /\ Len(y) = m + Len(r)
    BY <1>2, ConcatProperties, Zenon
  <2> HIDE DEF y, m
  <2> QED BY <1>2, <2>1, <2>2
<1> HIDE DEF y, m, n
<1>4. ASSUME NEW k \in 1..m PROVE y[k] = x[k]
  <2>1. k \in 1..(m + (n + 1)) /\ k <= m
    BY <1>1
  <2> QED BY <1>3, <2>1
<1>5. ASSUME NEW k \in 1..n PROVE y[m + k] = d[k]
  <2>1. m + k \in 1..(m + (n + 1)) /\ ~ (m + k <= m) /\ (m + k) - m = k
    BY <1>1
  <2> QED BY Zenon, <1>2, <1>3, <2>1
<1>6. y[m + n + 1] = Ip!Dot
  <2>1. m + n + 1 \in 1..(m + (n + 1)) /\ ~ (m + n + 1 <= m) /\ (m + n + 1) - m = n + 1
    BY <1>1
  <2> QED BY <1>2, <1>3, <2>1
<1>7. Len(y) = m + n + 1
  BY <1>1, <1>3
<1>8. Row(x, m, d, n, y)
  BY <1>3, <1>4, <1>5, <1>6, <1>7 DEF Row
<1> QED BY <1>8 DEF y, m, n, r

LEMMA FieldsWritten ==
  ASSUME NEW D, \A k \in 1..4 : D[k] \in Seq(Symbols),
         NEW n \in Nat, n >= 16, NEW src, \A k \in 1..4 : D[k] = Ip!Decimal(src[k])
  PROVE  Fields(D, Ip!inet_ntop4(src, n).dst)
<1> DEFINE t == Ip!inet_ntop4(src, n).dst
           d1 == D[1]
           d2 == D[2]
           d3 == D[3]
           d4 == D[4]
           n1 == Len(d1)
           n2 == Len(d2)
           n3 == Len(d3)
           n4 == Len(d4)
           a == n1 + 1
           b == n1 + 1 + n2 + 1
           c == n1 + 1 + n2 + 1 + n3 + 1
           o == <<>>
           x1 == o \o Append(d1, Ip!Dot)
           x2 == x1 \o Append(d2, Ip!Dot)
           x3 == x2 \o Append(d3, Ip!Dot)
           x4 == x3 \o d4
<1>1. /\ d1 = Ip!Decimal(src[1]) /\ d2 = Ip!Decimal(src[2])
      /\ d3 = Ip!Decimal(src[3]) /\ d4 = Ip!Decimal(src[4])
  OBVIOUS
<1>2. t = ((Append(d1, Ip!Dot) \o Append(d2, Ip!Dot)) \o Append(d3, Ip!Dot)) \o d4
  <2> DEFINE z == ((Append(Ip!Decimal(src[1]), Ip!Dot) \o Append(Ip!Decimal(src[2]), Ip!Dot))
                     \o Append(Ip!Decimal(src[3]), Ip!Dot)) \o Ip!Decimal(src[4])
  <2>1. ~ (n < 16)
    OBVIOUS
  <2>2. Ip!inet_ntop4(src, n) = [ret |-> 0, dst |-> z]
    BY Zenon, <2>1 DEF Ip!inet_ntop4, Ip!Done, Ip!MIN_SIZE
  <2>3. z = ((Append(d1, Ip!Dot) \o Append(d2, Ip!Dot)) \o Append(d3, Ip!Dot)) \o d4
    BY Zenon, <1>1
  <2>4. Ip!inet_ntop4(src, n).dst = z
    <3> HIDE DEF z
    <3> QED BY <2>2
  <2> QED BY Zenon, <2>3, <2>4
<1> HIDE DEF t
<1>5. d1 \in Seq(Symbols) /\ d2 \in Seq(Symbols) /\ d3 \in Seq(Symbols) /\ d4 \in Seq(Symbols)
  OBVIOUS
<1> HIDE DEF d1, d2, d3, d4
<1>6. n1 \in Nat /\ n2 \in Nat /\ n3 \in Nat /\ n4 \in Nat
  BY <1>5, LenProperties
<1>7. o \in Seq(Symbols) /\ Len(o) = 0
  OBVIOUS
<1>8. t = x4
  <2>1. Append(d1, Ip!Dot) \in Seq(Symbols)
    BY <1>5, SymbolsAre, AppendProperties
  <2>2. x1 = Append(d1, Ip!Dot)
    BY <2>1, ConcatEmptySeq
  <2> HIDE DEF x1
  <2> QED BY Zenon, <1>2, <2>2
<1>9. Row(o, 0, d1, n1, x1)
  BY Zenon, <1>5, <1>7, RowBehind
<1>10. x1 \in Seq(Symbols) /\ Len(x1) = a
  <2>1. x1 \in Seq(Symbols) /\ Len(x1) = 0 + n1 + 1
    BY <1>9, Zenon DEF Row
  <2> HIDE DEF n1, x1
  <2> QED BY <1>6, <2>1
<1> HIDE DEF x1
<1>11. Row(x1, a, d2, n2, x2)
  BY <1>5, <1>10, RowBehind, Zenon
<1>12. x2 \in Seq(Symbols) /\ Len(x2) = b
  BY <1>11, Zenon DEF Row
<1> HIDE DEF x2
<1>13. Row(x2, b, d3, n3, x3)
  BY <1>5, <1>12, RowBehind, Zenon
<1>14. x3 \in Seq(Symbols) /\ Len(x3) = c
  BY <1>13, Zenon DEF Row
<1> HIDE DEF x3
<1>16. /\ a \in Nat /\ b \in Nat /\ c \in Nat /\ c + n4 \in Nat
       /\ a = n1 + 1 /\ b = a + n2 + 1 /\ c = b + n3 + 1
  BY <1>6
<1>17. /\ t \in Seq(Symbols) /\ Len(t) = c + n4
       /\ \A k \in 1..(c + n4) : t[k] = IF k <= c THEN x3[k] ELSE d4[k - c]
  <2>1. /\ x4 \in Seq(Symbols) /\ Len(x4) = Len(x3) + Len(d4)
        /\ \A k \in 1..(Len(x3) + Len(d4)) : x4[k] = IF k <= Len(x3) THEN x3[k] ELSE d4[k - Len(x3)]
    BY Zenon, <1>5, <1>14, ConcatProperties
  <2> HIDE DEF x4
  <2> QED BY Zenon, <1>8, <1>14, <2>1
<1> HIDE DEF n1, n2, n3, n4, a, b, c
<1>18. \A k \in 1..c : t[k] = x3[k]
  <2> TAKE k \in 1..c
  <2>1. k \in 1..(c + n4) /\ k <= c
    BY <1>6, <1>16
  <2> QED BY Zenon, <1>17, <2>1
<1>19. \A k \in 1..b : t[k] = x2[k]
  <2> TAKE k \in 1..b
  <2>1. k \in 1..c
    BY <1>6, <1>16
  <2>2. x3[k] = x2[k]
    BY <1>13, Zenon DEF Row
  <2> QED BY <1>18, <2>1, <2>2
<1>20. \A k \in 1..a : t[k] = x1[k]
  <2> TAKE k \in 1..a
  <2>1. k \in 1..b
    BY <1>6, <1>16
  <2>2. x2[k] = x1[k]
    BY <1>11, Zenon DEF Row
  <2> QED BY <1>19, <2>1, <2>2
<1>21. (\A k \in 1..n1 : t[k] = d1[k]) /\ t[a] = Ip!Dot
  <2>1. (\A k \in 1..n1 : x1[0 + k] = d1[k]) /\ x1[0 + n1 + 1] = Ip!Dot
    BY <1>9, Zenon DEF Row
  <2>2. a \in 1..a /\ 0 + n1 + 1 = a
    BY <1>6, <1>16
  <2>3. \A k \in 1..n1 : k \in 1..a /\ 0 + k = k
    BY <1>6, <1>16
  <2>4. \A k \in 1..n1 : x1[k] = d1[k]
    BY <2>1, <2>3
  <2> QED BY <1>20, <2>1, <2>2, <2>3, <2>4
<1>22. (\A k \in 1..n2 : t[a + k] = d2[k]) /\ t[b] = Ip!Dot
  <2>1. (\A k \in 1..n2 : x2[a + k] = d2[k]) /\ x2[a + n2 + 1] = Ip!Dot
    BY <1>11, Zenon DEF Row
  <2>2. b \in 1..b /\ \A k \in 1..n2 : a + k \in 1..b
    BY <1>6, <1>16
  <2> QED BY Zenon, <1>16, <1>19, <2>1, <2>2
<1>23. (\A k \in 1..n3 : t[b + k] = d3[k]) /\ t[c] = Ip!Dot
  <2>1. (\A k \in 1..n3 : x3[b + k] = d3[k]) /\ x3[b + n3 + 1] = Ip!Dot
    BY <1>13, Zenon DEF Row
  <2>2. c \in 1..c /\ \A k \in 1..n3 : b + k \in 1..c
    BY <1>6, <1>16
  <2> QED BY Zenon, <1>16, <1>18, <2>1, <2>2
<1>24. \A k \in 1..n4 : t[c + k] = d4[k]
  <2> TAKE k \in 1..n4
  <2>1. c + k \in 1..(c + n4) /\ ~ (c + k <= c) /\ (c + k) - c = k
    BY <1>6, <1>16
  <2> QED BY Zenon, <1>17, <2>1
<1> DEFINE e == FieldEnds(D)
<1>25. e = <<a, b, c, c + n4 + 1>>
  BY Zenon DEF FieldEnds, a, b, c, n1, n2, n3, n4, d1, d2, d3, d4
<1>26. e[1] = a /\ e[2] = b /\ e[3] = c /\ e[4] - 1 = c + n4
  <2> HIDE DEF e
  <2> QED BY <1>6, <1>16, <1>25
<1> HIDE DEF e
<1>27. /\ t \in Seq(Symbols) /\ Len(t) = e[4] - 1
       /\ \A k \in 1..n1 : t[k] = d1[k]
       /\ \A k \in 1..n2 : t[e[1] + k] = d2[k]
       /\ \A k \in 1..n3 : t[e[2] + k] = d3[k]
       /\ \A k \in 1..n4 : t[e[3] + k] = d4[k]
       /\ t[e[1]] = Ip!Dot /\ t[e[2]] = Ip!Dot /\ t[e[3]] = Ip!Dot
  BY <1>17, <1>21, <1>22, <1>23, <1>24, <1>26, Zenon
<1>28. Fields(D, t)
  BY <1>27, Zenon DEF Fields, e, n1, n2, n3, n4, d1, d2, d3, d4
<1> QED BY <1>28 DEF t

\* The piece of a text that starts behind the place p.
LEMMA PieceIs ==
  ASSUME NEW t, NEW d \in Seq(Symbols), NEW p \in Nat, NEW q, q = p + Len(d),
         \A k \in 1..Len(d) : t[p + k] = d[k]
  PROVE  SubSeq(t, p + 1, q) = d
<1> DEFINE n == Len(d)
           s == SubSeq(t, p + 1, p + n)
<1>1. n \in Nat /\ \A k \in 1..n : d[k] \in Symbols
  BY LenProperties, ElementOfSeq
<1>2. ASSUME NEW i \in (p + 1)..(p + n) PROVE t[i] \in Symbols
  <2>1. i - p \in 1..n /\ p + (i - p) = i
    BY <1>1
  <2>2. t[p + (i - p)] = d[i - p]
    BY <2>1
  <2> QED BY <1>1, <2>1, <2>2
<1>3. p + 1 \in Int /\ p + n \in Int
  BY <1>1
<1>4. /\ s \in Seq(Symbols)
      /\ Len(s) = IF p + 1 <= p + n THEN (p + n) - (p + 1) + 1 ELSE 0
      /\ \A i \in 1..((p + n) - (p + 1) + 1) : s[i] = t[(p + 1) + i - 1]
  BY <1>2, <1>3, SubSeqProperties
<1> HIDE DEF s
<1>5. Len(s) = n
  BY <1>1, <1>4
<1>6. ASSUME NEW i \in 1..n PROVE s[i] = d[i]
  <2>1. i \in 1..((p + n) - (p + 1) + 1) /\ (p + 1) + i - 1 = p + i
    BY <1>1
  <2>2. s[i] = t[p + i]
    BY <1>4, <2>1
  <2> QED BY <2>2
<1>7. s = d
  BY <1>4, <1>5, <1>6, SeqEqual
<1> QED BY <1>7 DEF s, n

\* Four numbers with dots between them.
FourNumbers(t, src) ==
  LET dots == {k \in 1..Len(t) : t[k] = Ip!Dot}
  IN  \E a, b, c \in dots :
        LET cut  == <<0, a, b, c, Len(t) + 1>>
            f(k) == SubSeq(t, cut[k] + 1, cut[k + 1] - 1)
        IN  /\ dots = {a, b, c} /\ a < b /\ b < c
            /\ \A k \in 1..4 : /\ Len(f(k)) = 1 \/ f(k)[1] # Ip!Dec(0)
                               /\ Ip!Number(f(k)) = src[k]

LEMMA FieldsAreNumbers ==
  ASSUME NEW D, NEW src, \A k \in 1..4 : ReadsAs(D[k], src[k]), NEW t, Fields(D, t)
  PROVE  FourNumbers(t, src) /\ Ip!Chars(t) \in Nat /\ Ip!Chars(t) + 1 <= 16
<1> DEFINE d1 == D[1]
           d2 == D[2]
           d3 == D[3]
           d4 == D[4]
           n1 == Len(d1)
           n2 == Len(d2)
           n3 == Len(d3)
           n4 == Len(d4)
           e == FieldEnds(D)
           a == e[1]
           b == e[2]
           c == e[3]
           L == Len(t)
<1>1. ReadsAs(d1, src[1]) /\ ReadsAs(d2, src[2]) /\ ReadsAs(d3, src[3]) /\ ReadsAs(d4, src[4])
  OBVIOUS
<1>2. /\ t \in Seq(Symbols) /\ L = e[4] - 1
      /\ \A k \in 1..n1 : t[k] = d1[k]
      /\ \A k \in 1..n2 : t[a + k] = d2[k]
      /\ \A k \in 1..n3 : t[b + k] = d3[k]
      /\ \A k \in 1..n4 : t[c + k] = d4[k]
      /\ t[a] = Ip!Dot /\ t[b] = Ip!Dot /\ t[c] = Ip!Dot
  BY Zenon DEF Fields
<1> HIDE DEF d1, d2, d3, d4
<1>3. n1 \in 1..3 /\ n2 \in 1..3 /\ n3 \in 1..3 /\ n4 \in 1..3
  BY <1>1, Zenon DEF ReadsAs
<1>4. /\ d1 \in Seq(Symbols) /\ d2 \in Seq(Symbols) /\ d3 \in Seq(Symbols) /\ d4 \in Seq(Symbols)
      /\ \A k \in 1..n1 : d1[k] # Ip!Dot /\ Ip!Width(d1[k]) = 1
      /\ \A k \in 1..n2 : d2[k] # Ip!Dot /\ Ip!Width(d2[k]) = 1
      /\ \A k \in 1..n3 : d3[k] # Ip!Dot /\ Ip!Width(d3[k]) = 1
      /\ \A k \in 1..n4 : d4[k] # Ip!Dot /\ Ip!Width(d4[k]) = 1
  BY <1>1, Zenon DEF ReadsAs
<1>5. e = <<n1 + 1, n1 + 1 + n2 + 1, n1 + 1 + n2 + 1 + n3 + 1, n1 + 1 + n2 + 1 + n3 + 1 + n4 + 1>>
  BY Zenon DEF FieldEnds, d1, d2, d3, d4
<1> HIDE DEF n1, n2, n3, n4
<1>6. a = n1 + 1 /\ b = a + n2 + 1 /\ c = b + n3 + 1 /\ e[4] - 1 = c + n4
  <2> HIDE DEF e
  <2> QED BY <1>3, <1>5
<1>7. L = c + n4
  BY <1>2, <1>6
<1> HIDE DEF e, a, b, c, L
<1>8. a \in 2..4 /\ b \in (a + 2)..8 /\ c \in (b + 2)..12 /\ L \in (c + 1)..15
  BY <1>3, <1>6, <1>7
<1>9. ASSUME NEW k \in 1..L
      PROVE  Ip!Width(t[k]) = 1 /\ (t[k] = Ip!Dot <=> k \in {a, b, c})
  <2>1. CASE k \in {a, b, c}
    BY <1>2, <2>1, WidthIsSmall
  <2>2. CASE k < a
    <3>1. k \in 1..n1 /\ k \notin {a, b, c}
      BY <1>3, <1>6, <1>8, <2>2
    <3> QED BY Zenon, <1>2, <1>4, <3>1
  <2>3. CASE a < k /\ k < b
    <3> DEFINE j == k - a
    <3>1. j \in 1..n2 /\ k \notin {a, b, c} /\ a + j = k
      BY <1>3, <1>6, <1>8, <2>3
    <3> HIDE DEF j
    <3>2. t[k] = d2[j]
      BY <1>2, <3>1
    <3> QED BY <1>4, <3>1, <3>2
  <2>4. CASE b < k /\ k < c
    <3> DEFINE j == k - b
    <3>1. j \in 1..n3 /\ k \notin {a, b, c} /\ b + j = k
      BY <1>3, <1>6, <1>8, <2>4
    <3> HIDE DEF j
    <3>2. t[k] = d3[j]
      BY <1>2, <3>1
    <3> QED BY <1>4, <3>1, <3>2
  <2>5. CASE c < k
    <3> DEFINE j == k - c
    <3>1. j \in 1..n4 /\ k \notin {a, b, c} /\ c + j = k
      BY <1>3, <1>6, <1>7, <1>8, <2>5
    <3> HIDE DEF j
    <3>2. t[k] = d4[j]
      BY Zenon, <1>2, <3>1
    <3> QED BY <1>4, <3>1, <3>2
  <2> QED BY <1>8, <2>1, <2>2, <2>3, <2>4, <2>5
<1>10. Ip!Chars(t) \in Nat /\ Ip!Chars(t) + 1 <= 16
  <2> DEFINE u == [k \in 0..L |-> k]
  <2>1. L \in 0..15
    BY <1>8
  <2>2. u \in [0..L -> Nat] /\ u[0] = 0 /\ u[L] = L
    BY <2>1
  <2>3. ASSUME NEW k \in 1..L PROVE u[k - 1] + Ip!Width(t[k]) <= u[k]
    <3>1. u[k - 1] = k - 1 /\ u[k] = k
      BY <2>1
    <3>2. Ip!Width(t[k]) = 1
      BY <1>9
    <3> HIDE DEF u
    <3> QED BY <2>1, <3>1, <3>2
  <2> HIDE DEF u
  <2>4. Ip!Chars(t) \in Nat /\ Ip!Chars(t) <= u[L]
    BY Zenon, <1>2, <2>2, <2>3, CharsBounded DEF L
  <2>5. L <= 15 /\ L \in Nat
    BY <2>1
  <2> QED BY <2>2, <2>4, <2>5
<1>11. FourNumbers(t, src)
  <2> DEFINE dots == {k \in 1..Len(t) : t[k] = Ip!Dot}
             cut == <<0, a, b, c, Len(t) + 1>>
             f(k) == SubSeq(t, cut[k] + 1, cut[k + 1] - 1)
  <2>1. dots = {a, b, c}
    <3>1. a \in 1..L /\ b \in 1..L /\ c \in 1..L
      BY <1>8
    <3>2. \A k \in 1..L : t[k] = Ip!Dot <=> k \in {a, b, c}
      BY <1>9
    <3> QED BY <3>1, <3>2 DEF L
  <2>2. a < b /\ b < c
    BY <1>8
  <2>3. f(1) = d1
    <3>1. 0 + Len(d1) = a - 1 /\ 0 \in Nat /\ \A k \in 1..Len(d1) : t[0 + k] = d1[k]
      <4>1. 0 + n1 = a - 1 /\ \A k \in 1..n1 : 0 + k = k
        BY <1>3, <1>6
      <4>2. \A k \in 1..n1 : t[0 + k] = d1[k]
        BY <1>2, <4>1
      <4> QED BY <4>1, <4>2 DEF n1
    <3>2. SubSeq(t, 0 + 1, a - 1) = d1
      BY <1>4, <3>1, PieceIs
    <3> QED BY <3>2
  <2>4. f(2) = d2
    <3>1. b - 1 = a + Len(d2) /\ a \in Nat /\ \A k \in 1..Len(d2) : t[a + k] = d2[k]
      <4>1. b - 1 = a + n2 /\ a \in Nat
        BY <1>3, <1>6, <1>8
      <4> QED BY <1>2, <4>1, Zenon DEF n2
    <3>2. SubSeq(t, a + 1, b - 1) = d2
      BY <1>4, <3>1, PieceIs
    <3> QED BY <3>2
  <2>5. f(3) = d3
    <3>1. c - 1 = b + Len(d3) /\ b \in Nat /\ \A k \in 1..Len(d3) : t[b + k] = d3[k]
      <4>1. c - 1 = b + n3 /\ b \in Nat
        BY <1>3, <1>6, <1>8
      <4> QED BY <1>2, <4>1, Zenon DEF n3
    <3>2. SubSeq(t, b + 1, c - 1) = d3
      BY <1>4, <3>1, PieceIs
    <3> QED BY <3>2
  <2>6. f(4) = d4
    <3>1. c + n4 = c + Len(d4) /\ c \in Nat /\ \A k \in 1..Len(d4) : t[c + k] = d4[k]
      BY <1>2, <1>3, <1>8 DEF n4
    <3>2. SubSeq(t, c + 1, c + n4) = d4
      BY <1>4, <3>1, PieceIs
    <3>3. L + 1 - 1 = c + n4
      BY <1>3, <1>7, <1>8
    <3>4. Len(t) + 1 - 1 = c + n4
      BY <3>3, Zenon DEF L
    <3>5. cut[4] + 1 = c + 1 /\ cut[4 + 1] - 1 = Len(t) + 1 - 1
      OBVIOUS
    <3>6. f(4) = SubSeq(t, cut[4] + 1, cut[4 + 1] - 1)
      BY Zenon
    <3> HIDE DEF cut, f
    <3> QED BY Zenon, <3>2, <3>4, <3>5, <3>6
  <2> HIDE DEF f, cut
  <2>7. ASSUME NEW k \in 1..4
        PROVE  (Len(f(k)) = 1 \/ f(k)[1] # Ip!Dec(0)) /\ Ip!Number(f(k)) = src[k]
    <3>1. f(k) = D[k]
      BY <2>3, <2>4, <2>5, <2>6 DEF d1, d2, d3, d4
    <3>2. ReadsAs(D[k], src[k])
      OBVIOUS
    <3> QED BY <3>1, <3>2, Zenon DEF ReadsAs
  <2>8. a \in dots /\ b \in dots /\ c \in dots
    <3> HIDE DEF dots
    <3> QED BY <2>1
  <2> QED BY <2>1, <2>2, <2>7, <2>8, Zenon DEF FourNumbers, f, cut
<1> QED BY <1>10, <1>11

\* inet_ntop4.
LEMMA FourIs ==
  ASSUME NEW a \in Of(FALSE), NEW n \in Nat, Ip!inet_ntop4(a, n).ret = 0
  PROVE  LET t == Ip!inet_ntop4(a, n).dst
         IN  FourNumbers(t, a) /\ Ip!Chars(t) + 1 <= n
<1>1. n >= 16
  BY FourAnswers
<1> DEFINE D == [k \in 1..4 |-> Ip!Decimal(a[k])]
           t == Ip!inet_ntop4(a, n).dst
<1>2. ASSUME NEW k \in 1..4 PROVE ReadsAs(D[k], a[k]) /\ D[k] = Ip!Decimal(a[k])
  <2>1. a[k] \in Ip!Bytes
    BY DEF Of
  <2> QED BY <2>1, DecimalIs
<1>3. \A k \in 1..4 : D[k] \in Seq(Symbols)
  <2> HIDE DEF D
  <2> QED BY <1>2 DEF ReadsAs
<1> HIDE DEF D
<1>4. Fields(D, t)
  BY <1>1, <1>2, <1>3, FieldsWritten
<1> HIDE DEF t
<1>5. FourNumbers(t, a) /\ Ip!Chars(t) \in Nat /\ Ip!Chars(t) + 1 <= 16
  BY <1>2, <1>4, FieldsAreNumbers
<1>6. FourNumbers(t, a) /\ Ip!Chars(t) + 1 <= n
  BY <1>1, <1>5
<1> QED BY <1>6 DEF t

\* The text written is the one an address may have.
LEMMA TextReadsBack ==
  ASSUME NEW w \in EightWords
  PROVE  Ip!SixTexts(w) = {TextOf(w)}
<1> DEFINE best == Ip!BestRun(w)
           a == best.base
           b == best.base + best.len
<1>1. CASE best.base = -1
  <2>1. \A q \in Ip!ZeroRuns(w) : FALSE
    <3> SUFFICES ASSUME NEW q \in Ip!ZeroRuns(w) PROVE FALSE
      OBVIOUS
    <3>1. q[1] \in 0..8 /\ q[2] \in 0..8 /\ q[2] - q[1] >= 2 /\ Ip!Zeros(w, q[1], q[2])
      BY DEF Ip!ZeroRuns
    <3>2. q[2] - q[1] < 2
      BY <1>1, <3>1, BestRunIs
    <3> QED BY <3>1, <3>2
  <2>2. Ip!ZeroRuns(w) = {}
    BY <2>1
  <2>3. TextOf(w) = Between(w, 0, 8)
    BY <1>1, LoopWritesPlain DEF TextOf
  <2>4. Ip!Plain([k \in 1..Ip!WCOUNT |-> w[k - 1]]) = Between(w, 0, 8)
    BY ShortIs
  <2> QED BY <2>2, <2>3, <2>4, Zenon DEF Ip!SixTexts
<1>2. CASE best.base # -1
  <2>1. /\ best \in Run /\ best.len >= 2 /\ b <= 8 /\ Ip!Zeros(w, a, b)
        /\ \A x, y \in 0..8 : Ip!Zeros(w, x, y) => y - x < best.len \/ (y - x = best.len /\ a <= x)
    BY <1>2, BestRunIs
  <2>2. a \in 0..7 /\ best.len \in Nat
    BY <1>2, <2>1, BestRunIn
  <2>3. b \in 0..8 /\ b - a = best.len /\ a \in 0..8 /\ b - a >= 2
    <3> DEFINE l == best.len
    <3>1. l \in Nat /\ l >= 2 /\ a + l <= 8
      BY <2>1, <2>2
    <3> HIDE DEF l, best
    <3>2. a + l \in 0..8 /\ (a + l) - a = l
      BY <2>2, <3>1
    <3> QED BY <2>2, <3>1, <3>2 DEF l
  <2>4. TextOf(w) = Ip!Short(w, a, b)
    <3>1. TextOf(w) = (Between(w, 0, a) \o <<Ip!Colon, Ip!Colon>>) \o Between(w, b, 8)
      BY Zenon, <1>2, BestRunIn, LoopWritesShort DEF TextOf
    <3> HIDE DEF a, b
    <3>2. Ip!Short(w, a, b) = (Between(w, 0, a) \o <<Ip!Colon, Ip!Colon>>) \o Between(w, b, 8)
      BY Zenon, <2>3, ShortIs
    <3> QED BY <3>1, <3>2
  <2> HIDE DEF a, b
  <2> DEFINE r == <<a, b>>
  <2>5. r \in Ip!ZeroRuns(w) /\ r[1] = a /\ r[2] = b
    BY <2>1, <2>2, <2>3 DEF Ip!ZeroRuns
  <2>6. ASSUME NEW q \in Ip!ZeroRuns(w)
        PROVE  q[2] - q[1] < r[2] - r[1] \/ (q[2] - q[1] = r[2] - r[1] /\ r[1] <= q[1])
    <3>1. q[1] \in 0..8 /\ q[2] \in 0..8 /\ Ip!Zeros(w, q[1], q[2])
      BY DEF Ip!ZeroRuns
    <3> HIDE DEF r
    <3> QED BY <2>1, <2>3, <2>5, <3>1
  <2>7. Ip!FirstLongest(w, r)
    BY Zenon, <2>6 DEF Ip!FirstLongest
  <2>8. ASSUME NEW q \in Ip!ZeroRuns(w), Ip!FirstLongest(w, q) PROVE q[1] = a /\ q[2] = b
    <3>1. q[1] \in 0..8 /\ q[2] \in 0..8
      BY DEF Ip!ZeroRuns
    <3>2. r[2] - r[1] < q[2] - q[1] \/ (r[2] - r[1] = q[2] - q[1] /\ q[1] <= r[1])
      BY Zenon, <2>5, <2>8 DEF Ip!FirstLongest
    <3>3. q[2] - q[1] < r[2] - r[1] \/ (q[2] - q[1] = r[2] - r[1] /\ r[1] <= q[1])
      BY <2>6
    <3> HIDE DEF r
    <3> QED BY <2>3, <2>5, <3>1, <3>2, <3>3
  <2> DEFINE Q == {q \in Ip!ZeroRuns(w) : Ip!FirstLongest(w, q)}
             T == {Ip!Short(w, q[1], q[2]) : q \in Q}
  <2> HIDE DEF r
  <2>9. Ip!SixTexts(w) = T
    <3>1. Ip!ZeroRuns(w) # {}
      BY <2>5
    <3> QED BY <3>1, Zenon DEF Ip!SixTexts
  <2>10. ASSUME NEW q \in Q PROVE Ip!Short(w, q[1], q[2]) = TextOf(w)
    <3>1. q[1] = a /\ q[2] = b
      BY <2>8
    <3> QED BY <2>4, <3>1
  <2>11. r \in Q
    BY <2>5, <2>7
  <2> HIDE DEF Q
  <2>12. TextOf(w) \in T /\ \A t \in T : t = TextOf(w)
    BY <2>10, <2>11
  <2> HIDE DEF T
  <2> QED BY <2>9, <2>12
<1> QED BY <1>1, <1>2

LEMMA TextsDenoteThem == AddrInv => Ip!TextDenotesTheAddress
<1> SUFFICES ASSUME AddrInv, stage = "printed", ret = 0
             PROVE  /\ Ip!Chars(dst) + 1 <= size
                    /\ ip.is_ipv6 => dst \in Ip!SixTexts(Ip!Words(ip.addr))
                    /\ ~ip.is_ipv6 => FourNumbers(dst, ip.addr)
  BY Zenon DEF Ip!TextDenotesTheAddress, FourNumbers
<1>1. /\ size \in Nat /\ ret = Printed(ip, size).ret /\ dst = Printed(ip, size).dst
      /\ ip.is_ipv6 \in BOOLEAN /\ ip.addr \in Of(ip.is_ipv6)
  BY DEF AddrInv
<1>2. CASE ip.is_ipv6
  <2>1. /\ ip.addr \in Of(TRUE) /\ ret = Ip!inet_ntop6(ip.addr, size).ret
        /\ dst = Ip!inet_ntop6(ip.addr, size).dst
    BY <1>1, <1>2, Zenon DEF Printed, Of
  <2> DEFINE w == Ip!Words(ip.addr)
  <2>2. dst = TextOf(w) /\ Ip!Chars(TextOf(w)) + 1 <= size
    BY Zenon, <1>1, <2>1, SixIs
  <2>3. Ip!SixTexts(w) = {TextOf(w)}
    BY Zenon, <2>1, WordsAre, TextReadsBack
  <2> QED BY <1>2, <2>2, <2>3
<1>3. CASE ~ ip.is_ipv6
  <2>1. /\ ip.addr \in Of(FALSE) /\ ret = Ip!inet_ntop4(ip.addr, size).ret
        /\ dst = Ip!inet_ntop4(ip.addr, size).dst
    BY <1>1, <1>3, Zenon DEF Printed, Of
  <2>2. FourNumbers(dst, ip.addr) /\ Ip!Chars(dst) + 1 <= size
    BY Zenon, <1>1, <2>1, FourIs
  <2> QED BY <1>3, <2>2
<1> QED BY <1>2, <1>3

LEMMA RefusedTooLong == AddrInv => Ip!RefusesOnlyTheTooLong
<1> DEFINE w == Ip!Words(ip.addr)
<1> SUFFICES ASSUME AddrInv, stage = "printed", ret = -1
             PROVE  IF ip.is_ipv6
                    THEN Ip!EmbedsIPv4(w) \/ \A text \in Ip!SixTexts(w) : Ip!Chars(text) + 1 > size
                    ELSE size < Ip!MIN_SIZE
  BY Zenon DEF Ip!RefusesOnlyTheTooLong
<1>1. size \in Nat /\ ret = Printed(ip, size).ret /\ ip.is_ipv6 \in BOOLEAN /\ ip.addr \in Of(ip.is_ipv6)
  BY DEF AddrInv
<1>2. CASE ip.is_ipv6
  <2>1. ip.addr \in Of(TRUE) /\ ret = Ip!inet_ntop6(ip.addr, size).ret
    BY <1>1, <1>2, Zenon DEF Printed, Of
  <2>2. Ip!EmbedsIPv4(w) \/ Ip!Chars(TextOf(w)) + 1 > size
    BY Zenon, <1>1, <2>1, SixIs
  <2>3. Ip!SixTexts(w) = {TextOf(w)}
    BY Zenon, <2>1, WordsAre, TextReadsBack
  <2> HIDE DEF w
  <2> QED BY <1>2, <2>2, <2>3
<1>3. CASE ~ ip.is_ipv6
  <2>1. ret = Ip!inet_ntop4(ip.addr, size).ret
    BY <1>1, <1>3 DEF Printed
  <2>2. size < 16
    BY <1>1, <2>1, FourAnswers
  <2> QED BY <1>3, <2>2 DEF Ip!MIN_SIZE
<1> QED BY <1>2, <1>3

AddrPart == part = "addresses" => AddrInv

LEMMA AddrKept == PartsSpec => []AddrPart
<1>1. PartsInit => AddrPart
  BY AddrStarts, PartsAssumption DEF PartsInit, AddrPart
<1>2. AddrPart /\ [PartsNext]_partsVars => AddrPart'
  <2> SUFFICES ASSUME AddrPart, [PartsNext]_partsVars, part' = "addresses" PROVE AddrInv'
    BY DEF AddrPart
  <2>1. part = "addresses" /\ AddrInv
    BY DEF PartsNext, partsVars, AddrPart
  <2>2. [Ip!Next]_(Ip!vars)
    BY <2>1 DEF PartsNext, partsVars, addrVars, Ip!vars
  <2> QED BY <2>1, <2>2, AddrStep, PartsAssumption
<1> QED BY <1>1, <1>2, PTL DEF PartsSpec, partsVars

\* Whatever the rules that come in, a recalculated address has the bits it came with in front
\* of its mask and zeros behind it (ipv4_addr_prefix, ipv6_addr_prefix).
THEOREM PrefixIsKept == PartsSpec => []MaskKeepsThePrefix
<1>1. AddrPart => MaskKeepsThePrefix
  BY MaskKept, PartsAssumption DEF AddrPart, MaskKeepsThePrefix
<1> QED BY <1>1, AddrKept, PTL

\* Whatever the address and the buffer, a text that inet_ntop4 or inet_ntop6 returns has room
\* with its zero and denotes the address: four numbers, or groups with "::" for the first of
\* the longest runs of two zero words or more.
THEOREM TextsDenote == PartsSpec => []TextDenotesTheAddress
<1>1. AddrPart => TextDenotesTheAddress
  BY TextsDenoteThem DEF AddrPart, TextDenotesTheAddress
<1> QED BY <1>1, AddrKept, PTL

\* Whatever the address and the buffer, inet_ntop4 and inet_ntop6 refuse a buffer only when it is
\* too small for the text and its zero, of the addresses that embed no IPv4 one.
THEOREM RefusedIsTooLong == PartsSpec => []RefusesOnlyTheTooLong
<1>1. AddrPart => RefusesOnlyTheTooLong
  BY RefusedTooLong DEF AddrPart, RefusesOnlyTheTooLong
<1> QED BY <1>1, AddrKept, PTL
=============================================================================
