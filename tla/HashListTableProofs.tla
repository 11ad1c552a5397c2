------------------------ MODULE HashListTableProofs ------------------------
(***************************************************************************)
(* For every set of keys, hash function, number of buckets and amount of   *)
(* memory: the chains and the list of HashListTable hold the same buckets, *)
(* the list is one line and a caller's loop meets what is there.           *)
(*                                                                         *)
(* The pointers are described by the sequences they stand for: one for the *)
(* list, and one for each chain.                                           *)
(***************************************************************************)
EXTENDS HashListTable, SequenceLemmas

FirstOf(s) == IF Len(s) = 0 THEN NULL ELSE s[1]
LastOf(s)  == IF Len(s) = 0 THEN NULL ELSE s[Len(s)]

\* The list's pointers stand for l, which has each bucket once.
Line(l) ==
  /\ l \in Seq(Nodes) /\ Distinct(l)
  /\ listhead = FirstOf(l) /\ listtail = LastOf(l)
  /\ \A i \in 1..Len(l) : listnext[l[i]] = After(l, i) /\ listprev[l[i]] = Before(l, i)
  /\ \A n \in Nodes : n \in alive <=> \E i \in 1..Len(l) : l[i] = n

\* Those of the chain of h stand for s, which has each bucket of the hash h once.
Chain(h, s) ==
  /\ s \in Seq(Nodes) /\ Distinct(s)
  /\ array[h] = FirstOf(s)
  /\ \A i \in 1..Len(s) : bucknext[s[i]] = After(s, i)
  /\ \A n \in Nodes : (n \in alive /\ HashOf[data[n]] = h) <=> \E i \in 1..Len(s) : s[i] = n

\* In a chain a bucket is behind those that were added later.
NewerFirst(l, s) ==
  \A i, j \in 1..Len(s), p, q \in 1..Len(l) : i < j /\ l[p] = s[i] /\ l[q] = s[j] => q < p

\* What a caller's loop still has to meet is behind its bucket in the list.
StillAhead(l) ==
  /\ cursor = NULL => pending = {}
  /\ cursor # NULL =>
       \E i \in 1..Len(l) : /\ l[i] = cursor
                            /\ \A n \in pending : \E j \in (i + 1)..Len(l) : l[j] = n

SizesKept     == \A n \in alive : size[n] = SizeOf[data[n]]
FreeForgotten == \A n \in Nodes \ alive : listnext[n] = NULL

Shape ==
  \E l : Line(l) /\ StillAhead(l) /\ \A h \in Slots : \E s : Chain(h, s) /\ NewerFirst(l, s)

\* The inductive invariant.
IInv == TypeOK /\ SizesKept /\ FreeForgotten /\ FreeReleasesAll /\ Shape

-----------------------------------------------------------------------------
(* Links of a sequence with one element more or less.                      *)

LEMMA AppendedLinks ==
  ASSUME NEW s \in Seq(Nodes), NEW t \in Seq(Nodes), NEW e, Len(t) = Len(s) + 1,
         t[Len(s) + 1] = e, \A i \in 1..Len(s) : t[i] = s[i]
  PROVE  /\ FirstOf(t) = IF Len(s) = 0 THEN e ELSE FirstOf(s)
         /\ LastOf(t) = e /\ After(t, Len(t)) = NULL /\ Before(t, Len(t)) = LastOf(s)
         /\ \A i \in 1..Len(s) : /\ After(t, i) = IF i = Len(s) THEN e ELSE After(s, i)
                                 /\ Before(t, i) = Before(s, i)
<1>1. Len(s) \in Nat
  BY LenProperties
<1>2. FirstOf(t) = IF Len(s) = 0 THEN e ELSE FirstOf(s)
  BY <1>1 DEF FirstOf
<1>3. LastOf(t) = e /\ After(t, Len(t)) = NULL
  BY <1>1 DEF LastOf, After
<1>4. Before(t, Len(t)) = LastOf(s)
  BY <1>1 DEF Before, LastOf
<1>5. ASSUME NEW i \in 1..Len(s)
      PROVE  After(t, i) = (IF i = Len(s) THEN e ELSE After(s, i)) /\ Before(t, i) = Before(s, i)
  <2>1. i # Len(t) /\ (i # Len(s) => i + 1 \in 1..Len(s)) /\ (i # 1 => i - 1 \in 1..Len(s))
    BY <1>1
  <2> QED BY <2>1 DEF After, Before
<1> QED
  BY <1>2, <1>3, <1>4, <1>5

LEMMA PushedLinks ==
  ASSUME NEW s \in Seq(Nodes), NEW t \in Seq(Nodes), NEW e, Len(t) = Len(s) + 1,
         t[1] = e, \A i \in 1..Len(s) : t[i + 1] = s[i]
  PROVE  /\ FirstOf(t) = e /\ After(t, 1) = FirstOf(s)
         /\ \A i \in 1..Len(s) : After(t, i + 1) = After(s, i)
<1>1. Len(s) \in Nat
  BY LenProperties
<1>2. FirstOf(t) = e
  BY <1>1 DEF FirstOf
<1>3. After(t, 1) = FirstOf(s)
  <2>1. CASE Len(s) = 0
    BY <2>1 DEF After, FirstOf
  <2>2. CASE Len(s) # 0
    <3>1. 1 \in 1..Len(s)
      BY <1>1, <2>2
    <3> QED BY <2>2, <3>1 DEF After, FirstOf
  <2> QED BY <2>1, <2>2
<1>4. ASSUME NEW i \in 1..Len(s)
      PROVE  After(t, i + 1) = After(s, i)
  <2>1. i + 1 = Len(t) <=> i = Len(s)
    BY <1>1
  <2>2. i # Len(s) => i + 1 \in 1..Len(s)
    BY <1>1
  <2> QED BY <2>1, <2>2 DEF After
<1> QED
  BY <1>2, <1>3, <1>4

LEMMA RemovedLinks ==
  ASSUME NEW s \in Seq(Nodes), NEW t \in Seq(Nodes), NEW q \in 1..Len(s),
         Len(t) = Len(s) - 1, \A i \in 1..Len(t) : t[i] = s[OldPlace(q, i)]
  PROVE  /\ FirstOf(t) = IF q = 1 THEN After(s, 1) ELSE FirstOf(s)
         /\ LastOf(t) = IF q = Len(s) THEN Before(s, q) ELSE LastOf(s)
         /\ \A i \in 1..Len(t) :
              /\ After(t, i) = IF OldPlace(q, i) = q - 1 THEN After(s, q)
                               ELSE After(s, OldPlace(q, i))
              /\ Before(t, i) = IF OldPlace(q, i) = q + 1 THEN Before(s, q)
                                ELSE Before(s, OldPlace(q, i))
<1>1. Len(s) \in Nat /\ Len(t) \in Nat /\ q \in Nat /\ 1 <= q /\ q <= Len(s)
  BY LenProperties
<1>2. FirstOf(t) = IF q = 1 THEN After(s, 1) ELSE FirstOf(s)
  BY <1>1 DEF FirstOf, After, OldPlace
<1>3. LastOf(t) = IF q = Len(s) THEN Before(s, q) ELSE LastOf(s)
  BY <1>1 DEF LastOf, Before, OldPlace
<1>4. ASSUME NEW i \in 1..Len(t)
      PROVE  After(t, i) = IF OldPlace(q, i) = q - 1 THEN After(s, q)
                           ELSE After(s, OldPlace(q, i))
  <2> DEFINE o == OldPlace(q, i)
  <2>1. i = Len(t) => After(t, i) = NULL
    BY DEF After
  <2>2. i # Len(t) => After(t, i) = s[OldPlace(q, i + 1)]
    <3>1. i # Len(t) => i + 1 \in 1..Len(t)
      BY <1>1
    <3> QED BY <3>1 DEF After
  <2>3. CASE o = q - 1
    <3>1. i = q - 1 /\ OldPlace(q, i + 1) = q + 1 /\ (i = Len(t) <=> q = Len(s))
      BY <1>1, <2>3 DEF OldPlace
    <3>2. After(s, q) = IF q = Len(s) THEN NULL ELSE s[q + 1]
      BY DEF After
    <3> QED BY <2>1, <2>2, <2>3, <3>1, <3>2
  <2>4. CASE o # q - 1
    <3>1. OldPlace(q, i + 1) = o + 1 /\ (i = Len(t) <=> o = Len(s))
      BY <1>1, <2>4 DEF OldPlace
    <3>2. After(s, o) = IF o = Len(s) THEN NULL ELSE s[o + 1]
      BY DEF After
    <3> QED BY <2>1, <2>2, <2>4, <3>1, <3>2
  <2> QED BY <2>3, <2>4
<1>5. ASSUME NEW i \in 1..Len(t)
      PROVE  Before(t, i) = IF OldPlace(q, i) = q + 1 THEN Before(s, q)
                            ELSE Before(s, OldPlace(q, i))
  <2> DEFINE o == OldPlace(q, i)
  <2>1. i = 1 => Before(t, i) = NULL
    BY DEF Before
  <2>2. i # 1 => Before(t, i) = s[OldPlace(q, i - 1)]
    <3>1. i # 1 => i - 1 \in 1..Len(t)
      BY <1>1
    <3> QED BY <3>1 DEF Before
  <2>3. CASE o = q + 1
    <3>1. i = q /\ (i # 1 => OldPlace(q, i - 1) = q - 1)
      BY <1>1, <2>3 DEF OldPlace
    <3>2. Before(s, q) = IF q = 1 THEN NULL ELSE s[q - 1]
      BY DEF Before
    <3> QED BY <2>1, <2>2, <2>3, <3>1, <3>2
  <2>4. CASE o # q + 1
    <3>1. (i # 1 => OldPlace(q, i - 1) = o - 1) /\ (i = 1 <=> o = 1)
      BY <1>1, <2>4 DEF OldPlace
    <3>2. Before(s, o) = IF o = 1 THEN NULL ELSE s[o - 1]
      BY DEF Before
    <3> QED BY <2>1, <2>2, <2>4, <3>1, <3>2
  <2> QED BY <2>3, <2>4
<1> QED
  BY <1>2, <1>3, <1>4, <1>5

-----------------------------------------------------------------------------
(* What the code does to the pointers is what happens to the sequences.    *)

\* The elements of a line are nodes, and NULL is none.
LEMMA LineNodes ==
  ASSUME NEW l, Line(l)
  PROVE  /\ Len(l) \in Nat
         /\ \A i \in 1..Len(l) : l[i] \in Nodes /\ l[i] \in alive /\ l[i] # NULL
         /\ Len(l) # 0 => /\ 1 \in 1..Len(l) /\ Len(l) \in 1..Len(l)
                          /\ listhead = l[1] /\ listtail = l[Len(l)]
         /\ Len(l) = 0 => listhead = NULL /\ listtail = NULL /\ alive \cap Nodes = {}
<1>1. l \in Seq(Nodes) /\ Len(l) \in Nat
  BY LenProperties DEF Line
<1>2. \A i \in 1..Len(l) : l[i] \in Nodes
  BY <1>1, ElementOfSeq
<1>3. \A i \in 1..Len(l) : l[i] \in alive /\ l[i] # NULL
  BY <1>2, HashListAssumption DEF Line
<1>4. Len(l) # 0 => 1 \in 1..Len(l) /\ Len(l) \in 1..Len(l)
  BY <1>1
<1>5. Len(l) = 0 => alive \cap Nodes = {}
  <2>1. Len(l) = 0 => 1..Len(l) = {}
    OBVIOUS
  <2> QED BY <2>1 DEF Line
<1> QED
  BY <1>1, <1>2, <1>3, <1>4, <1>5 DEF Line, FirstOf, LastOf

LEMMA ListAppends ==
  ASSUME TypeOK, FreeForgotten, NEW l, Line(l), NEW n \in Nodes \ alive,
         LinkList(n), alive' = alive \cup {n}
  PROVE  Line(Append(l, n))'
<1> DEFINE t == Append(l, n)
<1>1. /\ l \in Seq(Nodes) /\ Len(l) \in Nat /\ n \in Nodes /\ n # NULL
      /\ \A i \in 1..Len(l) : l[i] \in Nodes /\ l[i] \in alive /\ l[i] # n
  BY LineNodes, HashListAssumption DEF Line
<1>2. /\ t \in Seq(Nodes) /\ Len(t) = Len(l) + 1 /\ Distinct(t)
      /\ t[Len(l) + 1] = n /\ \A i \in 1..Len(l) : t[i] = l[i]
  BY <1>1, AppendPlaces DEF Line
<1> HIDE DEF t
<1>3. /\ FirstOf(t) = IF Len(l) = 0 THEN n ELSE FirstOf(l)
      /\ LastOf(t) = n /\ After(t, Len(t)) = NULL /\ Before(t, Len(t)) = LastOf(l)
      /\ \A i \in 1..Len(l) : /\ After(t, i) = IF i = Len(l) THEN n ELSE After(l, i)
                              /\ Before(t, i) = Before(l, i)
  BY <1>1, <1>2, AppendedLinks
<1>4. /\ listtail = LastOf(l) /\ listhead = FirstOf(l)
      /\ Len(l) # 0 => listtail = l[Len(l)]
      /\ Len(l) = 0 <=> listtail = NULL
      /\ n # listtail
  BY <1>1, LineNodes DEF Line
<1>5. listhead' = FirstOf(t) /\ listtail' = LastOf(t)
  BY <1>3, <1>4 DEF LinkList
<1>6. /\ listprev' = [listprev EXCEPT ![n] = listtail]
      /\ listnext' = [x \in Nodes |-> IF x = listtail THEN n ELSE listnext[x]]
      /\ listprev \in [Nodes -> Ptr]
  BY DEF LinkList, TypeOK
<1>7. ASSUME NEW i \in 1..Len(l)
      PROVE  listnext'[t[i]] = After(t, i) /\ listprev'[t[i]] = Before(t, i)
  <2>1. /\ t[i] = l[i] /\ l[i] \in Nodes /\ l[i] # n
        /\ listnext[l[i]] = After(l, i) /\ listprev[l[i]] = Before(l, i)
    BY <1>1, <1>2 DEF Line
  <2>2. l[i] = listtail <=> i = Len(l)
    BY <1>1, <1>4 DEF Line, Distinct
  <2> QED BY <1>3, <1>6, <2>1, <2>2
<1>8. listnext'[n] = NULL /\ listprev'[n] = LastOf(l)
  BY <1>1, <1>4, <1>6 DEF FreeForgotten
<1>9. \A i \in 1..Len(t) : listnext'[t[i]] = After(t, i) /\ listprev'[t[i]] = Before(t, i)
  <2>1. \A i \in 1..Len(t) : i \in 1..Len(l) \/ i = Len(t)
    BY <1>1, <1>2
  <2>2. t[Len(t)] = n
    BY <1>2
  <2> QED BY <1>3, <1>7, <1>8, <2>1, <2>2
<1>10. \A x \in Nodes : x \in alive' <=> \E i \in 1..Len(t) : t[i] = x
  <2> SUFFICES ASSUME NEW x \in Nodes
               PROVE  x \in alive' <=> \E i \in 1..Len(t) : t[i] = x
    OBVIOUS
  <2>1. Len(l) + 1 \in 1..Len(t) /\ \A i \in 1..Len(l) : i \in 1..Len(t)
    BY <1>1, <1>2
  <2>2. \A i \in 1..Len(t) : i \in 1..Len(l) \/ i = Len(l) + 1
    BY <1>1, <1>2
  <2> QED BY <1>2, <2>1, <2>2 DEF Line
<1> QED
  BY <1>2, <1>5, <1>9, <1>10 DEF Line, t

LEMMA ListRemoves ==
  ASSUME TypeOK, NEW l, Line(l), NEW q \in 1..Len(l),
         UnlinkList(l[q]), alive' = alive \ {l[q]}
  PROVE  Line(RemoveAt(l, q))'
<1> DEFINE t == RemoveAt(l, q)
           x == l[q]
<1>1. /\ l \in Seq(Nodes) /\ Len(l) \in Nat /\ Distinct(l)
      /\ \A i \in 1..Len(l) : l[i] \in Nodes /\ l[i] \in alive /\ l[i] # NULL
  BY LineNodes DEF Line
<1>2. /\ t \in Seq(Nodes) /\ Len(t) = Len(l) - 1 /\ Distinct(t)
      /\ \A i \in 1..Len(t) : /\ OldPlace(q, i) \in 1..Len(l) /\ OldPlace(q, i) # q
                              /\ t[i] = l[OldPlace(q, i)]
      /\ \A i \in 1..Len(l) : i # q => \E j \in 1..Len(t) : OldPlace(q, j) = i
  BY <1>1, RemoveAtPlaces
<1> HIDE DEF t
<1>3. /\ FirstOf(t) = IF q = 1 THEN After(l, 1) ELSE FirstOf(l)
      /\ LastOf(t) = IF q = Len(l) THEN Before(l, q) ELSE LastOf(l)
      /\ \A i \in 1..Len(t) :
           /\ After(t, i) = IF OldPlace(q, i) = q - 1 THEN After(l, q)
                            ELSE After(l, OldPlace(q, i))
           /\ Before(t, i) = IF OldPlace(q, i) = q + 1 THEN Before(l, q)
                             ELSE Before(l, OldPlace(q, i))
  <2>1. l \in Seq(Nodes) /\ t \in Seq(Nodes) /\ Len(t) = Len(l) - 1
    BY <1>1, <1>2
  <2>2. \A i \in 1..Len(t) : t[i] = l[OldPlace(q, i)]
    BY <1>2
  <2> QED BY <2>1, <2>2, RemovedLinks
<1>4. /\ listnext[x] = After(l, q) /\ listprev[x] = Before(l, q)
      /\ listhead = FirstOf(l) /\ listtail = LastOf(l)
  BY DEF Line
<1>5. /\ Before(l, q) = IF q = 1 THEN NULL ELSE l[q - 1]
      /\ After(l, q) = IF q = Len(l) THEN NULL ELSE l[q + 1]
      /\ q # 1 => q - 1 \in 1..Len(l)
      /\ q # Len(l) => q + 1 \in 1..Len(l)
  BY <1>1 DEF Before, After
<1>6. (listprev[x] = NULL <=> q = 1) /\ (listnext[x] = NULL <=> q = Len(l))
  BY <1>1, <1>4, <1>5
<1>7. listhead' = FirstOf(t) /\ listtail' = LastOf(t)
  BY <1>3, <1>4, <1>6 DEF UnlinkList
<1>8. /\ listnext' = [n \in Nodes |-> IF n = x THEN NULL
                         ELSE IF n = listprev[x] THEN listnext[x] ELSE listnext[n]]
      /\ listprev' = [n \in Nodes |-> IF n = x THEN NULL
                         ELSE IF n = listnext[x] THEN listprev[x] ELSE listprev[n]]
  BY DEF UnlinkList
<1>9. ASSUME NEW i \in 1..Len(t)
      PROVE  listnext'[t[i]] = After(t, i) /\ listprev'[t[i]] = Before(t, i)
  <2> DEFINE o == OldPlace(q, i)
  <2>1. o \in 1..Len(l) /\ o # q /\ t[i] = l[o]
    BY <1>2
  <2>2. /\ l[o] \in Nodes /\ l[o] # x /\ l[o] # NULL
        /\ listnext[l[o]] = After(l, o) /\ listprev[l[o]] = Before(l, o)
    BY <1>1, <2>1 DEF Line, Distinct
  <2>3. l[o] = listprev[x] <=> o = q - 1
    BY <1>1, <1>4, <1>5, <2>1, <2>2 DEF Distinct
  <2>4. l[o] = listnext[x] <=> o = q + 1
    BY <1>1, <1>4, <1>5, <2>1, <2>2 DEF Distinct
  <2>5. listnext'[t[i]] = IF o = q - 1 THEN After(l, q) ELSE After(l, o)
    <3> HIDE DEF o, x
    <3> QED BY <1>4, <1>8, <2>1, <2>2, <2>3
  <2>6. listprev'[t[i]] = IF o = q + 1 THEN Before(l, q) ELSE Before(l, o)
    <3> HIDE DEF o, x
    <3> QED BY <1>4, <1>8, <2>1, <2>2, <2>4
  <2> QED BY <1>3, <2>5, <2>6
<1>10. \A n \in Nodes : n \in alive' <=> \E i \in 1..Len(t) : t[i] = n
  <2> SUFFICES ASSUME NEW n \in Nodes
               PROVE  n \in alive' <=> \E i \in 1..Len(t) : t[i] = n
    OBVIOUS
  <2>1. ASSUME NEW i \in 1..Len(t), t[i] = n PROVE n \in alive'
    BY <1>1, <1>2, <2>1 DEF Distinct
  <2>2. ASSUME n \in alive, n # x PROVE \E i \in 1..Len(t) : t[i] = n
    <3>1. PICK i \in 1..Len(l) : l[i] = n
      BY <2>2 DEF Line
    <3>2. PICK j \in 1..Len(t) : OldPlace(q, j) = i
      BY <1>2, <2>2, <3>1
    <3> QED BY <1>2, <3>1, <3>2
  <2> QED BY <2>1, <2>2
<1> QED
  BY <1>2, <1>7, <1>9, <1>10 DEF Line, t

-----------------------------------------------------------------------------
(* The chains.                                                             *)

LEMMA ChainNodes ==
  ASSUME NEW h \in Slots, NEW s, Chain(h, s)
  PROVE  /\ s \in Seq(Nodes) /\ Len(s) \in Nat /\ Distinct(s)
         /\ \A i \in 1..Len(s) : s[i] \in Nodes /\ s[i] \in alive /\ s[i] # NULL
         /\ \A i \in 1..Len(s) : HashOf[data[s[i]]] = h
<1>1. s \in Seq(Nodes) /\ Len(s) \in Nat
  BY LenProperties DEF Chain
<1>2. \A i \in 1..Len(s) : s[i] \in Nodes
  BY <1>1, ElementOfSeq
<1> QED
  BY <1>1, <1>2, HashListAssumption DEF Chain

\* A chain nothing was done to.
LEMMA ChainStays ==
  ASSUME NEW h \in Slots, NEW s, Chain(h, s), array'[h] = array[h],
         \A i \in 1..Len(s) : bucknext'[s[i]] = bucknext[s[i]],
         \A m \in Nodes : (m \in alive' /\ HashOf[data'[m]] = h)
                            <=> (m \in alive /\ HashOf[data[m]] = h)
  PROVE  Chain(h, s)'
<1>1. s \in Seq(Nodes) /\ Distinct(s) /\ array'[h] = FirstOf(s)
  BY DEF Chain
<1>2. \A i \in 1..Len(s) : bucknext'[s[i]] = After(s, i)
  BY DEF Chain
<1>3. \A m \in Nodes : (m \in alive' /\ HashOf[data'[m]] = h) <=> \E i \in 1..Len(s) : s[i] = m
  BY DEF Chain
<1> QED
  BY <1>1, <1>2, <1>3 DEF Chain

\* A new bucket is at the front of its chain.
LEMMA ChainPushes ==
  ASSUME TypeOK, NEW k \in Keys, NEW s, Chain(HashOf[k], s), NEW n \in Nodes \ alive,
         LinkChain(n, HashOf[k]), alive' = alive \cup {n}, data' = [data EXCEPT ![n] = k]
  PROVE  Chain(HashOf[k], <<n>> \o s)'
<1> DEFINE t == <<n>> \o s
           h == HashOf[k]
<1>0. h \in Slots
  BY HashListAssumption
<1>1. /\ s \in Seq(Nodes) /\ Len(s) \in Nat /\ Distinct(s) /\ n \in Nodes
      /\ \A i \in 1..Len(s) : s[i] \in Nodes /\ s[i] \in alive /\ s[i] # n
  BY <1>0, ChainNodes
<1>2. /\ t \in Seq(Nodes) /\ Len(t) = Len(s) + 1 /\ Distinct(t)
      /\ t[1] = n /\ \A i \in 1..Len(s) : t[i + 1] = s[i]
  BY <1>1, PushFrontPlaces
<1> HIDE DEF t, h
<1>3. /\ FirstOf(t) = n /\ After(t, 1) = FirstOf(s)
      /\ \A i \in 1..Len(s) : After(t, i + 1) = After(s, i)
  BY <1>1, <1>2, PushedLinks
<1>4. /\ array' = [array EXCEPT ![h] = n] /\ bucknext' = [bucknext EXCEPT ![n] = array[h]]
      /\ array \in [Slots -> Ptr] /\ bucknext \in [Nodes -> Ptr] /\ data \in [Nodes -> Keys \cup {NULL}]
  BY DEF LinkChain, TypeOK, h
<1>5. array'[h] = FirstOf(t)
  BY <1>0, <1>3, <1>4
<1>6. array[h] = FirstOf(s) /\ \A i \in 1..Len(s) : bucknext[s[i]] = After(s, i)
  BY DEF Chain, h
<1>7. \A i \in 1..Len(t) : i = 1 \/ (i - 1 \in 1..Len(s) /\ t[i] = s[i - 1])
  BY <1>1, <1>2
<1>8. ASSUME NEW i \in 1..Len(t)
      PROVE  bucknext'[t[i]] = After(t, i)
  <2>1. CASE i = 1
    BY <1>1, <1>2, <1>3, <1>4, <1>6, <2>1
  <2>2. CASE i # 1
    <3>1. i - 1 \in 1..Len(s) /\ t[i] = s[i - 1]
      BY <1>7, <2>2
    <3>2. After(t, (i - 1) + 1) = After(s, i - 1) /\ (i - 1) + 1 = i
      BY <1>3, <3>1
    <3> QED BY <1>1, <1>4, <1>6, <3>1, <3>2
  <2> QED BY <2>1, <2>2
<1>9. ASSUME NEW m \in Nodes
      PROVE  (m \in alive' /\ HashOf[data'[m]] = h) <=> \E i \in 1..Len(t) : t[i] = m
  <2>1. (m \in alive /\ HashOf[data[m]] = h) <=> \E i \in 1..Len(s) : s[i] = m
    BY DEF Chain, h
  <2>2. 1 \in 1..Len(t) /\ \A i \in 1..Len(s) : i + 1 \in 1..Len(t)
    BY <1>1, <1>2
  <2>3. data'[m] = IF m = n THEN k ELSE data[m]
    BY <1>4
  <2>4. CASE m = n
    BY <1>2, <2>2, <2>3, <2>4 DEF h
  <2>5. CASE m # n
    <3>1. (\E i \in 1..Len(t) : t[i] = m) <=> \E i \in 1..Len(s) : s[i] = m
      BY <1>2, <1>7, <2>2, <2>5
    <3> QED BY <2>1, <2>3, <2>5, <3>1
  <2> QED BY <2>4, <2>5
<1> QED
  BY <1>2, <1>5, <1>8, <1>9 DEF Chain, t, h

\* The way of the loop is a first part of the chain, and every first part is one.
LEMMA WalksArePrefixes ==
  ASSUME TypeOK, NEW h \in Slots, NEW s, Chain(h, s)
  PROVE  /\ \A w \in Walks(h) : /\ Len(w) \in 1..Len(s) /\ w = [i \in 1..Len(w) |-> s[i]]
                                /\ \A i \in 1..Len(w) : w[i] = s[i]
         /\ \A j \in 1..Len(s) : [i \in 1..j |-> s[i]] \in Walks(h)
<1>1. /\ s \in Seq(Nodes) /\ Len(s) \in Nat /\ Distinct(s)
      /\ \A i \in 1..Len(s) : s[i] \in Nodes /\ s[i] \in alive /\ s[i] # NULL
  BY ChainNodes
<1>2. array[h] = FirstOf(s) /\ \A i \in 1..Len(s) : bucknext[s[i]] = After(s, i)
  BY DEF Chain
<1>3. IsFiniteSet(alive) /\ NULL \notin alive /\ Cardinality(alive) \in Nat
  BY HashListAssumption, FS_Subset, FS_CardinalityType DEF TypeOK
<1>4. ASSUME NEW w \in Walks(h)
      PROVE  /\ Len(w) \in 1..Len(s) /\ w = [i \in 1..Len(w) |-> s[i]]
             /\ \A i \in 1..Len(w) : w[i] = s[i]
  <2>1. PICK c \in 1..Cardinality(alive) : w \in [1..c -> alive]
    BY DEF Walks
  <2>2. c \in Nat /\ 1 <= c /\ Len(w) = c
    <3>1. c \in Nat /\ 1 <= c
      BY <1>3, <2>1
    <3>2. w \in Seq(alive)
      BY <2>1, <3>1
    <3>3. Len(w) = c
      BY <2>1, <3>1, <3>2, LenProperties
    <3> QED BY <3>1, <3>3
  <2>3. w[1] = array[h] /\ \A i \in 1..(c - 1) : w[i + 1] = bucknext[w[i]]
    BY <2>2 DEF Walks, IsWalk
  <2> DEFINE D == {m \in Nat : m + 1 <= c => m + 1 <= Len(s) /\ w[m + 1] = s[m + 1]}
  <2>4. 0 \in D
    <3>1. w[1] \in alive
      BY <2>1, <2>2
    <3>2. Len(s) # 0 /\ w[1] = s[1]
      BY <1>2, <1>3, <2>3, <3>1 DEF FirstOf
    <3> QED BY <1>1, <3>2
  <2>5. ASSUME NEW m \in Nat, m \in D PROVE m + 1 \in D
    <3> SUFFICES ASSUME (m + 1) + 1 <= c
                 PROVE  (m + 1) + 1 <= Len(s) /\ w[(m + 1) + 1] = s[(m + 1) + 1]
      OBVIOUS
    <3>1. m + 1 \in 1..Len(s) /\ w[m + 1] = s[m + 1] /\ m + 1 \in 1..(c - 1)
      BY <1>1, <2>2, <2>5
    <3>2. w[(m + 1) + 1] = After(s, m + 1)
      BY <1>2, <2>3, <3>1
    <3>3. w[(m + 1) + 1] \in alive
      BY <2>1, <2>2
    <3> QED BY <1>1, <1>3, <3>1, <3>2, <3>3 DEF After
  <2> HIDE DEF D
  <2>6. Nat \subseteq D
    BY <2>4, <2>5, InductionOverPositions
  <2>7. ASSUME NEW i \in 1..c PROVE i <= Len(s) /\ w[i] = s[i]
    <3>1. i - 1 \in D /\ (i - 1) + 1 = i
      BY <2>2, <2>6
    <3> QED BY <2>2, <3>1 DEF D
  <2>8. c \in 1..Len(s)
    BY <1>1, <2>2, <2>7
  <2>9. w = [i \in 1..c |-> s[i]]
    BY <2>1, <2>7
  <2> QED BY <2>2, <2>7, <2>8, <2>9
<1>5. ASSUME NEW j \in 1..Len(s)
      PROVE  [i \in 1..j |-> s[i]] \in Walks(h)
  <2> DEFINE w == [i \in 1..j |-> s[i]]
  <2>1. j \in Nat /\ w \in [1..j -> alive]
    BY <1>1
  <2>2. j <= Cardinality(alive)
    <3>1. IsFiniteSet(1..j) /\ Cardinality(1..j) = j
      BY <2>1, FS_Interval
    <3>2. \A a, b \in 1..j : w[a] = w[b] => a = b
      BY <1>1 DEF Distinct
    <3>3. w \in Injection(1..j, alive)
      BY <2>1, <3>2 DEF Injection, IsInjective
    <3>4. Cardinality(1..j) <= Cardinality(alive)
      BY <1>3, <3>3, FS_Injection
    <3> QED BY <3>1, <3>4
  <2>3. Len(w) = j
    <3>1. w \in Seq(alive)
      BY <2>1
    <3> QED BY <2>1, <3>1, LenProperties
  <2>4. w[1] = array[h]
    BY <1>1, <1>2 DEF FirstOf
  <2>5. \A i \in 1..(j - 1) : w[i + 1] = bucknext[w[i]]
    <3> SUFFICES ASSUME NEW i \in 1..(j - 1) PROVE w[i + 1] = bucknext[w[i]]
      OBVIOUS
    <3>1. i \in 1..Len(s) /\ i + 1 \in 1..j /\ i \in 1..j /\ i # Len(s)
      BY <1>1
    <3> QED BY <1>2, <3>1 DEF After
  <2> HIDE DEF w
  <2>6. w \in UNION {[1..m -> alive] : m \in 1..Cardinality(alive)}
    BY <1>3, <2>1, <2>2
  <2>7. w \in Walks(h)
    BY <2>3, <2>4, <2>5, <2>6 DEF Walks, IsWalk
  <2> QED BY <2>7 DEF w
<1> QED
  BY <1>4, <1>5

\* t is s without its element at q.
Without(s, t, q) ==
  /\ t \in Seq(Nodes) /\ Len(t) = Len(s) - 1 /\ Distinct(t)
  /\ \A i \in 1..Len(t) : /\ OldPlace(q, i) \in 1..Len(s) /\ OldPlace(q, i) # q
                          /\ t[i] = s[OldPlace(q, i)]
  /\ \A i \in 1..Len(s) : i # q => \E j \in 1..Len(t) : OldPlace(q, j) = i

LEMMA NodesWithout ==
  \A s \in Seq(Nodes) : Distinct(s) => \A q \in 1..Len(s) : Without(s, RemoveAt(s, q), q)
  BY RemoveAtPlaces DEF Without

\* Its elements keep their order.
LEMMA WithoutKeeps ==
  \A s, t, q : Without(s, t, q) =>
    \A i \in 1..Len(t) : OldPlace(q, i) \in 1..Len(s) /\ s[OldPlace(q, i)] = t[i]
  BY DEF Without

\* What remove takes out of a chain is the element its loop stopped at.
LEMMA ChainRemoves ==
  ASSUME TypeOK, NEW h \in Slots, NEW s, Chain(h, s), NEW q \in 1..Len(s), NEW w \in Walks(h),
         Len(w) = q, UnlinkChain(h, w), alive' = alive \ {s[q]}, data' = [data EXCEPT ![s[q]] = NULL]
  PROVE  /\ Chain(h, RemoveAt(s, q))'
         /\ array' \in [Slots -> Ptr] /\ \A g \in Slots \ {h} : array'[g] = array[g]
         /\ bucknext' \in [Nodes -> Ptr]
         /\ \A m \in Nodes : HashOf[data[m]] # h => bucknext'[m] = bucknext[m]
<1> DEFINE t == RemoveAt(s, q)
           x == s[q]
<1>1. /\ s \in Seq(Nodes) /\ Len(s) \in Nat /\ Distinct(s)
      /\ \A i \in 1..Len(s) : s[i] \in Nodes /\ s[i] \in alive /\ s[i] # NULL
      /\ \A i \in 1..Len(s) : HashOf[data[s[i]]] = h
  BY ChainNodes
<1>2. /\ t \in Seq(Nodes) /\ Len(t) = Len(s) - 1 /\ Distinct(t)
      /\ \A i \in 1..Len(t) : /\ OldPlace(q, i) \in 1..Len(s) /\ OldPlace(q, i) # q
                              /\ t[i] = s[OldPlace(q, i)]
      /\ \A i \in 1..Len(s) : i # q => \E j \in 1..Len(t) : OldPlace(q, j) = i
  <2>1. Without(s, t, q)
    BY <1>1, NodesWithout
  <2> QED BY <2>1 DEF Without
<1> HIDE DEF t
<1>3. /\ FirstOf(t) = IF q = 1 THEN After(s, 1) ELSE FirstOf(s)
      /\ \A i \in 1..Len(t) : After(t, i) = IF OldPlace(q, i) = q - 1 THEN After(s, q)
                                            ELSE After(s, OldPlace(q, i))
  <2>1. s \in Seq(Nodes) /\ t \in Seq(Nodes) /\ Len(t) = Len(s) - 1
    BY <1>1, <1>2
  <2>2. \A i \in 1..Len(t) : t[i] = s[OldPlace(q, i)]
    BY <1>2
  <2> QED BY <2>1, <2>2, RemovedLinks
<1>4. /\ array[h] = FirstOf(s) /\ \A i \in 1..Len(s) : bucknext[s[i]] = After(s, i)
      /\ array \in [Slots -> Ptr] /\ bucknext \in [Nodes -> Ptr] /\ data \in [Nodes -> Keys \cup {NULL}]
  BY DEF Chain, TypeOK
<1>5. w[q] = x /\ (q > 1 => w[q - 1] = s[q - 1] /\ q - 1 \in 1..Len(s))
  <2>1. \A i \in 1..q : w[i] = s[i]
    BY WalksArePrefixes
  <2> QED BY <1>1, <2>1
<1>6. /\ array' = IF q = 1 THEN [array EXCEPT ![h] = bucknext[x]] ELSE array
      /\ bucknext' = [n \in Nodes |-> IF n = x THEN NULL
                                      ELSE IF q > 1 /\ n = s[q - 1] THEN bucknext[x]
                                      ELSE bucknext[n]]
  <2>1. /\ array' = IF q = 1 THEN [array EXCEPT ![h] = bucknext[w[q]]] ELSE array
        /\ bucknext' = [n \in Nodes |-> IF n = w[q] THEN NULL
                                      ELSE IF q > 1 /\ n = w[q - 1] THEN bucknext[w[q]]
                                      ELSE bucknext[n]]
    BY DEF UnlinkChain
  <2>2. CASE q = 1
    BY <1>5, <2>1, <2>2
  <2>3. CASE q # 1
    <3>1. q > 1
      BY <1>1, <2>3
    <3> QED BY <1>5, <2>1, <2>3, <3>1
  <2> QED BY <2>2, <2>3
<1>7. bucknext[x] \in Ptr /\ bucknext[x] = After(s, q) /\ NULL \in Ptr /\ x \in Nodes
  BY <1>1, <1>4 DEF Ptr
<1>8. array' \in [Slots -> Ptr] /\ \A g \in Slots \ {h} : array'[g] = array[g]
  <2> HIDE DEF x
  <2> QED BY <1>4, <1>6, <1>7
<1>9. bucknext' \in [Nodes -> Ptr]
  <2> HIDE DEF x
  <2> QED BY <1>4, <1>6, <1>7
<1>10. \A m \in Nodes : HashOf[data[m]] # h => bucknext'[m] = bucknext[m]
  BY <1>1, <1>5, <1>6
<1>11. array'[h] = FirstOf(t)
  BY <1>3, <1>4, <1>6, <1>7
<1>12. ASSUME NEW i \in 1..Len(t)
       PROVE  bucknext'[t[i]] = After(t, i)
  <2> DEFINE o == OldPlace(q, i)
  <2>1. o \in 1..Len(s) /\ o # q /\ t[i] = s[o]
    BY <1>2
  <2>2. s[o] \in Nodes /\ s[o] # x /\ bucknext[s[o]] = After(s, o)
    BY <1>1, <1>4, <2>1 DEF Distinct
  <2>3. (q > 1 /\ s[o] = s[q - 1]) <=> o = q - 1
    BY <1>1, <1>5, <2>1 DEF Distinct
  <2>4. bucknext'[t[i]] = IF o = q - 1 THEN After(s, q) ELSE After(s, o)
    <3> HIDE DEF o, x
    <3> QED BY <1>6, <1>7, <2>1, <2>2, <2>3
  <2> QED BY <1>3, <2>4
<1>13. ASSUME NEW m \in Nodes
       PROVE  (m \in alive' /\ HashOf[data'[m]] = h) <=> \E i \in 1..Len(t) : t[i] = m
  <2>1. (m \in alive /\ HashOf[data[m]] = h) <=> \E i \in 1..Len(s) : s[i] = m
    BY DEF Chain
  <2>2. m # x => data'[m] = data[m]
    BY <1>4
  <2>3. ASSUME NEW i \in 1..Len(t), t[i] = m PROVE m \in alive' /\ HashOf[data'[m]] = h
    <3>1. m # x /\ \E j \in 1..Len(s) : s[j] = m
      BY <1>1, <1>2, <2>3 DEF Distinct
    <3> QED BY <2>1, <2>2, <3>1
  <2>4. ASSUME m \in alive', HashOf[data'[m]] = h PROVE \E i \in 1..Len(t) : t[i] = m
    <3>1. m # x /\ m \in alive
      BY <2>4
    <3>2. PICK i \in 1..Len(s) : s[i] = m
      BY <2>1, <2>2, <2>4, <3>1
    <3>3. PICK j \in 1..Len(t) : OldPlace(q, j) = i
      BY <1>2, <3>1, <3>2
    <3> QED BY <1>2, <3>2, <3>3
  <2> QED BY <2>3, <2>4
<1>14. Chain(h, t)'
  BY <1>2, <1>11, <1>12, <1>13 DEF Chain
<1> QED
  BY <1>8, <1>9, <1>10, <1>14 DEF t

-----------------------------------------------------------------------------
(* The order of a chain, and what a caller's loop still has to meet.       *)

\* m is l with n behind it, and t is s with n in front.
Behind(l, m, n) ==
  Len(m) = Len(l) + 1 /\ m[Len(l) + 1] = n /\ \A i \in 1..Len(l) : m[i] = l[i]
InFront(s, t, n) ==
  Len(t) = Len(s) + 1 /\ t[1] = n /\ \A i \in 1..Len(s) : t[i + 1] = s[i]

\* A bucket added is the last of the list and the first of its chain.
LEMMA NewestIsFirst ==
  ASSUME NEW l \in Seq(Nodes), NEW m \in Seq(Nodes), NEW s \in Seq(Nodes), NEW t \in Seq(Nodes),
         NEW n, NewerFirst(l, s), Distinct(m), Behind(l, m, n), InFront(s, t, n),
         \A i \in 1..Len(s) : s[i] # n
  PROVE  NewerFirst(m, t)
<1> USE DEF Behind, InFront
<1>1. Len(l) \in Nat /\ Len(s) \in Nat
  BY LenProperties
<1>2. ASSUME NEW i \in 1..Len(t), i # 1
      PROVE  \E a \in 1..Len(s) : a + 1 = i /\ t[i] = s[a] /\ t[i] # n
  <2>1. i - 1 \in 1..Len(s) /\ (i - 1) + 1 = i
    BY <1>1, <1>2
  <2>2. t[(i - 1) + 1] = s[i - 1] /\ s[i - 1] # n
    BY <2>1
  <2> QED BY <2>1, <2>2
<1>3. \A p \in 1..Len(m) : p = Len(l) + 1 \/ (p \in 1..Len(l) /\ m[p] = l[p])
  BY <1>1
<1>4. ASSUME NEW i \in 1..Len(t), NEW j \in 1..Len(t), NEW p \in 1..Len(m),
             NEW q \in 1..Len(m), i < j, m[p] = t[i], m[q] = t[j]
      PROVE  q < p
  <2>1. PICK b \in 1..Len(s) : b + 1 = j /\ t[j] = s[b] /\ t[j] # n
    BY <1>1, <1>2, <1>4
  <2>2. q \in 1..Len(l) /\ l[q] = s[b]
    BY <1>3, <1>4, <2>1
  <2>3. CASE p = Len(l) + 1
    BY <1>1, <2>2, <2>3
  <2>4. CASE p # Len(l) + 1
    <3>1. p \in 1..Len(l) /\ l[p] = t[i]
      BY <1>3, <1>4, <2>4
    <3>2. t[i] # n
      <4>1. Len(l) + 1 \in 1..Len(m)
        BY <1>1
      <4> QED BY <1>4, <2>4, <4>1 DEF Distinct
    <3>3. PICK a \in 1..Len(s) : a + 1 = i /\ t[i] = s[a]
      BY <1>2, <3>2
    <3>4. a < b
      BY <1>1, <1>4, <2>1, <3>3
    <3>5. l[p] = s[a]
      BY <3>1, <3>3
    <3> QED BY <2>2, <3>1, <3>4, <3>5 DEF NewerFirst
  <2> QED BY <2>3, <2>4
<1> QED BY <1>4 DEF NewerFirst

\* It is in no other chain.
LEMMA OthersAreOlder ==
  ASSUME NEW l \in Seq(Nodes), NEW m \in Seq(Nodes), NEW s \in Seq(Nodes),
         NEW n, NewerFirst(l, s), \A i \in 1..Len(s) : s[i] # n, Behind(l, m, n)
  PROVE  NewerFirst(m, s)
<1> USE DEF Behind
<1>1. Len(l) \in Nat
  BY LenProperties
<1>2. \A i \in 1..Len(s), p \in 1..Len(m) : m[p] = s[i] => p \in 1..Len(l) /\ l[p] = s[i]
  BY <1>1
<1> QED
  BY <1>2 DEF NewerFirst

\* Fewer elements of either keep their order.
LEMMA FewerStayOrdered ==
  ASSUME NEW l \in Seq(Nodes), NEW m \in Seq(Nodes), NEW s \in Seq(Nodes), NEW t \in Seq(Nodes),
         NEW p \in 1..Len(l), Without(l, m, p), NewerFirst(l, s),
         t = s \/ \E q \in 1..Len(s) : Without(s, t, q)
  PROVE  NewerFirst(m, t)
<1>1. Len(l) \in Nat /\ Len(s) \in Nat /\ Len(m) \in Nat /\ Len(t) \in Nat
  BY LenProperties
<1>2. ASSUME NEW i \in 1..Len(t), NEW j \in 1..Len(t), i < j
      PROVE  \E a, b \in 1..Len(s) : a < b /\ s[a] = t[i] /\ s[b] = t[j]
  <2>1. CASE t = s
    BY <1>2, <2>1
  <2>2. CASE \E q \in 1..Len(s) : Without(s, t, q)
    <3>1. PICK q \in 1..Len(s) : Without(s, t, q)
      BY <2>2
    <3>2. /\ OldPlace(q, i) \in 1..Len(s) /\ s[OldPlace(q, i)] = t[i]
          /\ OldPlace(q, j) \in 1..Len(s) /\ s[OldPlace(q, j)] = t[j]
      BY <3>1, WithoutKeeps
    <3>3. OldPlace(q, i) < OldPlace(q, j)
      BY <1>1, <1>2 DEF OldPlace
    <3> QED BY <3>2, <3>3
  <2> QED BY <2>1, <2>2
<1> SUFFICES ASSUME NEW i \in 1..Len(t), NEW j \in 1..Len(t), NEW u \in 1..Len(m),
                    NEW v \in 1..Len(m), i < j, m[u] = t[i], m[v] = t[j]
             PROVE  v < u
  BY DEF NewerFirst
<1>3. PICK a \in 1..Len(s), b \in 1..Len(s) : a < b /\ s[a] = t[i] /\ s[b] = t[j]
  BY <1>2
<1>4. /\ OldPlace(p, u) \in 1..Len(l) /\ l[OldPlace(p, u)] = m[u]
      /\ OldPlace(p, v) \in 1..Len(l) /\ l[OldPlace(p, v)] = m[v]
  BY WithoutKeeps
<1>5. OldPlace(p, v) < OldPlace(p, u)
  BY <1>3, <1>4 DEF NewerFirst
<1> QED BY <1>1, <1>5 DEF OldPlace

\* A bucket added in the middle of a loop is behind what the loop has to meet.
LEMMA AheadAfterAdd ==
  ASSUME NEW l \in Seq(Nodes), NEW m \in Seq(Nodes), StillAhead(l),
         Len(m) = Len(l) + 1, \A i \in 1..Len(l) : m[i] = l[i],
         UNCHANGED cursor, UNCHANGED pending
  PROVE  StillAhead(m)'
<1>1. Len(l) \in Nat
  BY LenProperties
<1>2. ASSUME NEW i \in 1..Len(l), l[i] = cursor,
             \A n \in pending : \E j \in (i + 1)..Len(l) : l[j] = n
      PROVE  /\ i \in 1..Len(m) /\ m[i] = cursor
             /\ \A n \in pending : \E j \in (i + 1)..Len(m) : m[j] = n
  <2>1. i \in 1..Len(m)
    BY <1>1
  <2>2. \A j \in (i + 1)..Len(l) : j \in (i + 1)..Len(m) /\ m[j] = l[j]
    BY <1>1
  <2> QED BY <1>2, <2>1, <2>2
<1>3. cursor # NULL => \E i \in 1..Len(m) : /\ m[i] = cursor
                           /\ \A n \in pending : \E j \in (i + 1)..Len(m) : m[j] = n
  BY <1>2 DEF StillAhead
<1> QED BY <1>3 DEF StillAhead

\* One removed, not the one the loop is at, is no longer to be met.
LEMMA AheadAfterRemove ==
  ASSUME NEW l \in Seq(Nodes), NEW m \in Seq(Nodes), StillAhead(l), NEW p \in 1..Len(l),
         Without(l, m, p), l[p] # cursor, UNCHANGED cursor, pending' = pending \ {l[p]}
  PROVE  StillAhead(m)'
<1>1. Len(l) \in Nat /\ Len(m) \in Nat
  BY LenProperties
<1>2. ASSUME NEW i \in 1..Len(l), l[i] = cursor,
             \A n \in pending : \E j \in (i + 1)..Len(l) : l[j] = n
      PROVE  \E a \in 1..Len(m) : /\ m[a] = cursor
                                  /\ \A n \in pending' : \E b \in (a + 1)..Len(m) : m[b] = n
  <2>1. PICK a \in 1..Len(m) : OldPlace(p, a) = i
    BY <1>2 DEF Without
  <2>2. m[a] = cursor
    BY <1>2, <2>1 DEF Without
  <2>3. ASSUME NEW n \in pending' PROVE \E b \in (a + 1)..Len(m) : m[b] = n
    <3>1. PICK j \in (i + 1)..Len(l) : l[j] = n
      BY <1>2
    <3>2. j \in 1..Len(l) /\ j # p /\ i < j
      BY <1>1, <3>1
    <3>3. PICK b \in 1..Len(m) : OldPlace(p, b) = j
      BY <3>2 DEF Without
    <3>4. m[b] = n
      BY <3>1, <3>3 DEF Without
    <3>5. b \in (a + 1)..Len(m)
      BY <1>1, <2>1, <3>2, <3>3 DEF OldPlace
    <3> QED BY <3>4, <3>5
  <2> QED BY <2>2, <2>3
<1>3. cursor # NULL => \E i \in 1..Len(m) : /\ m[i] = cursor
                           /\ \A n \in pending' : \E j \in (i + 1)..Len(m) : m[j] = n
  BY <1>2 DEF StillAhead
<1> QED BY <1>3 DEF StillAhead

\* A loop that begins has to meet all but the first,
LEMMA AheadAfterHead ==
  ASSUME TypeOK, NEW l, Line(l), cursor' = listhead, pending' = alive \ {listhead}
  PROVE  StillAhead(l)'
<1>1. alive \subseteq Nodes
  BY DEF TypeOK
<1>2. CASE Len(l) = 0
  <2>1. listhead = NULL /\ alive = {}
    BY <1>1, <1>2, LineNodes
  <2> QED BY <2>1 DEF StillAhead
<1>3. CASE Len(l) # 0
  <2>1. Len(l) \in Nat /\ 1 \in 1..Len(l) /\ listhead = l[1] /\ l[1] # NULL
    BY <1>3, LineNodes
  <2>2. ASSUME NEW n \in pending' PROVE \E j \in (1 + 1)..Len(l) : l[j] = n
    <3>1. PICK j \in 1..Len(l) : l[j] = n
      BY <1>1 DEF Line
    <3>2. j # 1
      BY <2>1, <3>1
    <3> QED BY <2>1, <3>1, <3>2
  <2> QED BY <2>1, <2>2 DEF StillAhead
<1> QED BY <1>2, <1>3

\* and a step to the next is to one of them, or there was none.
LEMMA AheadAfterNext ==
  ASSUME NEW l, Line(l), StillAhead(l), cursor # NULL, cursor' = listnext[cursor],
         pending' = pending \ {listnext[cursor]}
  PROVE  StillAhead(l)'
<1>1. Len(l) \in Nat /\ \A i \in 1..Len(l) : l[i] # NULL
  BY LineNodes
<1>2. PICK i \in 1..Len(l) : /\ l[i] = cursor
                             /\ \A n \in pending : \E j \in (i + 1)..Len(l) : l[j] = n
  BY DEF StillAhead
<1>3. cursor' = After(l, i)
  BY <1>2 DEF Line
<1>4. CASE i = Len(l)
  <2>1. (i + 1)..Len(l) = {}
    BY <1>1, <1>4
  <2>2. pending' = {}
    BY <1>2, <2>1
  <2>3. cursor' = NULL
    BY <1>3, <1>4 DEF After
  <2> QED BY <2>2, <2>3 DEF StillAhead
<1>5. CASE i # Len(l)
  <2>1. i + 1 \in 1..Len(l) /\ cursor' = l[i + 1] /\ cursor' # NULL
    BY <1>1, <1>3, <1>5 DEF After
  <2>2. ASSUME NEW n \in pending' PROVE \E j \in ((i + 1) + 1)..Len(l) : l[j] = n
    <3>1. PICK j \in (i + 1)..Len(l) : l[j] = n
      BY <1>2
    <3>2. j # i + 1
      BY <2>1, <3>1
    <3>3. j \in ((i + 1) + 1)..Len(l)
      BY <1>1, <3>1, <3>2
    <3> QED BY <3>1, <3>3
  <2> QED BY <2>1, <2>2 DEF StillAhead
<1> QED BY <1>4, <1>5

-----------------------------------------------------------------------------
(* The steps.                                                              *)

\* With no bucket the pointers stand for empty sequences.
Blank ==
  /\ array = NoArray /\ listhead = NULL /\ listtail = NULL
  /\ alive = {} /\ cursor = NULL /\ pending = {}

LEMMA BlankIsShaped == Blank => Shape
<1> SUFFICES ASSUME Blank PROVE Shape
  OBVIOUS
<1>1. <<>> \in Seq(Nodes) /\ Len(<<>>) = 0
  OBVIOUS
<1> DEFINE e == <<>>
<1>2. e \in Seq(Nodes) /\ Len(e) = 0 /\ 1..Len(e) = {}
  BY <1>1
<1> HIDE DEF e
<1>3. Line(e)
  BY <1>2 DEF Line, Distinct, Blank, FirstOf, LastOf
<1>4. StillAhead(e)
  BY DEF StillAhead, Blank
<1>5. \A h \in Slots : Chain(h, e) /\ NewerFirst(e, e)
  BY <1>2 DEF Chain, Distinct, Blank, NoArray, FirstOf, NewerFirst
<1> QED
  BY <1>3, <1>4, <1>5 DEF Shape

LEMMA InitIsGood == Init => IInv
<1> SUFFICES ASSUME Init PROVE IInv
  OBVIOUS
<1>1. NULL \in Ptr
  BY DEF Ptr
<1>2. /\ array \in [Slots -> Ptr] /\ bucknext \in [Nodes -> Ptr]
      /\ listnext \in [Nodes -> Ptr] /\ listprev \in [Nodes -> Ptr]
  BY <1>1 DEF Init, NoLinks, NoArray
<1>3. data \in [Nodes -> Keys \cup {NULL}] /\ size \in [Nodes -> Nat \cup {NULL}]
  BY DEF Init, NoLinks
<1>4. alive = {n \in Nodes : data[n] # NULL}
  BY DEF Init, NoLinks
<1>5. TypeOK
  BY <1>1, <1>2, <1>3, <1>4 DEF TypeOK, Init
<1>6. SizesKept /\ FreeForgotten /\ FreeReleasesAll
  BY DEF Init, SizesKept, FreeForgotten, FreeReleasesAll, NoLinks
<1>7. Shape
  BY BlankIsShaped DEF Init, Blank
<1> QED
  BY <1>5, <1>6, <1>7 DEF IInv

LEMMA AddKeepsShape ==
  ASSUME IInv, NEW n \in Nodes, NEW k \in Keys, HashListTableAdd(n, k)
  PROVE  Shape'
<1>1. TypeOK /\ FreeForgotten /\ Shape
  BY DEF IInv
<1>2. PICK l : Line(l) /\ StillAhead(l) /\ \A h \in Slots : \E s : Chain(h, s) /\ NewerFirst(l, s)
  BY <1>1 DEF Shape
<1>3. /\ n \in Nodes \ alive /\ LinkChain(n, HashOf[k]) /\ LinkList(n)
      /\ alive' = alive \cup {n} /\ data' = [data EXCEPT ![n] = k]
      /\ cursor' = cursor /\ pending' = pending
  BY DEF HashListTableAdd
<1> DEFINE m == Append(l, n)
<1>4. Line(m)'
  BY <1>1, <1>2, <1>3, ListAppends
<1>5. /\ l \in Seq(Nodes) /\ Len(l) \in Nat /\ Distinct(l)
      /\ \A i \in 1..Len(l) : l[i] # n
  BY <1>2, <1>3, LineNodes DEF Line
<1>6. /\ m \in Seq(Nodes) /\ Len(m) = Len(l) + 1 /\ Distinct(m)
      /\ m[Len(l) + 1] = n /\ \A i \in 1..Len(l) : m[i] = l[i]
  BY <1>5, AppendPlaces
<1> HIDE DEF m
<1>6a. Behind(l, m, n)
  BY <1>6 DEF Behind
<1>7. StillAhead(m)'
  BY <1>2, <1>3, <1>5, <1>6, AheadAfterAdd
<1>8. ASSUME NEW h \in Slots
      PROVE  \E s : Chain(h, s)' /\ NewerFirst(m, s)
  <2>1. PICK s : Chain(h, s) /\ NewerFirst(l, s)
    BY <1>2
  <2>2. /\ s \in Seq(Nodes) /\ Distinct(s)
        /\ \A i \in 1..Len(s) : s[i] \in Nodes /\ s[i] # n
    BY <1>3, <2>1, ChainNodes
  <2>3. CASE h = HashOf[k]
    <3> DEFINE t == <<n>> \o s
    <3>1. Chain(h, t)'
      BY <1>1, <1>3, <2>1, <2>3, ChainPushes
    <3>2. t \in Seq(Nodes) /\ InFront(s, t, n)
      BY <2>2, PushFrontPlaces DEF InFront
    <3> HIDE DEF t
    <3>3. NewerFirst(m, t)
      <4>1. l \in Seq(Nodes) /\ m \in Seq(Nodes) /\ Distinct(m)
        BY <1>5, <1>6
      <4> QED BY <1>6a, <2>1, <2>2, <3>2, <4>1, NewestIsFirst
    <3> QED BY <3>1, <3>3
  <2>4. CASE h # HashOf[k]
    <3>1. array'[h] = array[h]
      BY <1>1, <1>3, <2>4 DEF LinkChain, TypeOK
    <3>2. \A i \in 1..Len(s) : bucknext'[s[i]] = bucknext[s[i]]
      BY <1>1, <1>3, <2>2 DEF LinkChain, TypeOK
    <3>3. \A x \in Nodes : (x \in alive' /\ HashOf[data'[x]] = h)
                             <=> (x \in alive /\ HashOf[data[x]] = h)
      BY <1>1, <1>3, <2>4 DEF TypeOK
    <3>4. Chain(h, s)'
      BY <2>1, <3>1, <3>2, <3>3, ChainStays
    <3>5. NewerFirst(m, s)
      <4>1. l \in Seq(Nodes) /\ m \in Seq(Nodes)
        BY <1>5, <1>6
      <4> QED BY <1>6a, <2>1, <2>2, <4>1, OthersAreOlder
    <3> QED BY <3>4, <3>5
  <2> QED BY <2>3, <2>4
<1> QED
  BY <1>4, <1>7, <1>8 DEF Shape, NewerFirst

LEMMA AddIsGood ==
  ASSUME IInv, NEW n \in Nodes, NEW k \in Keys, HashListTableAdd(n, k)
  PROVE  IInv'
<1>1. TypeOK /\ SizesKept /\ FreeForgotten /\ Shape
  BY DEF IInv
<1>2. /\ ht # "none" /\ ht' = ht /\ n \notin alive
      /\ array' = [array EXCEPT ![HashOf[k]] = n]
      /\ bucknext' = [bucknext EXCEPT ![n] = array[HashOf[k]]]
      /\ listhead' = IF listtail = NULL THEN n ELSE listhead
      /\ listtail' = n
      /\ listprev' = [listprev EXCEPT ![n] = listtail]
      /\ listnext' = [x \in Nodes |-> IF x = listtail THEN n ELSE listnext[x]]
      /\ alive' = alive \cup {n}
      /\ data' = [data EXCEPT ![n] = k] /\ size' = [size EXCEPT ![n] = SizeOf[k]]
      /\ cursor' = cursor /\ pending' = pending
  BY DEF HashListTableAdd, LinkChain, LinkList
<1>3. n \in Ptr /\ NULL \in Ptr /\ k # NULL /\ HashOf[k] \in Slots /\ SizeOf[k] \in Nat
  BY HashListAssumption DEF Ptr
<1>4. /\ ht \in {"none", "given", "default"}
      /\ array \in [Slots -> Ptr] /\ bucknext \in [Nodes -> Ptr]
      /\ listnext \in [Nodes -> Ptr] /\ listprev \in [Nodes -> Ptr]
      /\ listhead \in Ptr /\ listtail \in Ptr /\ alive \subseteq Nodes
      /\ data \in [Nodes -> Keys \cup {NULL}] /\ size \in [Nodes -> Nat \cup {NULL}]
      /\ alive = {x \in Nodes : data[x] # NULL} /\ cursor \in Ptr /\ pending \subseteq Nodes
  BY <1>1 DEF TypeOK
<1>5. array' \in [Slots -> Ptr] /\ bucknext' \in [Nodes -> Ptr]
  BY <1>2, <1>3, <1>4
<1>6. listprev' \in [Nodes -> Ptr] /\ listnext' \in [Nodes -> Ptr]
  BY <1>2, <1>3, <1>4
<1>7. data' \in [Nodes -> Keys \cup {NULL}] /\ size' \in [Nodes -> Nat \cup {NULL}]
  BY <1>2, <1>3, <1>4
<1>8. alive' = {x \in Nodes : data'[x] # NULL}
  BY <1>2, <1>3, <1>4
<1>9. TypeOK'
  <2>1. listhead' \in Ptr /\ listtail' \in Ptr
    BY <1>2, <1>3, <1>4
  <2>2. alive' \subseteq Nodes /\ cursor' \in Ptr /\ pending' \subseteq Nodes
    BY <1>2, <1>4
  <2>3. ht' \in {"none", "given", "default"}
    BY <1>2, <1>4
  <2> QED BY <1>5, <1>6, <1>7, <1>8, <2>1, <2>2, <2>3 DEF TypeOK
<1>10. SizesKept'
  BY <1>1, <1>2, <1>4 DEF SizesKept
<1>11. FreeForgotten'
  <2>1. PICK l : Line(l)
    BY <1>1 DEF Shape
  <2>2. listtail = NULL \/ listtail \in alive
    BY <2>1, LineNodes
  <2>3. NULL \notin Nodes
    BY HashListAssumption
  <2> QED BY <1>1, <1>2, <2>2, <2>3 DEF FreeForgotten
<1>12. FreeReleasesAll'
  BY <1>2 DEF FreeReleasesAll
<1>13. Shape'
  BY AddKeepsShape
<1> QED
  BY <1>9, <1>10, <1>11, <1>12, <1>13 DEF IInv

\* A bucket taken out of the chain of its hash and of the list.
Takes(h, w) ==
  LET x == w[Len(w)] IN
  /\ x # cursor
  /\ UnlinkList(x)
  /\ UnlinkChain(h, w)
  /\ alive' = alive \ {x}
  /\ data' = [data EXCEPT ![x] = NULL]
  /\ size' = [size EXCEPT ![x] = NULL]
  /\ pending' = pending \ {x}
  /\ cursor' = cursor /\ ht' = ht /\ ht # "none"

\* The bucket is in the chain and in the list.
LEMMA TakenPlaces ==
  ASSUME TypeOK, NEW h \in Slots, NEW w \in Walks(h), NEW l, Line(l), NEW s, Chain(h, s)
  PROVE  /\ Len(w) \in 1..Len(s) /\ w[Len(w)] = s[Len(w)]
         /\ \E p \in 1..Len(l) : l[p] = w[Len(w)]
<1>1. Len(w) \in 1..Len(s) /\ \A i \in 1..Len(w) : w[i] = s[i]
  BY WalksArePrefixes
<1>2. Len(w) \in 1..Len(w) /\ s[Len(w)] \in Nodes /\ s[Len(w)] \in alive
  BY <1>1, ChainNodes
<1>3. w[Len(w)] = s[Len(w)]
  BY <1>1, <1>2
<1> QED
  BY <1>1, <1>2, <1>3 DEF Line

LEMMA TakeKeepsShape ==
  ASSUME IInv, NEW g \in Slots, NEW w \in Walks(g), Takes(g, w)
  PROVE  /\ Shape' /\ array' \in [Slots -> Ptr] /\ bucknext' \in [Nodes -> Ptr]
         /\ listprev' \in [Nodes -> Ptr] /\ listnext' \in [Nodes -> Ptr]
         /\ listhead' \in Ptr /\ listtail' \in Ptr
         /\ w[Len(w)] \in alive /\ FreeForgotten'
<1>1. TypeOK /\ FreeForgotten /\ Shape
  BY DEF IInv
<1>2. PICK l : Line(l) /\ StillAhead(l) /\ \A h \in Slots : \E s : Chain(h, s) /\ NewerFirst(l, s)
  BY <1>1 DEF Shape
<1> DEFINE x == w[Len(w)]
<1>3. /\ UnlinkList(x) /\ UnlinkChain(g, w)
      /\ alive' = alive \ {x} /\ data' = [data EXCEPT ![x] = NULL]
      /\ cursor' = cursor /\ x # cursor /\ pending' = pending \ {x}
  BY DEF Takes
<1> HIDE DEF x
<1>4. PICK c : Chain(g, c) /\ NewerFirst(l, c)
  BY <1>2
<1>5. Len(w) \in 1..Len(c) /\ x = c[Len(w)] /\ \E p \in 1..Len(l) : l[p] = x
  BY <1>1, <1>2, <1>4, TakenPlaces DEF x
<1>6. PICK p \in 1..Len(l) : l[p] = x
  BY <1>5
<1> DEFINE m == RemoveAt(l, p)
<1>7. l \in Seq(Nodes) /\ Distinct(l)
  BY <1>2 DEF Line
<1>8. Without(l, m, p)
  BY <1>7, NodesWithout
<1>9. Line(m)'
  BY <1>1, <1>2, <1>3, <1>6, ListRemoves
<1> HIDE DEF m
<1>10. m \in Seq(Nodes)
  BY <1>8 DEF Without
<1>11. StillAhead(m)'
  BY <1>2, <1>3, <1>6, <1>7, <1>8, <1>10, AheadAfterRemove
<1> DEFINE d == RemoveAt(c, Len(w))
<1>12. c \in Seq(Nodes) /\ Distinct(c) /\ \A i \in 1..Len(c) : HashOf[data[c[i]]] = g
  BY <1>4, ChainNodes
<1>13. Without(c, d, Len(w))
  BY <1>5, <1>12, NodesWithout
<1>14. /\ Chain(g, d)' /\ array' \in [Slots -> Ptr] /\ \A h \in Slots \ {g} : array'[h] = array[h]
       /\ bucknext' \in [Nodes -> Ptr]
       /\ \A n \in Nodes : HashOf[data[n]] # g => bucknext'[n] = bucknext[n]
  BY <1>1, <1>3, <1>4, <1>5, ChainRemoves
<1> HIDE DEF d
<1>15. d \in Seq(Nodes)
  BY <1>13 DEF Without
<1>16. ASSUME NEW h \in Slots
       PROVE  \E s : Chain(h, s)' /\ NewerFirst(m, s)
  <2>1. CASE h = g
    <3>1. NewerFirst(m, d)
      BY <1>4, <1>5, <1>7, <1>8, <1>10, <1>12, <1>13, <1>15, FewerStayOrdered
    <3> QED BY <1>14, <2>1, <3>1
  <2>2. CASE h # g
    <3>1. PICK s : Chain(h, s) /\ NewerFirst(l, s)
      BY <1>2
    <3>2. /\ s \in Seq(Nodes)
          /\ \A i \in 1..Len(s) : s[i] \in Nodes /\ HashOf[data[s[i]]] = h
      BY <3>1, ChainNodes
    <3>3. /\ array'[h] = array[h]
          /\ \A i \in 1..Len(s) : bucknext'[s[i]] = bucknext[s[i]]
      BY <1>14, <2>2, <3>2
    <3>4. \A n \in Nodes : (n \in alive' /\ HashOf[data'[n]] = h)
                             <=> (n \in alive /\ HashOf[data[n]] = h)
      <4>1. HashOf[data[x]] = g
        BY <1>5, <1>12
      <4>2. data \in [Nodes -> Keys \cup {NULL}]
        BY <1>1 DEF TypeOK
      <4> QED BY <1>3, <2>2, <4>1, <4>2
    <3>5. Chain(h, s)'
      BY <3>1, <3>3, <3>4, ChainStays
    <3>6. NewerFirst(m, s)
      BY <1>7, <1>8, <1>10, <3>1, <3>2, FewerStayOrdered
    <3> QED BY <3>5, <3>6
  <2> QED BY <2>1, <2>2
<1>17. Shape'
  BY <1>9, <1>11, <1>16 DEF Shape, NewerFirst
<1>18. x \in alive /\ listprev[x] \in alive \cup {NULL} /\ listnext[x] \in alive \cup {NULL}
  <2>1. Len(l) \in Nat /\ \A i \in 1..Len(l) : l[i] \in alive
    BY <1>2, LineNodes
  <2>2. listnext[x] = After(l, p) /\ listprev[x] = Before(l, p)
    BY <1>2, <1>6 DEF Line
  <2>3. (p # 1 => p - 1 \in 1..Len(l)) /\ (p # Len(l) => p + 1 \in 1..Len(l))
    BY <2>1
  <2> QED BY <1>6, <2>1, <2>2, <2>3 DEF After, Before
<1>19. /\ listhead \in Ptr /\ listtail \in Ptr /\ alive \subseteq Nodes /\ NULL \notin Nodes
       /\ listnext \in [Nodes -> Ptr] /\ listprev \in [Nodes -> Ptr]
  BY <1>1, HashListAssumption DEF TypeOK
<1>20. listprev' \in [Nodes -> Ptr] /\ listnext' \in [Nodes -> Ptr]
  BY <1>3, <1>18, <1>19 DEF UnlinkList, Ptr
<1>21. listhead' \in Ptr /\ listtail' \in Ptr
  BY <1>3, <1>18, <1>19 DEF UnlinkList, Ptr
<1>22. FreeForgotten'
  BY <1>1, <1>3, <1>18, <1>19 DEF UnlinkList, FreeForgotten
<1> QED
  BY <1>14, <1>17, <1>18, <1>20, <1>21, <1>22 DEF x

LEMMA TakeIsGood ==
  ASSUME IInv, NEW g \in Slots, NEW w \in Walks(g), Takes(g, w)
  PROVE  IInv'
<1> DEFINE x == w[Len(w)]
<1>1. /\ Shape' /\ array' \in [Slots -> Ptr] /\ bucknext' \in [Nodes -> Ptr]
      /\ listprev' \in [Nodes -> Ptr] /\ listnext' \in [Nodes -> Ptr]
      /\ listhead' \in Ptr /\ listtail' \in Ptr /\ x \in alive /\ FreeForgotten'
  BY TakeKeepsShape
<1>2. TypeOK /\ SizesKept
  BY DEF IInv
<1>3. /\ alive' = alive \ {x} /\ data' = [data EXCEPT ![x] = NULL]
      /\ size' = [size EXCEPT ![x] = NULL] /\ pending' = pending \ {x}
      /\ cursor' = cursor /\ ht' = ht /\ ht # "none"
  BY DEF Takes
<1> HIDE DEF x
<1>4. /\ ht \in {"none", "given", "default"} /\ alive \subseteq Nodes
      /\ data \in [Nodes -> Keys \cup {NULL}] /\ size \in [Nodes -> Nat \cup {NULL}]
      /\ alive = {n \in Nodes : data[n] # NULL} /\ cursor \in Ptr /\ pending \subseteq Nodes
  BY <1>2 DEF TypeOK
<1>5. data' \in [Nodes -> Keys \cup {NULL}] /\ size' \in [Nodes -> Nat \cup {NULL}]
  BY <1>3, <1>4
<1>6. alive' = {n \in Nodes : data'[n] # NULL}
  BY <1>1, <1>3, <1>4
<1>7. /\ ht' \in {"none", "given", "default"} /\ alive' \subseteq Nodes
      /\ cursor' \in Ptr /\ pending' \subseteq Nodes
  BY <1>3, <1>4
<1>8. TypeOK'
  BY <1>1, <1>5, <1>6, <1>7 DEF TypeOK
<1>9. SizesKept'
  BY <1>2, <1>3, <1>4 DEF SizesKept
<1>10. FreeReleasesAll'
  BY <1>3 DEF FreeReleasesAll
<1> QED
  BY <1>1, <1>8, <1>9, <1>10 DEF IInv

\* A compare that overwrites a datum leaves its hash, and its size is that of the key.
LEMMA ComparedIsGood ==
  ASSUME IInv, NEW k \in Keys, data' = Compared(HashOf[k], k), ht' = ht,
         UNCHANGED links, UNCHANGED size, UNCHANGED cursor, UNCHANGED pending
  PROVE  IInv'
<1>1. TypeOK /\ SizesKept /\ FreeForgotten /\ FreeReleasesAll /\ Shape
  BY DEF IInv
<1>2. /\ array' = array /\ bucknext' = bucknext /\ listnext' = listnext /\ listprev' = listprev
      /\ listhead' = listhead /\ listtail' = listtail /\ alive' = alive
  BY DEF links
<1>3. k # NULL /\ HashOf[k] \in Slots
  BY HashListAssumption
<1>4. /\ data \in [Nodes -> Keys \cup {NULL}] /\ alive = {n \in Nodes : data[n] # NULL}
      /\ alive \subseteq Nodes
  BY <1>1 DEF TypeOK
<1>5. ASSUME NEW n \in Nodes
      PROVE  /\ data'[n] \in Keys \cup {NULL} /\ (data'[n] # NULL <=> data[n] # NULL)
             /\ n \in alive => HashOf[data'[n]] = HashOf[data[n]] /\ SizeOf[data'[n]] = SizeOf[data[n]]
  <2>1. \/ data'[n] = data[n]
        \/ /\ data'[n] = k /\ n \in alive /\ size[n] = SizeOf[k]
           /\ \E w \in Walks(HashOf[k]) : w[Len(w)] = n
    BY DEF Compared
  <2>2. CASE data'[n] = data[n]
    BY <1>4, <2>2
  <2>3. ASSUME data'[n] = k, n \in alive, size[n] = SizeOf[k],
               NEW w \in Walks(HashOf[k]), w[Len(w)] = n
        PROVE  /\ data'[n] \in Keys \cup {NULL} /\ (data'[n] # NULL <=> data[n] # NULL)
               /\ HashOf[data'[n]] = HashOf[data[n]] /\ SizeOf[data'[n]] = SizeOf[data[n]]
    <3>1. PICK l : Line(l) /\ \A h \in Slots : \E s : Chain(h, s)
      BY <1>1 DEF Shape
    <3>2. PICK s : Chain(HashOf[k], s)
      BY <1>3, <3>1
    <3>3. Len(w) \in 1..Len(s) /\ s[Len(w)] = n
      BY <1>1, <1>3, <2>3, <3>1, <3>2, TakenPlaces
    <3>4. HashOf[data[n]] = HashOf[k]
      BY <1>3, <3>2, <3>3, ChainNodes
    <3>5. SizeOf[data[n]] = SizeOf[k]
      BY <1>1, <2>3 DEF SizesKept
    <3> QED BY <1>3, <1>4, <2>3, <3>4, <3>5
  <2> QED BY <2>1, <2>2, <2>3
<1>6. data' \in [Nodes -> Keys \cup {NULL}]
  <2>1. data' = [n \in Nodes |-> data'[n]]
    BY DEF Compared
  <2> QED BY <1>5, <2>1
<1>7. TypeOK'
  <2>1. alive' = {n \in Nodes : data'[n] # NULL}
    BY <1>2, <1>4, <1>5
  <2> QED BY <1>1, <1>2, <1>6, <2>1 DEF TypeOK
<1>8. SizesKept'
  BY <1>1, <1>2, <1>4, <1>5 DEF SizesKept
<1>9. FreeForgotten' /\ FreeReleasesAll'
  BY <1>1, <1>2 DEF FreeForgotten, FreeReleasesAll
<1>10. Shape'
  <2>1. PICK l : Line(l) /\ StillAhead(l) /\ \A h \in Slots : \E s : Chain(h, s) /\ NewerFirst(l, s)
    BY <1>1 DEF Shape
  <2>2. Line(l)' /\ StillAhead(l)'
    BY <1>2, <2>1 DEF Line, StillAhead
  <2>3. ASSUME NEW h \in Slots, NEW s, Chain(h, s)
        PROVE  Chain(h, s)'
    BY <1>2, <1>5, <2>3, ChainStays
  <2> QED BY <2>1, <2>2, <2>3 DEF Shape, NewerFirst
<1> QED
  BY <1>7, <1>8, <1>9, <1>10 DEF IInv

\* Every bucket is in a chain, so that Free, which walks the chains, meets it.
LEMMA EachIsAtAWalk ==
  ASSUME IInv, NEW n \in alive
  PROVE  HashOf[data[n]] \in Slots /\ \E w \in Walks(HashOf[data[n]]) : w[Len(w)] = n
<1>1. TypeOK /\ Shape
  BY DEF IInv
<1>2. n \in Nodes /\ data[n] \in Keys
  BY <1>1 DEF TypeOK
<1>3. HashOf[data[n]] \in Slots
  BY <1>2, HashListAssumption
<1>4. PICK s : Chain(HashOf[data[n]], s)
  BY <1>1, <1>3 DEF Shape
<1>5. PICK j \in 1..Len(s) : s[j] = n
  BY <1>2, <1>4 DEF Chain
<1> DEFINE w == [i \in 1..j |-> s[i]]
<1>6. w \in Walks(HashOf[data[n]])
  BY <1>1, <1>3, <1>4, WalksArePrefixes
<1>7. j \in Nat /\ j \in 1..j /\ s \in Seq(Nodes) /\ \A i \in 1..j : s[i] \in Nodes
  BY <1>3, <1>4, <1>5, ChainNodes
<1>8. Len(w) = j /\ w[j] = n
  <2>1. w \in Seq(Nodes) /\ w \in [1..j -> Nodes]
    BY <1>7
  <2> QED BY <1>5, <1>7, <2>1, LenProperties
<1> QED BY <1>3, <1>6, <1>8

LEMMA FreeIsGood ==
  ASSUME IInv, HashListTableFree
  PROVE  IInv'
<1>1. alive' = {}
  <2>1. \A n \in alive : \E h \in Slots : \E w \in Walks(h) : w[Len(w)] = n
    BY EachIsAtAWalk
  <2> QED BY <2>1 DEF HashListTableFree
<1>2. /\ array' = NoArray /\ bucknext' = NoLinks /\ listnext' = NoLinks /\ listprev' = NoLinks
      /\ listhead' = NULL /\ listtail' = NULL /\ data' = NoLinks /\ size' = NoLinks
      /\ cursor' = NULL /\ pending' = {} /\ ht' = "none"
  BY DEF HashListTableFree
<1>3. TypeOK'
  <2>1. NULL \in Ptr
    BY DEF Ptr
  <2>2. /\ array' \in [Slots -> Ptr] /\ bucknext' \in [Nodes -> Ptr]
        /\ listnext' \in [Nodes -> Ptr] /\ listprev' \in [Nodes -> Ptr]
    BY <1>2, <2>1 DEF NoLinks, NoArray
  <2>3. data' \in [Nodes -> Keys \cup {NULL}] /\ size' \in [Nodes -> Nat \cup {NULL}]
    BY <1>2 DEF NoLinks
  <2>4. alive' = {n \in Nodes : data'[n] # NULL}
    BY <1>1, <1>2 DEF NoLinks
  <2> QED BY <1>1, <1>2, <2>1, <2>2, <2>3, <2>4 DEF TypeOK
<1>4. SizesKept' /\ FreeForgotten' /\ FreeReleasesAll'
  BY <1>1, <1>2 DEF SizesKept, FreeForgotten, FreeReleasesAll, NoLinks
<1>5. Shape'
  <2>1. Blank'
    BY <1>1, <1>2 DEF Blank
  <2>2. (Blank => Shape)'
    BY BlankIsShaped, PTL
  <2> QED BY <2>1, <2>2
<1> QED
  BY <1>3, <1>4, <1>5 DEF IInv

\* Steps that change no bucket: a table made, a call that failed, the steps of a loop.
LEMMA QuietIsGood ==
  ASSUME IInv, UNCHANGED links, UNCHANGED data, UNCHANGED size,
         ht' = ht \/ (ht = "none" /\ ht' \in {"given", "default"}),
         \/ UNCHANGED cursor /\ UNCHANGED pending
         \/ cursor' = listhead /\ pending' = alive \ {listhead}
         \/ cursor # NULL /\ cursor' = listnext[cursor] /\ pending' = pending \ {listnext[cursor]}
  PROVE  IInv'
<1>1. TypeOK /\ SizesKept /\ FreeForgotten /\ FreeReleasesAll /\ Shape
  BY DEF IInv
<1>2. /\ array' = array /\ bucknext' = bucknext /\ listnext' = listnext /\ listprev' = listprev
      /\ listhead' = listhead /\ listtail' = listtail /\ alive' = alive
      /\ data' = data /\ size' = size
  BY DEF links
<1>3. PICK l : Line(l) /\ StillAhead(l) /\ \A h \in Slots : \E s : Chain(h, s) /\ NewerFirst(l, s)
  BY <1>1 DEF Shape
<1>4. Line(l)'
  BY <1>2, <1>3 DEF Line
<1>5. \A h \in Slots : \E s : Chain(h, s)' /\ NewerFirst(l, s)
  BY <1>2, <1>3 DEF Chain
<1>6. StillAhead(l)'
  <2>1. CASE UNCHANGED cursor /\ UNCHANGED pending
    BY <1>3, <2>1 DEF StillAhead
  <2>2. CASE cursor' = listhead /\ pending' = alive \ {listhead}
    BY <1>1, <1>3, <2>2, AheadAfterHead
  <2>3. CASE cursor # NULL /\ cursor' = listnext[cursor] /\ pending' = pending \ {listnext[cursor]}
    BY <1>3, <2>3, AheadAfterNext
  <2> QED BY <2>1, <2>2, <2>3
<1>7. Shape'
  BY <1>4, <1>5, <1>6 DEF Shape, NewerFirst
<1>8. cursor' \in Ptr /\ pending' \subseteq Nodes /\ ht' \in {"none", "given", "default"}
  BY <1>1 DEF TypeOK, Ptr
<1>9. TypeOK'
  BY <1>1, <1>2, <1>8 DEF TypeOK
<1>10. SizesKept' /\ FreeForgotten' /\ FreeReleasesAll'
  BY <1>1, <1>2 DEF SizesKept, FreeForgotten, FreeReleasesAll
<1> QED
  BY <1>7, <1>9, <1>10 DEF IInv

LEMMA StepIsGood == IInv /\ [Next]_vars => IInv'
<1> SUFFICES ASSUME IInv, [Next]_vars PROVE IInv'
  OBVIOUS
<1>1. CASE HashListTableInit \/ HashListTableInitFails \/ HashListTableAddFails
  BY <1>1, QuietIsGood DEF HashListTableInit, HashListTableInitFails, HashListTableAddFails
<1>2. CASE HashListTableGetListHead \/ HashListTableGetListNext
  BY <1>2, QuietIsGood DEF HashListTableGetListHead, HashListTableGetListNext
<1>3. ASSUME NEW n \in Nodes, NEW k \in Keys, HashListTableAdd(n, k) PROVE IInv'
  BY <1>3, AddIsGood
<1>4. ASSUME NEW k \in Keys, HashListTableRemove(k) PROVE IInv'
  <2>1. HashOf[k] \in Slots
    BY HashListAssumption
  <2>2. CASE RemoveMatch(k)
    <3>1. \E w \in Walks(HashOf[k]) : Takes(HashOf[k], w)
      BY <1>4, <2>2 DEF RemoveMatch, HashListTableRemove, Takes
    <3> QED BY <2>1, <3>1, TakeIsGood
  <2>3. CASE RemoveMisses(k)
    BY <1>4, <2>3, ComparedIsGood DEF RemoveMisses, HashListTableRemove
  <2> QED BY <1>4, <2>2, <2>3 DEF HashListTableRemove
<1>5. ASSUME NEW k \in Keys, HashListTableLookup(k) PROVE IInv'
  <2>1. ht' = ht /\ UNCHANGED links /\ UNCHANGED size /\ UNCHANGED cursor /\ UNCHANGED pending
    BY <1>5 DEF HashListTableLookup
  <2>2. data' = data \/ data' = Compared(HashOf[k], k)
    BY <1>5 DEF HashListTableLookup
  <2>3. CASE data' = data
    BY <2>1, <2>3, QuietIsGood
  <2>4. CASE data' = Compared(HashOf[k], k)
    BY <2>1, <2>4, ComparedIsGood
  <2> QED BY <2>2, <2>3, <2>4
<1>6. CASE HashListTableFree
  BY <1>6, FreeIsGood
<1>7. CASE UNCHANGED vars
  <2>1. /\ ht' = ht /\ UNCHANGED links /\ UNCHANGED data /\ UNCHANGED size
        /\ UNCHANGED cursor /\ UNCHANGED pending
    BY <1>7 DEF vars
  <2> QED BY <2>1, QuietIsGood
<1> QED
  BY <1>1, <1>2, <1>3, <1>4, <1>5, <1>6, <1>7 DEF Next

\* The pointers always stand for a line and chains of the same buckets.
THEOREM StructureIsKept == Spec => []IInv
<1>1. Init => IInv
  BY InitIsGood
<1>2. IInv /\ [Next]_vars => IInv'
  BY StepIsGood
<1> QED
  BY <1>1, <1>2, PTL DEF Spec

-----------------------------------------------------------------------------
(* What the invariant says of the table.                                   *)

\* A line has as many elements as there are buckets.
LEMMA LineIsAnOrder ==
  ASSUME TypeOK, NEW l, Line(l)
  PROVE  l \in Orders /\ Len(l) = Cardinality(alive)
<1>1. /\ l \in Seq(Nodes) /\ Len(l) \in Nat /\ Distinct(l)
      /\ \A i \in 1..Len(l) : l[i] \in alive
  BY LineNodes DEF Line
<1>2. \A n \in alive : \E i \in 1..Len(l) : l[i] = n
  BY DEF Line, TypeOK
<1>3. l \in [1..Len(l) -> alive]
  <2>1. l \in [1..Len(l) -> Nodes]
    BY <1>1, LenProperties
  <2> QED BY <1>1, <2>1
<1>4. l \in Bijection(1..Len(l), alive)
  <2>1. l \in Injection(1..Len(l), alive)
    BY <1>1, <1>3 DEF Injection, IsInjective, Distinct
  <2>2. l \in Surjection(1..Len(l), alive)
    BY <1>2, <1>3 DEF Surjection
  <2> QED BY <2>1, <2>2 DEF Bijection
<1>5. Len(l) = Cardinality(alive)
  <2>1. IsFiniteSet(1..Len(l)) /\ Cardinality(1..Len(l)) = Len(l)
    <3>1. \A n \in Nat : IsFiniteSet(1..n) /\ Cardinality(1..n) = n
      BY FS_Interval
    <3> QED BY <1>1, <3>1
  <2> DEFINE I == 1..Len(l)
  <2>2. IsFiniteSet(I) /\ Cardinality(I) = Len(l) /\ ExistsBijection(I, alive)
    BY <1>4, <2>1 DEF ExistsBijection
  <2> HIDE DEF I
  <2> QED BY <2>2, FS_Bijection
<1> QED
  BY <1>1, <1>3, <1>5 DEF Orders, Distinct

\* The list of listhead, listnext, listprev and listtail is one line through all the
\* buckets, the same forwards and backwards, after every call: HashListTableAdd's
\* two cases and HashListTableRemove's two cases keep all four right.
THEOREM ListStaysOneLine == Spec => []ListIsOneLine
<1>1. IInv => ListIsOneLine
  <2> SUFFICES ASSUME IInv PROVE ListIsOneLine
    OBVIOUS
  <2>1. TypeOK /\ Shape
    BY DEF IInv
  <2>2. PICK l : Line(l)
    BY <2>1 DEF Shape
  <2>3. l \in Orders
    BY <2>1, <2>2, LineIsAnOrder
  <2>4. CASE alive = {}
    <3>1. Len(l) = 0
      BY <2>2, <2>4, LineNodes
    <3> QED BY <2>1, <2>2, <2>4, <3>1, LineNodes DEF ListIsOneLine
  <2>5. CASE alive # {}
    <3>1. Len(l) # 0
      <4>1. \E n \in Nodes : n \in alive
        BY <2>1, <2>5 DEF TypeOK
      <4> QED BY <2>2, <4>1, LineNodes
    <3>2. listhead = l[1] /\ listtail = l[Len(l)]
      BY <2>2, <3>1, LineNodes
    <3>3. \A i \in 1..Len(l) : listnext[l[i]] = After(l, i) /\ listprev[l[i]] = Before(l, i)
      BY <2>2 DEF Line
    <3> QED BY <2>1, <2>3, <2>5, <3>2, <3>3 DEF ListIsOneLine
  <2> QED BY <2>4, <2>5
<1> QED
  BY <1>1, StructureIsKept, PTL

\* A bucket is once in the chain of its hash, and in no other.
LEMMA WalksToANode ==
  ASSUME IInv, NEW n \in alive, NEW h \in Slots
  PROVE  Cardinality({w \in Walks(h) : w[Len(w)] = n}) = IF h = HashOf[data[n]] THEN 1 ELSE 0
<1>1. TypeOK /\ Shape /\ n \in Nodes
  BY DEF IInv, TypeOK
<1>2. PICK s : Chain(h, s)
  BY <1>1 DEF Shape
<1>3. Distinct(s) /\ Len(s) \in Nat
  BY <1>2, ChainNodes
<1> DEFINE W == {w \in Walks(h) : w[Len(w)] = n}
<1>4. ASSUME NEW w \in W
      PROVE  /\ Len(w) \in 1..Len(s) /\ s[Len(w)] = n
             /\ w = [i \in 1..Len(w) |-> s[i]]
  <2>1. /\ Len(w) \in 1..Len(s) /\ w = [i \in 1..Len(w) |-> s[i]]
        /\ \A i \in 1..Len(w) : w[i] = s[i]
    BY <1>1, <1>2, WalksArePrefixes
  <2>2. Len(w) \in 1..Len(w)
    BY <1>3, <2>1
  <2> QED BY <2>1, <2>2
<1>5. CASE h = HashOf[data[n]]
  <2>1. PICK w \in W : TRUE
    BY <1>5, EachIsAtAWalk
  <2>2. \A v \in W : v = w
    <3> SUFFICES ASSUME NEW v \in W PROVE v = w
      OBVIOUS
    <3>1. Len(v) = Len(w)
      BY <1>3, <1>4 DEF Distinct
    <3>2. v = [i \in 1..Len(w) |-> s[i]] /\ w = [i \in 1..Len(w) |-> s[i]]
      BY <1>4, <3>1
    <3> QED BY <3>2
  <2>3. W = {w}
    BY <2>1, <2>2
  <2> HIDE DEF W
  <2>4. Cardinality(W) = 1
    BY <2>3, FS_Singleton
  <2> QED BY <1>5, <2>4 DEF W
<1>6. CASE h # HashOf[data[n]]
  <2>1. \A i \in 1..Len(s) : s[i] # n
    BY <1>1, <1>2, <1>6 DEF Chain
  <2>2. W = {}
    BY <1>4, <2>1
  <2> HIDE DEF W
  <2>3. Cardinality(W) = 0
    BY <2>2, FS_EmptySet
  <2> QED BY <1>6, <2>3 DEF W
<1> QED
  BY <1>5, <1>6

\* The chains and the list hold the same buckets: each is once in the chain of its hash
\* and in no other, although DoCompare's memcpy may have overwritten its datum, so that
\* every bucket that can be looked up can be met by a loop over the list.
THEOREM ChainsStayAPartition == Spec => []ChainsPartitionTheList
<1>1. IInv => ChainsPartitionTheList
  <2> SUFFICES ASSUME IInv PROVE ChainsPartitionTheList
    OBVIOUS
  <2>1. \A n \in alive : size[n] = SizeOf[data[n]]
    BY DEF IInv, SizesKept
  <2>2. \A n \in alive, h \in Slots :
          Cardinality({w \in Walks(h) : w[Len(w)] = n}) = IF h = HashOf[data[n]] THEN 1 ELSE 0
    BY WalksToANode
  <2> QED BY <2>1, <2>2 DEF ChainsPartitionTheList
<1> QED
  BY <1>1, StructureIsKept, PTL

\* HashListTableFree walks the chains only, and leaves no bucket of the list behind.
THEOREM FreeLeavesNothing == Spec => []FreeReleasesAll
<1>1. IInv => FreeReleasesAll
  BY DEF IInv
<1> QED
  BY <1>1, StructureIsKept, PTL

\* A caller's loop over HashListTableGetListHead and HashListTableGetListNext, with adds
\* and removals of other buckets between its steps, is at a bucket there is, and when it
\* ends it has met every bucket that was there at its beginning and still is.
THEOREM LoopsMeetAll == Spec => []LoopMeetsAll
<1>1. IInv => LoopMeetsAll
  <2> SUFFICES ASSUME IInv PROVE LoopMeetsAll
    OBVIOUS
  <2>1. PICK l : Line(l) /\ StillAhead(l)
    BY DEF IInv, Shape
  <2>2. \A i \in 1..Len(l) : l[i] \in alive
    BY <2>1, LineNodes
  <2> QED BY <2>1, <2>2 DEF StillAhead, LoopMeetsAll
<1> QED
  BY <1>1, StructureIsKept, PTL

-----------------------------------------------------------------------------
(* With a compare that compares, the table is the OrderedStore.  The       *)
(* store's order is the line of the list's pointers; the newest item of a  *)
(* key is the first of the key in its chain.                               *)

\* The items the line l stands for.
Items(l) == [i \in 1..Len(l) |-> [item |-> l[i], key |-> data[l[i]]]]

ItemsOf(K) == [item : Nodes, key : K]

LEMMA ItemsAreItems ==
  ASSUME NEW l \in Seq(Nodes)
  PROVE  /\ Items(l) \in Seq(ItemsOf({data[n] : n \in Nodes}))
         /\ Len(Items(l)) = Len(l)
         /\ \A i \in 1..Len(l) : Items(l)[i] = [item |-> l[i], key |-> data[l[i]]]
<1> DEFINE K == {data[n] : n \in Nodes}
<1>1. Len(l) \in Nat /\ \A i \in 1..Len(l) : l[i] \in Nodes
  BY LenProperties, ElementOfSeq
<1>2. Items(l) \in [1..Len(l) -> ItemsOf(K)]
  BY <1>1 DEF Items, ItemsOf
<1>3. Items(l) \in Seq(ItemsOf(K))
  BY <1>1, <1>2
<1>4. Len(Items(l)) = Len(l)
  BY <1>1, <1>2, <1>3, LenProperties
<1> QED
  BY <1>3, <1>4 DEF Items

\* The order read along the pointers is that of the line.
LEMMA InOrderIsTheLine == \A l : TypeOK /\ Line(l) => InOrder = Items(l)
<1> SUFFICES ASSUME NEW l, TypeOK, Line(l) PROVE InOrder = Items(l)
  OBVIOUS
<1>1. l \in Seq(Nodes) /\ Len(l) \in Nat /\ l \in Orders /\ Len(l) = Cardinality(alive)
  BY LineNodes, LineIsAnOrder DEF Line
<1>2. CASE alive = {}
  <2>1. Len(l) = 0
    BY <1>1, <1>2, FS_EmptySet
  <2>2. Len(Items(l)) = 0 /\ Items(l) \in Seq(ItemsOf({data[n] : n \in Nodes}))
    BY <1>1, <2>1, ItemsAreItems
  <2>3. Items(l) = <<>>
    <3> DEFINE t == Items(l)
               S == ItemsOf({data[n] : n \in Nodes})
    <3>1. t \in Seq(S) /\ Len(t) = 0
      BY <2>2
    <3> HIDE DEF t, S
    <3>2. t = <<>>
      BY <3>1, EmptySeq
    <3> QED BY <3>2 DEF t
  <2> QED BY <1>2, <2>3 DEF InOrder
<1>3. CASE alive # {}
  <2> DEFINE Follows(s) == s[1] = listhead /\ \A i \in 1..(Len(s) - 1) : s[i + 1] = listnext[s[i]]
  <2>1. Len(l) # 0 /\ listhead = l[1]
    <3>1. Len(l) # 0
      <4>1. \E n \in Nodes : n \in alive
        BY <1>3 DEF TypeOK
      <4> QED BY <4>1, LineNodes
    <3> QED BY <3>1, LineNodes
  <2>2. \A i \in 1..(Len(l) - 1) : l[i + 1] = listnext[l[i]]
    <3> SUFFICES ASSUME NEW i \in 1..(Len(l) - 1) PROVE l[i + 1] = listnext[l[i]]
      OBVIOUS
    <3>1. i \in 1..Len(l) /\ i # Len(l)
      BY <1>1
    <3> QED BY <3>1 DEF Line, After
  <2>3. ASSUME NEW s \in Orders, Follows(s) PROVE s = l
    <3> DEFINE c == Cardinality(alive)
    <3>1. s \in [1..c -> alive] /\ l \in [1..c -> alive] /\ c \in Nat
      BY <1>1 DEF Orders
    <3> HIDE DEF c
    <3>2. Len(s) = c /\ Len(l) = c
      <4>1. s \in Seq(alive) /\ l \in Seq(alive)
        BY <3>1
      <4> QED BY <3>1, <4>1, LenProperties
    <3> DEFINE D == {m \in Nat : m + 1 <= c => s[m + 1] = l[m + 1]}
    <3>3. 0 \in D
      BY <2>1, <2>3
    <3>4. ASSUME NEW m \in Nat, m \in D PROVE m + 1 \in D
      <4> SUFFICES ASSUME (m + 1) + 1 <= c PROVE s[(m + 1) + 1] = l[(m + 1) + 1]
        OBVIOUS
      <4>1. m + 1 \in 1..(c - 1) /\ s[m + 1] = l[m + 1]
        BY <3>1, <3>4
      <4>2. s[(m + 1) + 1] = listnext[s[m + 1]]
        BY <2>3, <3>2, <4>1
      <4>3. l[(m + 1) + 1] = listnext[l[m + 1]]
        BY <2>2, <3>2, <4>1
      <4> QED BY <4>1, <4>2, <4>3
    <3> HIDE DEF D
    <3>5. Nat \subseteq D
      BY <3>3, <3>4, InductionOverPositions
    <3>6. ASSUME NEW i \in 1..c PROVE s[i] = l[i]
      <4>1. i - 1 \in D /\ (i - 1) + 1 = i /\ i <= c
        BY <3>1, <3>5
      <4> QED BY <4>1 DEF D
    <3> QED BY <3>1, <3>6
  <2>4. (CHOOSE s \in Orders :
           s[1] = listhead /\ \A i \in 1..(Len(s) - 1) : s[i + 1] = listnext[s[i]]) = l
    BY <1>1, <2>1, <2>2, <2>3
  <2> QED BY <1>3, <2>4 DEF InOrder, Items
<1> QED BY <1>2, <1>3

\* The same pointers and data, the same order.
LEMMA OrderStays ==
  ASSUME UNCHANGED links, data' = data
  PROVE  InOrder' = InOrder
BY DEF InOrder, links, Orders

LEMMA StoreRemoveAt == \A s, i : Store!RemoveAt(s, i) = RemoveAt(s, i)
BY DEF Store!RemoveAt, RemoveAt

LEMMA StoreMax ==
  ASSUME NEW S, NEW p \in S, \A i \in S : i \in Nat /\ i <= p
  PROVE  Store!Max(S) = p
<1>1. \A x \in S : (\A y \in S : x >= y) => x = p
  OBVIOUS
<1>2. \A y \in S : p >= y
  OBVIOUS
<1>3. (CHOOSE x \in S : \A y \in S : x >= y) = p
  BY <1>1, <1>2
<1> QED
  BY <1>3 DEF Store!Max

\* The newest of a key is the last place of it.
LEMMA NewestIsLast ==
  ASSUME TypeOK, NEW l, Line(l), NEW k
  PROVE  /\ (\A i \in 1..Len(l) : data[l[i]] # k) => Store!Newest(k) = 0
         /\ \A p \in 1..Len(l) :
              data[l[p]] = k /\ (\A i \in 1..Len(l) : data[l[i]] = k => i <= p)
                => Store!Newest(k) = p
<1> DEFINE I == {i \in 1..Len(l) : data[l[i]] = k}
<1>1. l \in Seq(Nodes) /\ Len(l) \in Nat
  BY LineNodes DEF Line
<1>2. /\ InOrder = Items(l) /\ Len(Items(l)) = Len(l)
      /\ \A i \in 1..Len(l) : Items(l)[i].key = data[l[i]]
  <2>1. InOrder = Items(l)
    BY InOrderIsTheLine
  <2>2. /\ Len(Items(l)) = Len(l)
        /\ \A i \in 1..Len(l) : Items(l)[i] = [item |-> l[i], key |-> data[l[i]]]
    BY <1>1, ItemsAreItems
  <2>3. ASSUME NEW i \in 1..Len(l) PROVE Items(l)[i].key = data[l[i]]
    <3>1. Items(l)[i] = [item |-> l[i], key |-> data[l[i]]]
      BY <2>2
    <3> QED BY <3>1
  <2> QED BY <2>1, <2>2, <2>3
<1>3. {i \in 1..Len(InOrder) : InOrder[i].key = k} = I
  <2>1. Len(InOrder) = Len(l) /\ \A i \in 1..Len(l) : InOrder[i].key = data[l[i]]
    BY <1>2
  <2> QED BY <2>1
<1>4. Store!Newest(k) = IF I # {} THEN Store!Max(I) ELSE 0
  BY <1>3 DEF Store!Newest, Store!SelectLastInSeq
<1>5. ASSUME \A i \in 1..Len(l) : data[l[i]] # k
      PROVE  Store!Newest(k) = 0
  BY <1>4, <1>5
<1>6. ASSUME NEW p \in 1..Len(l), data[l[p]] = k,
             \A i \in 1..Len(l) : data[l[i]] = k => i <= p
      PROVE  Store!Newest(k) = p
  <2>1. p \in I /\ \A i \in I : i \in Nat /\ i <= p
    BY <1>1, <1>6
  <2> HIDE DEF I
  <2>2. Store!Max(I) = p
    BY <2>1, StoreMax
  <2> QED BY <1>4, <2>1, <2>2
<1> QED
  BY <1>5, <1>6

-----------------------------------------------------------------------------
(* What a loop along a chain finds.                                        *)

LEMMA EqualIsTheKey ==
  ASSUME IInv, ht # "default", NEW n \in alive, NEW k \in Keys
  PROVE  Equal(n, k) <=> data[n] = k
BY DEF IInv, SizesKept, Equal, DefaultCompare

\* A loop along a chain stops at the first node of the key.
LEMMA FindsTheFirst ==
  ASSUME IInv, ht # "default", NEW k \in Keys, NEW s, Chain(HashOf[k], s)
  PROVE  /\ \A w \in Walks(HashOf[k]) :
              Finds(HashOf[k], k, w) => /\ Len(w) \in 1..Len(s) /\ w[Len(w)] = s[Len(w)]
                                        /\ data[s[Len(w)]] = k
                                        /\ \A i \in 1..Len(s) : i < Len(w) => data[s[i]] # k
         /\ Misses(k) => \A i \in 1..Len(s) : data[s[i]] # k
<1> DEFINE h == HashOf[k]
<1>1. TypeOK /\ h \in Slots
  BY HashListAssumption DEF IInv
<1>2. Len(s) \in Nat /\ \A i \in 1..Len(s) : s[i] \in alive
  BY <1>1, ChainNodes
<1>3. \A i \in 1..Len(s) : Equal(s[i], k) <=> data[s[i]] = k
  BY <1>2, EqualIsTheKey
<1>4. ASSUME NEW w \in Walks(h), Finds(h, k, w)
      PROVE  /\ Len(w) \in 1..Len(s) /\ w[Len(w)] = s[Len(w)] /\ data[s[Len(w)]] = k
             /\ \A i \in 1..Len(s) : i < Len(w) => data[s[i]] # k
  <2>1. Len(w) \in 1..Len(s) /\ \A i \in 1..Len(w) : w[i] = s[i]
    BY <1>1, WalksArePrefixes
  <2>2. Len(w) \in 1..Len(w) /\ \A i \in 1..Len(s) : i < Len(w) => i \in 1..Len(w) /\ i \in 1..(Len(w) - 1)
    BY <1>2, <2>1
  <2>3. Equal(w[Len(w)], k) /\ \A i \in 1..(Len(w) - 1) : ~ Equal(w[i], k)
    BY <1>4 DEF Finds
  <2> QED BY <1>3, <2>1, <2>2, <2>3
<1>5. ASSUME Misses(k), NEW j \in 1..Len(s), data[s[j]] = k
      PROVE  FALSE
  <2> DEFINE D == {i \in 1..Len(s) : data[s[i]] = k}
             q == Min(D)
             w == [i \in 1..q |-> s[i]]
  <2>1. q \in D /\ \A i \in D : q <= i
    <3>1. D \subseteq Nat /\ D # {}
      BY <1>2, <1>5
    <3> HIDE DEF D
    <3> QED BY <3>1, LeastPosition
  <2>2. q \in 1..Len(s) /\ data[s[q]] = k
    BY <2>1
  <2>3. \A i \in 1..Len(s) : i < q => data[s[i]] # k
    <3> SUFFICES ASSUME NEW i \in 1..Len(s), i < q, data[s[i]] = k PROVE FALSE
      OBVIOUS
    <3>1. i \in D
      OBVIOUS
    <3>2. q <= i
      BY <2>1, <3>1
    <3> HIDE DEF q
    <3> QED BY <1>2, <2>2, <3>2
  <2> HIDE DEF q
  <2>4. w \in Walks(h)
    BY <1>1, <2>2, WalksArePrefixes
  <2>5. Len(w) = q /\ \A i \in 1..q : w[i] = s[i]
    <3>1. q \in Nat /\ w \in [1..q -> alive]
      BY <1>2, <2>2
    <3>2. w \in Seq(alive)
      BY <3>1
    <3>3. Len(w) = q
      BY <3>1, <3>2, LenProperties
    <3> QED BY <3>3
  <2> HIDE DEF w
  <2>6. q \in 1..q /\ \A i \in 1..(q - 1) : i \in 1..q /\ i \in 1..Len(s) /\ i < q
    BY <1>2, <2>2
  <2>7. Finds(h, k, w)
    BY <1>3, <2>2, <2>3, <2>4, <2>5, <2>6 DEF Finds, Walks
  <2> QED BY <1>5, <2>4, <2>7 DEF Misses
<1> QED
  BY <1>4, <1>5

\* A line and the chain of a key, with what the invariant says of them.
Parts(l, s, k) ==
  Line(l) /\ StillAhead(l) /\ Chain(HashOf[k], s) /\ NewerFirst(l, s)

LEMMA PartsExist ==
  ASSUME IInv, NEW k \in Keys
  PROVE  \E l, s : Parts(l, s, k)
<1>1. HashOf[k] \in Slots
  BY HashListAssumption
<1> QED
  BY <1>1 DEF IInv, Shape, Parts

\* Every item of a key is in the chain of the key.
LEMMA ItemsAreInTheChain ==
  ASSUME IInv, NEW k \in Keys, NEW l, NEW s, Parts(l, s, k), NEW i \in 1..Len(l), data[l[i]] = k
  PROVE  \E j \in 1..Len(s) : s[j] = l[i]
<1>1. l[i] \in Nodes /\ l[i] \in alive
  BY LineNodes DEF Parts
<1> QED
  BY <1>1 DEF Parts, Chain

\* What the loop finds is the newest item of the key,
LEMMA FoundIsNewest ==
  ASSUME IInv, ht # "default", NEW k \in Keys, NEW w \in Walks(HashOf[k]), Finds(HashOf[k], k, w),
         NEW l, NEW s, Parts(l, s, k)
  PROVE  \E p \in 1..Len(l) : l[p] = w[Len(w)] /\ Store!Newest(k) = p
<1>1. /\ Len(w) \in 1..Len(s) /\ w[Len(w)] = s[Len(w)] /\ data[s[Len(w)]] = k
      /\ \A i \in 1..Len(s) : i < Len(w) => data[s[i]] # k
  BY FindsTheFirst DEF Parts
<1>2. TypeOK /\ HashOf[k] \in Slots /\ Len(l) \in Nat /\ Distinct(l)
  BY HashListAssumption, LineNodes DEF IInv, Parts, Line
<1>3. Len(s) \in Nat /\ \A i \in 1..Len(s) : s[i] \in Nodes /\ s[i] \in alive
  BY <1>2, ChainNodes DEF Parts
<1>4. PICK p \in 1..Len(l) : l[p] = s[Len(w)]
  BY <1>1, <1>3 DEF Parts, Line
<1>5. ASSUME NEW i \in 1..Len(l), data[l[i]] = k PROVE i <= p
  <2>1. PICK j \in 1..Len(s) : s[j] = l[i]
    BY <1>5, ItemsAreInTheChain
  <2>2. ~ (j < Len(w))
    BY <1>1, <1>5, <2>1
  <2>3. CASE j = Len(w)
    BY <1>2, <1>4, <2>1, <2>3 DEF Distinct
  <2>4. CASE j # Len(w)
    <3>1. Len(w) < j
      BY <1>1, <1>3, <2>2, <2>4
    <3>2. i < p
      BY <1>1, <1>4, <2>1, <3>1 DEF Parts, NewerFirst
    <3> QED BY <1>2, <3>2
  <2> QED BY <2>3, <2>4
<1>6. Store!Newest(k) = p
  <2>1. data[l[p]] = k
    BY <1>1, <1>4
  <2> QED BY <1>2, <1>5, <2>1, NewestIsLast DEF Parts
<1> QED
  BY <1>1, <1>4, <1>6

\* and when it finds none, there is none.
LEMMA MissedIsNone ==
  ASSUME IInv, ht # "default", NEW k \in Keys, Misses(k)
  PROVE  Store!Newest(k) = 0
<1>1. PICK l, s : Parts(l, s, k)
  BY PartsExist
<1>2. \A i \in 1..Len(s) : data[s[i]] # k
  BY <1>1, FindsTheFirst DEF Parts
<1>3. \A i \in 1..Len(l) : data[l[i]] # k
  <2> SUFFICES ASSUME NEW i \in 1..Len(l), data[l[i]] = k PROVE FALSE
    OBVIOUS
  <2> QED BY <1>1, <1>2, ItemsAreInTheChain
<1> QED
  BY <1>1, <1>3, NewestIsLast DEF Parts, IInv

LEMMA ComparedIsSame ==
  ASSUME IInv, ht # "default", NEW h, NEW k
  PROVE  Compared(h, k) = data
BY DEF Compared, DefaultCompare, IInv, TypeOK

-----------------------------------------------------------------------------
(* Each call has the effect the store promises.                            *)

OrderIsTheLine == \A l : TypeOK /\ Line(l) => InOrder = Items(l)

LEMMA OrderIsAlwaysTheLine == OrderIsTheLine
BY InOrderIsTheLine DEF OrderIsTheLine

\* A line of the next state, and its items.
LEMMA NextOrder ==
  ASSUME IInv, [Next]_vars, NEW l, Line(l)'
  PROVE  InOrder' = [i \in 1..Len(l) |-> [item |-> l[i], key |-> data'[l[i]]]]
<1>1. TypeOK'
  BY StepIsGood DEF IInv
<1>2. OrderIsTheLine'
  BY OrderIsAlwaysTheLine, PTL
<1> QED
  BY <1>1, <1>2 DEF Items, OrderIsTheLine

LEMMA AddRefines ==
  ASSUME IInv, NEW n \in Nodes, NEW k \in Keys, HashListTableAdd(n, k)
  PROVE  Store!Effect(resp')
<1>1. TypeOK /\ FreeForgotten /\ Next
  BY DEF IInv, Next
<1>2. PICK l, s : Parts(l, s, k)
  BY PartsExist
<1>3. /\ n \in Nodes \ alive /\ LinkList(n) /\ alive' = alive \cup {n}
      /\ data' = [data EXCEPT ![n] = k]
      /\ resp' = [call |-> "add", key |-> k, item |-> n, ret |-> 0]
  BY DEF HashListTableAdd
<1>4. Line(l) /\ l \in Seq(Nodes) /\ Len(l) \in Nat /\ Distinct(l)
  BY <1>2, LineNodes DEF Parts, Line
<1>5. \A i \in 1..Len(l) : l[i] \in Nodes /\ l[i] # n
  BY <1>3, <1>4, LineNodes
<1> DEFINE m == Append(l, n)
           e == [item |-> n, key |-> k]
           o == Items(l)
           S == ItemsOf({data[x] : x \in Nodes} \cup {k})
           f == [i \in 1..Len(m) |-> [item |-> m[i], key |-> data'[m[i]]]]
<1>6. Line(m)'
  BY <1>1, <1>3, <1>4, ListAppends
<1>7. InOrder' = f
  <2> HIDE DEF m
  <2> QED BY <1>1, <1>6, NextOrder
<1>8. InOrder = o
  BY <1>1, <1>4, InOrderIsTheLine
<1>9. /\ Len(m) = Len(l) + 1 /\ m[Len(l) + 1] = n
      /\ \A i \in 1..Len(l) : m[i] = l[i]
  BY <1>4, <1>5, AppendPlaces, <1>3
<1>10. o \in Seq(S) /\ Len(o) = Len(l) /\ e \in S
       /\ \A i \in 1..Len(l) : o[i] = [item |-> l[i], key |-> data[l[i]]]
  <2>1. Len(o) = Len(l) /\ \A i \in 1..Len(l) : o[i] = [item |-> l[i], key |-> data[l[i]]]
    BY <1>4, ItemsAreItems
  <2>2. o \in [1..Len(l) -> S]
    BY <1>5 DEF Items, ItemsOf
  <2>3. o \in Seq(S)
    <3> HIDE DEF o, S
    <3> QED BY <1>4, <2>2
  <2>4. e \in S
    BY <1>3 DEF ItemsOf
  <2> QED BY <2>1, <2>3, <2>4
<1> HIDE DEF m, o, S, e
<1>11. /\ Append(o, e) \in Seq(S) /\ Len(Append(o, e)) = Len(l) + 1
       /\ Append(o, e)[Len(l) + 1] = e
       /\ \A i \in 1..Len(l) : Append(o, e)[i] = o[i]
  BY <1>4, <1>10, AppendProperties
<1>12. ASSUME NEW i \in 1..(Len(l) + 1)
       PROVE  f[i] = Append(o, e)[i]
  <2>1. f[i] = [item |-> m[i], key |-> data'[m[i]]]
    BY <1>9
  <2>2. data \in [Nodes -> Keys \cup {NULL}]
    BY <1>1 DEF TypeOK
  <2>3. CASE i = Len(l) + 1
    <3>1. m[i] = n /\ data'[n] = k
      BY <1>3, <1>9, <2>2, <2>3
    <3> QED BY <1>11, <2>1, <2>3, <3>1 DEF e
  <2>4. CASE i # Len(l) + 1
    <3>1. i \in 1..Len(l)
      BY <1>4, <2>4
    <3>2. m[i] = l[i] /\ data'[l[i]] = data[l[i]]
      BY <1>3, <1>5, <1>9, <2>2, <3>1
    <3>3. Append(o, e)[i] = [item |-> l[i], key |-> data[l[i]]]
      BY <1>10, <1>11, <3>1
    <3> QED BY <2>1, <3>2, <3>3
  <2> QED BY <2>3, <2>4
<1>13. f = Append(o, e)
  <2>1. f = [i \in 1..(Len(l) + 1) |-> f[i]]
    BY <1>9
  <2> DEFINE a == Append(o, e)
  <2>2. a \in Seq(S) /\ Len(a) = Len(l) + 1
    BY <1>11
  <2> HIDE DEF a, f
  <2>3. a = [i \in 1..(Len(l) + 1) |-> a[i]]
    BY <2>2
  <2> QED BY <1>12, <2>1, <2>3 DEF a
<1>14. Store!Add(resp')
  BY <1>3, <1>7, <1>8, <1>13 DEF Store!Add, e
<1> QED
  BY <1>3, <1>14 DEF Store!Effect

LEMMA RemoveMatchRefines ==
  ASSUME IInv, ht # "default", NEW k \in Keys, HashListTableRemove(k), RemoveMatch(k)
  PROVE  Store!Effect(resp')
<1>1. TypeOK /\ Next
  BY DEF IInv, Next
<1>2. PICK w \in Walks(HashOf[k]) :
        /\ Finds(HashOf[k], k, w) /\ UnlinkList(w[Len(w)])
        /\ alive' = alive \ {w[Len(w)]} /\ data' = [data EXCEPT ![w[Len(w)]] = NULL]
  BY DEF RemoveMatch
<1>3. PICK l, s : Parts(l, s, k)
  BY PartsExist
<1>4. PICK p \in 1..Len(l) : l[p] = w[Len(w)] /\ Store!Newest(k) = p
  BY <1>2, <1>3, FoundIsNewest
<1>5. Line(l) /\ l \in Seq(Nodes) /\ Len(l) \in Nat /\ Distinct(l)
  BY <1>3, LineNodes DEF Parts, Line
<1>6. \A i \in 1..Len(l) : l[i] \in Nodes
  BY <1>5, LineNodes
<1>7. /\ UnlinkList(l[p]) /\ alive' = alive \ {l[p]} /\ data' = [data EXCEPT ![l[p]] = NULL]
      /\ resp' = [call |-> "remove", key |-> k, ret |-> 0]
  BY <1>2, <1>4 DEF RemoveMatch
<1> DEFINE m == RemoveAt(l, p)
           o == Items(l)
           S == ItemsOf({data[x] : x \in Nodes})
           r == RemoveAt(o, p)
           f == [i \in 1..Len(m) |-> [item |-> m[i], key |-> data'[m[i]]]]
<1>8. Line(m)'
  BY <1>1, <1>5, <1>7, ListRemoves
<1>9. InOrder' = f
  <2> HIDE DEF m
  <2> QED BY <1>1, <1>8, NextOrder
<1>10. InOrder = o
  BY <1>1, <1>5, InOrderIsTheLine
<1>11. Without(l, m, p)
  BY <1>5, NodesWithout
<1>12. o \in Seq(S) /\ Len(o) = Len(l)
       /\ \A i \in 1..Len(l) : o[i] = [item |-> l[i], key |-> data[l[i]]]
  BY <1>5, ItemsAreItems
<1> HIDE DEF m, o, S
<1>13. /\ r \in Seq(S) /\ Len(r) = Len(l) - 1
       /\ \A i \in 1..(Len(l) - 1) : r[i] = IF i < p THEN o[i] ELSE o[i + 1]
  BY <1>12, RemoveAtProperties
<1>14. Len(m) = Len(l) - 1
  BY <1>11 DEF Without
<1> HIDE DEF r
<1>15. ASSUME NEW i \in 1..Len(m)
       PROVE  f[i] = r[i]
  <2> DEFINE b == OldPlace(p, i)
  <2>1. b \in 1..Len(l) /\ b # p /\ m[i] = l[b]
    BY <1>11 DEF Without
  <2>2. r[i] = o[b]
    BY <1>13, <1>14 DEF OldPlace
  <2> HIDE DEF b
  <2>3. data'[l[b]] = data[l[b]]
    <3>1. l[b] # l[p] /\ l[b] \in Nodes
      BY <1>5, <1>6, <2>1 DEF Distinct
    <3>2. data \in [Nodes -> Keys \cup {NULL}]
      BY <1>1 DEF TypeOK
    <3> QED BY <1>7, <3>1, <3>2
  <2>4. o[b] = [item |-> l[b], key |-> data[l[b]]]
    BY <1>12, <2>1
  <2> QED BY <2>1, <2>2, <2>3, <2>4
<1>16. f = r
  <2>1. f = [i \in 1..Len(m) |-> f[i]]
    OBVIOUS
  <2> HIDE DEF f
  <2>2. r = [i \in 1..Len(m) |-> r[i]]
    BY <1>13, <1>14
  <2> QED BY <1>15, <2>1, <2>2
<1>17. InOrder' = Store!RemoveAt(InOrder, p)
  BY <1>9, <1>10, <1>16, StoreRemoveAt DEF r
<1>18. p # 0
  BY <1>5
<1>19. Store!RemoveNewest(resp')
  BY <1>4, <1>7, <1>17, <1>18 DEF Store!RemoveNewest
<1> QED
  BY <1>7, <1>19 DEF Store!Effect

LEMMA RemoveMissesRefines ==
  ASSUME IInv, ht # "default", NEW k \in Keys, RemoveMisses(k)
  PROVE  Store!Effect(resp')
<1>1. data' = data /\ UNCHANGED links /\ resp' = [call |-> "remove", key |-> k, ret |-> -1]
  BY ComparedIsSame DEF RemoveMisses
<1>2. Store!Newest(k) = 0
  BY MissedIsNone DEF RemoveMisses
<1>3. InOrder' = InOrder
  BY <1>1, OrderStays
<1>4. Store!RemoveNewest(resp')
  BY <1>1, <1>2, <1>3 DEF Store!RemoveNewest
<1> QED
  BY <1>1, <1>4 DEF Store!Effect

LEMMA LookupRefines ==
  ASSUME IInv, ht # "default", NEW k \in Keys, HashListTableLookup(k)
  PROVE  Store!Effect(resp')
<1>1. UNCHANGED links /\ data' = data
  BY ComparedIsSame DEF HashListTableLookup
<1>2. InOrder' = InOrder
  BY <1>1, OrderStays
<1>3. /\ resp'.call = "lookup" /\ resp'.key = k
      /\ resp'.out = IF Store!Newest(k) = 0 THEN NULL ELSE InOrder[Store!Newest(k)].item
  <2>1. ASSUME NEW w \in Walks(HashOf[k]), Finds(HashOf[k], k, w),
               resp' = [call |-> "lookup", key |-> k, out |-> w[Len(w)]]
        PROVE  /\ resp'.call = "lookup" /\ resp'.key = k
               /\ resp'.out = IF Store!Newest(k) = 0 THEN NULL ELSE InOrder[Store!Newest(k)].item
    <3>1. PICK l, s : Parts(l, s, k)
      BY PartsExist
    <3>2. PICK p \in 1..Len(l) : l[p] = w[Len(w)] /\ Store!Newest(k) = p
      BY <2>1, <3>1, FoundIsNewest
    <3>3. l \in Seq(Nodes) /\ Len(l) \in Nat /\ Line(l) /\ TypeOK
      BY <3>1, LineNodes DEF Parts, Line, IInv
    <3>4. InOrder = Items(l)
      BY <3>3, InOrderIsTheLine
    <3>5. Items(l)[p] = [item |-> l[p], key |-> data[l[p]]]
      BY <3>3, ItemsAreItems
    <3>6. InOrder[p].item = w[Len(w)] /\ p # 0
      BY <3>2, <3>3, <3>4, <3>5
    <3> QED BY <2>1, <3>2, <3>6
  <2>2. ASSUME Misses(k), resp' = [call |-> "lookup", key |-> k, out |-> NULL]
        PROVE  /\ resp'.call = "lookup" /\ resp'.key = k
               /\ resp'.out = IF Store!Newest(k) = 0 THEN NULL ELSE InOrder[Store!Newest(k)].item
    BY <2>2, MissedIsNone
  <2> QED BY <2>1, <2>2 DEF HashListTableLookup
<1>4. Store!Lookup(resp')
  BY <1>2, <1>3 DEF Store!Lookup
<1> QED
  BY <1>3, <1>4 DEF Store!Effect

\* The line the pointers stand for, with the order of the store.
LEMMA OrderAndLine ==
  ASSUME IInv
  PROVE  \E l : /\ Line(l) /\ StillAhead(l) /\ Len(InOrder) = Len(l) /\ Len(l) \in Nat
                /\ \A i \in 1..Len(l) : InOrder[i].item = l[i]
                /\ InOrder = <<>> <=> Len(l) = 0
<1>1. PICK l : Line(l) /\ StillAhead(l)
  BY DEF IInv, Shape
<1>2. l \in Seq(Nodes) /\ Len(l) \in Nat /\ TypeOK
  BY <1>1, LineNodes DEF Line, IInv
<1>3. InOrder = Items(l)
  BY <1>1, <1>2, InOrderIsTheLine
<1> DEFINE o == Items(l)
           S == ItemsOf({data[n] : n \in Nodes})
<1>4. o \in Seq(S) /\ Len(o) = Len(l)
      /\ \A i \in 1..Len(l) : o[i] = [item |-> l[i], key |-> data[l[i]]]
  BY <1>2, ItemsAreItems
<1> HIDE DEF o, S
<1>5. o = <<>> <=> Len(l) = 0
  BY <1>4, EmptySeq
<1>6. ASSUME NEW i \in 1..Len(l) PROVE o[i].item = l[i]
  <2>1. o[i] = [item |-> l[i], key |-> data[l[i]]]
    BY <1>4
  <2> QED BY <2>1
<1>7. InOrder = o
  BY <1>3 DEF o
<1> QED
  BY <1>1, <1>2, <1>4, <1>5, <1>6, <1>7

LEMMA LoopRefines ==
  ASSUME IInv, HashListTableGetListHead \/ HashListTableGetListNext
  PROVE  Store!Effect(resp')
<1>1. PICK l : /\ Line(l) /\ StillAhead(l) /\ Len(InOrder) = Len(l) /\ Len(l) \in Nat
               /\ \A i \in 1..Len(l) : InOrder[i].item = l[i]
               /\ InOrder = <<>> <=> Len(l) = 0
  BY OrderAndLine
<1>2. InOrder' = InOrder
  BY OrderStays DEF HashListTableGetListHead, HashListTableGetListNext
<1>3. CASE HashListTableGetListHead
  <2>1. resp' = [call |-> "head", out |-> listhead]
    BY <1>3 DEF HashListTableGetListHead
  <2>2. listhead = IF InOrder = <<>> THEN NULL ELSE InOrder[1].item
    BY <1>1, LineNodes
  <2>3. Store!GetListHead(resp')
    BY <1>2, <2>1, <2>2 DEF Store!GetListHead
  <2> QED BY <2>1, <2>3 DEF Store!Effect
<1>4. CASE HashListTableGetListNext
  <2>1. /\ resp' = [call |-> "next", item |-> cursor, out |-> listnext[cursor]]
        /\ cursor # NULL
    BY <1>4 DEF HashListTableGetListNext
  <2>2. PICK i \in 1..Len(l) : l[i] = cursor
    BY <1>1, <2>1 DEF StillAhead
  <2>3. listnext[cursor] = After(l, i)
    BY <1>1, <2>2 DEF Line
  <2>4. listnext[cursor] = IF i = Len(InOrder) THEN NULL ELSE InOrder[i + 1].item
    <3>1. i # Len(l) => i + 1 \in 1..Len(l)
      BY <1>1
    <3> QED BY <1>1, <2>3, <3>1 DEF After
  <2>5. i \in 1..Len(InOrder) /\ InOrder[i].item = cursor
    BY <1>1, <2>2
  <2>6. Store!GetListNext(resp')
    BY <1>2, <2>1, <2>4, <2>5 DEF Store!GetListNext
  <2> QED BY <2>1, <2>6 DEF Store!Effect
<1> QED
  BY <1>3, <1>4

LEMMA FreeRefines ==
  ASSUME IInv, HashListTableFree
  PROVE  Store!Effect(resp')
<1>1. alive' = {}
  <2>1. \A n \in alive : \E h \in Slots : \E w \in Walks(h) : w[Len(w)] = n
    BY EachIsAtAWalk
  <2> QED BY <2>1 DEF HashListTableFree
<1>2. InOrder' = <<>>
  BY <1>1 DEF InOrder
<1> QED
  BY <1>2 DEF HashListTableFree, Store!Effect

LEMMA StepRefines ==
  IInv /\ [Next]_vars => [ht' # "default" => Store!Effect(resp')]_(Store!vars)
<1> SUFFICES ASSUME IInv, [Next]_vars, ht' # "default", ~ UNCHANGED Store!vars
             PROVE  Store!Effect(resp')
  OBVIOUS
<1>1. CASE HashListTableInit
  <2>1. InOrder' = InOrder /\ resp' = NoResp
    BY <1>1, OrderStays DEF HashListTableInit
  <2> QED BY <2>1 DEF NoResp, Store!Effect
<1>2. CASE HashListTableInitFails
  <2>1. InOrder' = InOrder /\ resp' = [call |-> "init", ret |-> NULL]
    BY <1>2, OrderStays DEF HashListTableInitFails
  <2> QED BY <2>1 DEF Store!Effect
<1>3. CASE HashListTableAddFails
  <2>1. InOrder' = InOrder /\ resp' = [call |-> "add", ret |-> -1]
    BY <1>3, OrderStays DEF HashListTableAddFails
  <2> QED BY <2>1 DEF Store!Effect, Store!Add
<1>4. ASSUME NEW n \in Nodes, NEW k \in Keys, HashListTableAdd(n, k)
      PROVE  Store!Effect(resp')
  BY <1>4, AddRefines
<1>5. ASSUME NEW k \in Keys, HashListTableRemove(k)
      PROVE  Store!Effect(resp')
  <2>1. ht # "default" /\ (RemoveMatch(k) \/ RemoveMisses(k))
    BY <1>5 DEF HashListTableRemove
  <2> QED BY <1>5, <2>1, RemoveMatchRefines, RemoveMissesRefines
<1>6. ASSUME NEW k \in Keys, HashListTableLookup(k)
      PROVE  Store!Effect(resp')
  <2>1. ht # "default"
    BY <1>6 DEF HashListTableLookup
  <2> QED BY <1>6, <2>1, LookupRefines
<1>7. CASE HashListTableGetListHead \/ HashListTableGetListNext
  BY <1>7, LoopRefines
<1>8. CASE HashListTableFree
  BY <1>8, FreeRefines
<1>9. CASE UNCHANGED vars
  <2>1. InOrder' = InOrder /\ resp' = resp
    BY <1>9, OrderStays DEF vars
  <2> QED BY <2>1 DEF Store!vars
<1> QED
  BY <1>1, <1>2, <1>3, <1>4, <1>5, <1>6, <1>7, <1>8, <1>9 DEF Next

\* With a compare that compares, whatever is added, removed, looked up and looped over:
\* the table keeps its items in the order they were added, a removal and a lookup mean
\* the newest item of the key although the chains are searched from their other end, and
\* a loop's step answers the next item there is.
THEOREM RefinesStore == Spec => RefinesOrderedStore
<1>1. Init => Store!Init
  BY DEF Init, InOrder, NoResp, Store!Init
<1>2. Init => IInv
  BY InitIsGood
<1>3. IInv /\ [Next]_vars => IInv'
  BY StepIsGood
<1>4. IInv /\ [Next]_vars => [ht' # "default" => Store!Effect(resp')]_(Store!vars)
  BY StepRefines
<1> QED
  BY <1>1, <1>2, <1>3, <1>4, PTL DEF Spec, RefinesOrderedStore
=============================================================================
