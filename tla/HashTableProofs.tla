--------------------------- MODULE HashTableProofs ---------------------------
(***************************************************************************)
(* For every set of keys, hash function and number of buckets: the table   *)
(* of HashTable holds each object at one place, in the bucket of its hash, *)
(* whatever its compares have overwritten, and with a compare that         *)
(* compares it is the KeyedStore.                                          *)
(***************************************************************************)
EXTENDS HashTable, SequenceLemmas, FiniteSetTheorems

Bucket == [data : Objs, size : Nat]

\* No object is at two places.
HeldAtOnePlace ==
  \A g, h \in Slots : \A i \in 1..Len(array[g]), j \in 1..Len(array[h]) :
    array[g][i].data = array[h][j].data => g = h /\ i = j

\* An object is the table's as long as it is at a place.
OwnedWhileHeld ==
  \A o \in Objs :
    owner[o] = "table" <=> \E h \in Slots : \E i \in 1..Len(array[h]) : array[h][i].data = o

\* The inductive invariant.
IInv == TypeOK /\ BucketHome /\ HeldAtOnePlace /\ OwnedWhileHeld

\* A bucket's chain and its positions.
LEMMA Chains ==
  ASSUME TypeOK, NEW h \in Slots
  PROVE  /\ array[h] \in Seq(Bucket)
         /\ Len(array[h]) \in Nat
         /\ \A i \in 1..Len(array[h]) : array[h][i] \in Bucket
<1>1. array[h] \in Seq(Bucket)
  BY DEF TypeOK, Bucket
<1> QED
  BY <1>1, LenProperties, ElementOfSeq

\* What the program relies on is held in the beginning and after a free.
LEMMA EmptyIsGood ==
  ASSUME array' = EmptyArray, ht' \in {"none", "given", "default"},
         content' \in [Objs -> Keys], given' \in [Objs -> Keys],
         owner' \in [Objs -> {"caller", "freed"}]
  PROVE  IInv'
<1>1. array' \in [Slots -> Seq([data : Objs, size : Nat])]
  BY EmptySeq DEF EmptyArray
<1>2. \A h \in Slots : Len(array'[h]) = 0
  BY EmptySeq DEF EmptyArray
<1>3. \A h \in Slots : 1..Len(array'[h]) = {}
  BY <1>2
<1>4. \A o \in Objs : owner'[o] # "table"
  OBVIOUS
<1> QED
  BY <1>1, <1>3, <1>4 DEF IInv, TypeOK, BucketHome, HeldAtOnePlace, OwnedWhileHeld

\* The compares of a walk overwrite the walked entries of the probe's size with a key
\* that is at home in the same bucket.
LEMMA ComparedIsGood ==
  ASSUME IInv, NEW k \in Keys, HashOf[k] \in Slots,
         content' \in {content, Compared(array[HashOf[k]], k)},
         ht' \in {"none", "given", "default"}, UNCHANGED <<array, given, owner>>
  PROVE  IInv'
<1>1. SizeOf[k] \in Nat /\ content \in [Objs -> Keys]
  BY HashTableAssumption DEF IInv, TypeOK
<1>2. content' \in [Objs -> Keys]
  BY <1>1 DEF Compared
<1>3. ASSUME NEW h \in Slots, NEW i \in 1..Len(array[h])
      PROVE  /\ HashOf[content'[array[h][i].data]] = h
             /\ array[h][i].size = SizeOf[content'[array[h][i].data]]
  <2> DEFINE hb == array[h][i]
  <2>1. hb \in Bucket /\ hb.data \in Objs
    BY Chains DEF IInv, Bucket
  <2>2. HashOf[content[hb.data]] = h /\ hb.size = SizeOf[content[hb.data]]
    BY DEF IInv, BucketHome
  <2>3. CASE content'[hb.data] = content[hb.data]
    BY <2>2, <2>3
  <2>4. CASE content'[hb.data] # content[hb.data]
    <3>1. PICK j \in 1..Len(array[HashOf[k]]) :
            array[HashOf[k]][j] = [data |-> hb.data, size |-> SizeOf[k]]
      BY <2>1, <2>4 DEF Compared
    <3>2. content'[hb.data] = k
      BY <2>1, <2>4 DEF Compared
    <3>3. array[HashOf[k]][j].data = hb.data /\ array[HashOf[k]][j].size = SizeOf[k]
      BY <3>1
    <3>4. h = HashOf[k] /\ i = j
      BY <3>3 DEF IInv, HeldAtOnePlace
    <3> QED BY <3>2, <3>3, <3>4
  <2> QED BY <2>3, <2>4
<1>4. array' = array /\ given' = given /\ owner' = owner
  OBVIOUS
<1>5. TypeOK'
  BY <1>2, <1>4 DEF IInv, TypeOK
<1>6. BucketHome'
  BY <1>3, <1>4 DEF BucketHome
<1> QED
  BY <1>4, <1>5, <1>6 DEF IInv, HeldAtOnePlace, OwnedWhileHeld

LEMMA AddIsGood ==
  ASSUME IInv, NEW o \in Objs, NEW k \in Keys, HashTableAdd(o, k)
  PROVE  IInv'
<1> DEFINE g == HashOf[k]
           e == [data |-> o, size |-> SizeOf[k]]
<1>1. g \in Slots /\ e \in Bucket
  BY HashTableAssumption DEF HashTableAdd, Slots, Bucket
<1>2. array \in [Slots -> Seq(Bucket)] /\ array[g] \in Seq(Bucket) /\ Len(array[g]) \in Nat
  BY <1>1, Chains DEF IInv, TypeOK, Bucket
<1> DEFINE t == <<e>> \o array[g]
<1>3. /\ t \in Seq(Bucket) /\ Len(t) = Len(array[g]) + 1
      /\ \A i \in 1..(Len(array[g]) + 1) : t[i] = IF i = 1 THEN e ELSE array[g][i - 1]
  BY <1>1, <1>2, PushFrontProperties
<1>4. /\ array' = [array EXCEPT ![g] = t]
      /\ content' = [content EXCEPT ![o] = k]
      /\ given' = [given EXCEPT ![o] = k]
      /\ owner' = [owner EXCEPT ![o] = "table"]
      /\ owner[o] # "table" /\ ht' = ht
  BY DEF HashTableAdd, PushFront
<1> HIDE DEF t
<1>5. TypeOK'
  <2>1. array' \in [Slots -> Seq(Bucket)]
    BY <1>1, <1>2, <1>3, <1>4
  <2> QED BY <1>4, <2>1 DEF IInv, TypeOK, Bucket
\* Where what is at a place after the add was before.
<1> DEFINE New(h, i) == h = g /\ i = 1
           old(h, i) == IF h = g THEN i - 1 ELSE i
<1>6. ASSUME NEW h \in Slots, NEW i \in 1..Len(array'[h])
      PROVE  \/ New(h, i) /\ array'[h][i] = e
             \/ /\ ~ New(h, i) /\ old(h, i) \in 1..Len(array[h])
                /\ array'[h][i] = array[h][old(h, i)]
  <2>1. CASE h # g
    BY <1>2, <1>4, <2>1
  <2>2. CASE h = g
    <3>1. array'[h] = t
      BY <1>1, <1>2, <1>4, <2>2
    <3> QED BY <1>2, <1>3, <2>2, <3>1
  <2> QED BY <2>1, <2>2
<1>7. ASSUME NEW h \in Slots, NEW i \in 1..Len(array[h])
      PROVE  array[h][i].data \in Objs /\ array[h][i].data # o
  <2>1. array[h][i].data \in Objs
    BY Chains DEF IInv, Bucket
  <2> QED BY <1>4, <2>1 DEF IInv, OwnedWhileHeld
<1>8. e.data = o /\ e.size = SizeOf[k]
  OBVIOUS
<1> HIDE DEF e
<1>9. BucketHome'
  <2> SUFFICES ASSUME NEW h \in Slots, NEW i \in 1..Len(array'[h])
               PROVE  /\ HashOf[content'[array'[h][i].data]] = h
                      /\ array'[h][i].size = SizeOf[content'[array'[h][i].data]]
    BY DEF BucketHome
  <2>1. CASE New(h, i)
    <3>1. array'[h][i] = e /\ content'[o] = k
      BY <1>4, <1>6, <2>1 DEF IInv, TypeOK
    <3> QED BY <1>8, <2>1, <3>1
  <2>2. CASE ~ New(h, i)
    <3>1. old(h, i) \in 1..Len(array[h]) /\ array'[h][i] = array[h][old(h, i)]
      BY <1>6, <2>2
    <3> DEFINE j == old(h, i)
    <3> HIDE DEF j
    <3>2. j \in 1..Len(array[h]) /\ array'[h][i] = array[h][j]
      BY <3>1 DEF j
    <3>3. content'[array[h][j].data] = content[array[h][j].data]
      BY <1>4, <1>7, <3>2 DEF IInv, TypeOK
    <3>4. /\ HashOf[content[array[h][j].data]] = h
          /\ array[h][j].size = SizeOf[content[array[h][j].data]]
      BY <3>2 DEF IInv, BucketHome
    <3> QED BY <3>2, <3>3, <3>4
  <2> QED BY <2>1, <2>2
<1>10. HeldAtOnePlace'
  <2> SUFFICES ASSUME NEW f \in Slots, NEW h \in Slots,
                      NEW i \in 1..Len(array'[f]), NEW j \in 1..Len(array'[h]),
                      array'[f][i].data = array'[h][j].data
               PROVE  f = h /\ i = j
    BY DEF HeldAtOnePlace
  <2>1. CASE New(f, i) /\ New(h, j)
    BY <2>1
  <2>2. CASE New(f, i) /\ ~ New(h, j)
    <3>1. array'[h][j] = array[h][old(h, j)] /\ old(h, j) \in 1..Len(array[h])
      BY <1>6, <2>2
    <3>2. array'[f][i].data = o /\ array'[h][j].data # o
      BY <1>6, <1>7, <1>8, <2>2, <3>1
    <3> QED BY <3>2
  <2>3. CASE ~ New(f, i) /\ New(h, j)
    <3>1. array'[f][i] = array[f][old(f, i)] /\ old(f, i) \in 1..Len(array[f])
      BY <1>6, <2>3
    <3>2. array'[h][j].data = o /\ array'[f][i].data # o
      BY <1>6, <1>7, <1>8, <2>3, <3>1
    <3> QED BY <3>2
  <2>4. CASE ~ New(f, i) /\ ~ New(h, j)
    <3>1. /\ old(f, i) \in 1..Len(array[f]) /\ array'[f][i] = array[f][old(f, i)]
          /\ old(h, j) \in 1..Len(array[h]) /\ array'[h][j] = array[h][old(h, j)]
      BY <1>6, <2>4
    <3>2. f = h /\ old(f, i) = old(h, j)
      BY <3>1 DEF IInv, HeldAtOnePlace
    <3> QED BY <3>2
  <2> QED BY <2>1, <2>2, <2>3, <2>4
<1>11. OwnedWhileHeld'
  <2> SUFFICES ASSUME NEW p \in Objs
               PROVE  owner'[p] = "table"
                        <=> \E h \in Slots : \E i \in 1..Len(array'[h]) : array'[h][i].data = p
    BY DEF OwnedWhileHeld
  <2>1. CASE p = o
    <3>1. 1 \in 1..Len(array'[g]) /\ array'[g][1].data = o
      <4>1. array'[g] = t
        BY <1>1, <1>2, <1>4
      <4> QED BY <1>2, <1>3, <1>8, <4>1
    <3>2. owner'[p] = "table"
      BY <1>4, <2>1 DEF IInv, TypeOK
    <3> QED BY <1>1, <2>1, <3>1, <3>2
  <2>2. CASE p # o
    <3>1. owner'[p] = owner[p]
      BY <1>4, <2>2 DEF IInv, TypeOK
    <3>2. ASSUME NEW h \in Slots, NEW i \in 1..Len(array'[h]), array'[h][i].data = p
          PROVE  owner[p] = "table"
      <4>1. array'[h][i] = array[h][old(h, i)] /\ old(h, i) \in 1..Len(array[h])
        BY <1>6, <1>8, <2>2, <3>2
      <4> QED BY <3>2, <4>1 DEF IInv, OwnedWhileHeld
    <3>3. ASSUME NEW h \in Slots, NEW i \in 1..Len(array[h]), array[h][i].data = p
          PROVE  \E j \in 1..Len(array'[h]) : array'[h][j].data = p
      <4>1. CASE h # g
        BY <1>2, <1>4, <3>3, <4>1
      <4>2. CASE h = g
        <5>1. array'[h] = t
          BY <1>1, <1>2, <1>4, <4>2
        <5>2. i + 1 \in 1..Len(t) /\ t[i + 1] = array[g][i]
          BY <1>2, <1>3, <4>2
        <5> QED BY <3>3, <4>2, <5>1, <5>2
      <4> QED BY <4>1, <4>2
    <3> QED BY <3>1, <3>2, <3>3 DEF IInv, OwnedWhileHeld
  <2> QED BY <2>1, <2>2
<1> QED
  BY <1>5, <1>9, <1>10, <1>11 DEF IInv

\* Any entry of any chain may go: what else is at a place was at a place before.
LEMMA DropIsGood ==
  ASSUME IInv, NEW g \in Slots, NEW q \in 1..Len(array[g]), Drop(g, q),
         UNCHANGED <<ht, content, given>>
  PROVE  IInv'
<1> DEFINE x == array[g][q].data
           t == RemoveAt(array[g], q)
<1>1. /\ array \in [Slots -> Seq(Bucket)] /\ array[g] \in Seq(Bucket)
      /\ Len(array[g]) \in Nat /\ x \in Objs
  BY Chains DEF IInv, TypeOK, Bucket
<1>2. /\ t \in Seq(Bucket) /\ Len(t) = Len(array[g]) - 1
      /\ \A i \in 1..(Len(array[g]) - 1) :
           t[i] = IF i < q THEN array[g][i] ELSE array[g][i + 1]
  BY <1>1, RemoveAtProperties
<1>3. /\ array' = [array EXCEPT ![g] = t]
      /\ owner' = [owner EXCEPT ![x] = Released]
      /\ ht' = ht /\ content' = content /\ given' = given
  BY DEF Drop
<1>4. Released \in {"caller", "freed"}
  BY DEF Released
<1> HIDE DEF t, x
<1>5. TypeOK'
  BY <1>1, <1>2, <1>3, <1>4 DEF IInv, TypeOK, Bucket
<1> DEFINE old(h, i) == IF h = g /\ i >= q THEN i + 1 ELSE i
<1>6. ASSUME NEW h \in Slots, NEW i \in 1..Len(array'[h])
      PROVE  /\ old(h, i) \in 1..Len(array[h]) /\ array'[h][i] = array[h][old(h, i)]
             /\ h # g \/ old(h, i) # q
  <2>1. CASE h # g
    BY <1>1, <1>3, <2>1
  <2>2. CASE h = g
    <3>1. array'[h] = t
      BY <1>1, <1>3, <2>2
    <3> QED BY <1>1, <1>2, <2>2, <3>1
  <2> QED BY <2>1, <2>2
<1>7. ASSUME NEW h \in Slots, NEW i \in 1..Len(array'[h])
      PROVE  array'[h][i].data \in Objs /\ array'[h][i].data # x
  <2>1. array'[h][i] = array[h][old(h, i)] /\ old(h, i) \in 1..Len(array[h])
    BY <1>6
  <2>2. array[h][old(h, i)].data \in Objs
    BY <2>1, Chains DEF IInv, Bucket
  <2>3. array[h][old(h, i)].data # array[g][q].data
    BY <1>6, <2>1 DEF IInv, HeldAtOnePlace
  <2> QED BY <2>1, <2>2, <2>3 DEF x
<1>8. BucketHome'
  <2> SUFFICES ASSUME NEW h \in Slots, NEW i \in 1..Len(array'[h])
               PROVE  /\ HashOf[content[array'[h][i].data]] = h
                      /\ array'[h][i].size = SizeOf[content[array'[h][i].data]]
    BY <1>3 DEF BucketHome
  <2>1. array'[h][i] = array[h][old(h, i)] /\ old(h, i) \in 1..Len(array[h])
    BY <1>6
  <2> HIDE DEF old
  <2> QED BY <2>1 DEF IInv, BucketHome
<1>9. HeldAtOnePlace'
  <2> SUFFICES ASSUME NEW f \in Slots, NEW h \in Slots,
                      NEW i \in 1..Len(array'[f]), NEW j \in 1..Len(array'[h]),
                      array'[f][i].data = array'[h][j].data
               PROVE  f = h /\ i = j
    BY DEF HeldAtOnePlace
  <2>1. /\ old(f, i) \in 1..Len(array[f]) /\ array'[f][i] = array[f][old(f, i)]
        /\ old(h, j) \in 1..Len(array[h]) /\ array'[h][j] = array[h][old(h, j)]
    BY <1>6
  <2>2. f = h /\ old(f, i) = old(h, j)
    BY <2>1 DEF IInv, HeldAtOnePlace
  <2> QED BY <1>1, <2>2
<1>10. OwnedWhileHeld'
  <2> SUFFICES ASSUME NEW p \in Objs
               PROVE  owner'[p] = "table"
                        <=> \E h \in Slots : \E i \in 1..Len(array'[h]) : array'[h][i].data = p
    BY DEF OwnedWhileHeld
  <2>1. CASE p = x
    <3>1. owner'[p] # "table"
      BY <1>1, <1>3, <1>4, <2>1 DEF IInv, TypeOK
    <3> QED BY <1>7, <2>1, <3>1
  <2>2. CASE p # x
    <3>1. owner'[p] = owner[p]
      BY <1>3, <2>2 DEF IInv, TypeOK
    <3>2. ASSUME NEW h \in Slots, NEW i \in 1..Len(array'[h]), array'[h][i].data = p
          PROVE  owner[p] = "table"
      BY <1>6, <3>2 DEF IInv, OwnedWhileHeld
    <3>3. ASSUME NEW h \in Slots, NEW i \in 1..Len(array[h]), array[h][i].data = p
          PROVE  \E j \in 1..Len(array'[h]) : array'[h][j].data = p
      <4>1. CASE h # g
        BY <1>1, <1>3, <3>3, <4>1
      <4>2. CASE h = g
        <5> DEFINE j == IF i < q THEN i ELSE i - 1
        <5>1. array'[h] = t /\ i # q
          BY <1>1, <1>3, <2>2, <3>3, <4>2 DEF x
        <5>2. j \in 1..Len(t) /\ t[j] = array[g][i]
          BY <1>1, <1>2, <4>2, <5>1
        <5> QED BY <3>3, <4>2, <5>1, <5>2
      <4> QED BY <4>1, <4>2
    <3> QED BY <3>1, <3>2, <3>3 DEF IInv, OwnedWhileHeld
  <2> QED BY <2>1, <2>2
<1> QED
  BY <1>5, <1>8, <1>9, <1>10 DEF IInv

\* The entry a walk stops at is one of the chain.
LEMMA MatchIsInChain ==
  ASSUME TypeOK, NEW h \in Slots, NEW k, FirstMatch(array[h], k) # 0
  PROVE  FirstMatch(array[h], k) \in 1..Len(array[h])
<1> DEFINE I == {i \in 1..Len(array[h]) : Equal(array[h][i], k)}
<1>1. I # {} /\ I \subseteq Nat /\ FirstMatch(array[h], k) = Min(I)
  BY Chains DEF FirstMatch, SelectInSeq
<1>2. Min(I) \in I
  BY <1>1, LeastPosition
<1> QED
  BY <1>1, <1>2

LEMMA InitIsGood == Init => IInv
<1> SUFFICES ASSUME Init PROVE IInv
  OBVIOUS
<1>1. array \in [Slots -> Seq([data : Objs, size : Nat])]
  BY EmptySeq DEF Init, EmptyArray
<1>2. \A h \in Slots : Len(array[h]) = 0
  BY EmptySeq DEF Init, EmptyArray
<1>3. \A h \in Slots : 1..Len(array[h]) = {}
  BY <1>2
<1>4. \A o \in Objs : owner[o] # "table"
  BY DEF Init
<1> QED
  BY <1>1, <1>3, <1>4 DEF Init, IInv, TypeOK, BucketHome, HeldAtOnePlace, OwnedWhileHeld

\* The rest leaves the table alone.
LEMMA SameIsGood ==
  ASSUME IInv, ht' \in {"none", "given", "default"},
         array' = array, content' = content, given' = given, owner' = owner
  PROVE  IInv'
<1>1. TypeOK'
  BY DEF IInv, TypeOK
<1>2. BucketHome'
  BY DEF IInv, BucketHome
<1>3. HeldAtOnePlace' /\ OwnedWhileHeld'
  BY DEF IInv, HeldAtOnePlace, OwnedWhileHeld
<1> QED
  BY <1>1, <1>2, <1>3 DEF IInv

LEMMA StepIsGood == IInv /\ [Next]_vars => IInv'
<1> SUFFICES ASSUME IInv, [Next]_vars
             PROVE  IInv'
  OBVIOUS
<1>1. CASE HashTableInit \/ HashTableInitFails \/ HashTableAddFails \/ UNCHANGED vars
  <2>1. /\ array' = array /\ content' = content /\ given' = given /\ owner' = owner
        /\ ht' \in {"none", "given", "default"}
    BY <1>1 DEF HashTableInit, HashTableInitFails, HashTableAddFails, vars, IInv, TypeOK
  <2> QED BY <2>1, SameIsGood
<1>2. ASSUME NEW o \in Objs, NEW k \in Keys, HashTableAdd(o, k) PROVE IInv'
  BY <1>2, AddIsGood
<1>3. ASSUME NEW k \in Keys, HashTableRemove(k) PROVE IInv'
  <2> DEFINE h == HashOf[k]
  <2>1. h \in Slots
    BY <1>3, HashTableAssumption DEF HashTableRemove, Slots
  <2>2. ht' = ht /\ given' = given
    BY <1>3 DEF HashTableRemove
  <2>3. CASE RemoveOnly(h, k)
    <3>1. 1 \in 1..Len(array[h]) /\ Drop(h, 1) /\ content' = content
      BY <2>3 DEF RemoveOnly
    <3> QED BY <2>1, <2>2, <3>1, DropIsGood
  <2>4. CASE RemoveMatch(h, k)
    <3>1. Drop(h, FirstMatch(array[h], k)) /\ content' = content
      BY <2>4 DEF RemoveMatch
    <3>2. FirstMatch(array[h], k) \in 1..Len(array[h])
      BY <2>1, <2>4, MatchIsInChain DEF RemoveMatch, IInv
    <3> QED BY <2>1, <2>2, <3>1, <3>2, DropIsGood
  <2>5. CASE RemoveMisses(h, k)
    <3>1. content' = Compared(array[h], k) /\ array' = array /\ owner' = owner
      BY <2>5 DEF RemoveMisses
    <3> QED BY <2>1, <2>2, <3>1, ComparedIsGood DEF IInv, TypeOK
  <2> QED BY <1>3, <2>3, <2>4, <2>5 DEF HashTableRemove
<1>4. ASSUME NEW k \in Keys, HashTableLookup(k) PROVE IInv'
  <2>1. ht' = ht /\ array' = array /\ given' = given /\ owner' = owner
    BY <1>4 DEF HashTableLookup
  <2>2. CASE content' = content
    BY <2>1, <2>2, SameIsGood DEF IInv, TypeOK
  <2>3. CASE content' # content
    <3>1. HashOf[k] \in Slots /\ content' = Compared(array[HashOf[k]], k)
      BY <1>4, <2>3, HashTableAssumption DEF HashTableLookup, Slots
    <3> QED BY <2>1, <3>1, ComparedIsGood DEF IInv, TypeOK
  <2> QED BY <2>2, <2>3
<1>5. CASE HashTableFree
  <2>1. /\ ht' = "none" /\ array' = EmptyArray /\ content' = content /\ given' = given
        /\ owner' = [o \in Objs |->
             IF \E h \in Slots : \E i \in 1..Len(array[h]) : array[h][i].data = o
             THEN Released ELSE owner[o]]
    BY <1>5 DEF HashTableFree
  <2>2. ASSUME NEW o \in Objs PROVE owner'[o] \in {"caller", "freed"}
    BY <2>1 DEF IInv, TypeOK, OwnedWhileHeld, Released
  <2>3. owner' \in [Objs -> {"caller", "freed"}]
    BY <2>1, <2>2
  <2> QED BY <2>1, <2>3, EmptyIsGood DEF IInv, TypeOK
<1> QED
  BY <1>1, <1>2, <1>3, <1>4, <1>5 DEF Next

\* Type correctness, of every behaviour of the table.
THEOREM TypeCorrect == Spec => []TypeOK
<1>1. Init => IInv
  BY InitIsGood
<1>2. IInv /\ [Next]_vars => IInv'
  BY StepIsGood
<1>3. IInv => TypeOK
  BY DEF IInv
<1> QED
  BY <1>1, <1>2, <1>3, PTL DEF Spec

\* No entry ever leaves the bucket its datum hashes to, although the default compare
\* overwrites the data: a lookup or remove of what is stored looks in the right chain.
THEOREM BucketsAreHome == Spec => []BucketHome
<1>1. Init => IInv
  BY InitIsGood
<1>2. IInv /\ [Next]_vars => IInv'
  BY StepIsGood
<1>3. IInv => BucketHome
  BY DEF IInv
<1> QED
  BY <1>1, <1>2, <1>3, PTL DEF Spec

\* A chain is no longer than there are objects, as no object is in it twice.
LEMMA ChainsAreShort ==
  ASSUME IInv, NEW h \in Slots
  PROVE  Len(array[h]) <= Cardinality(Objs)
<1> DEFINE f == [i \in 1..Len(array[h]) |-> array[h][i].data]
<1>1. Len(array[h]) \in Nat /\ \A i \in 1..Len(array[h]) : array[h][i].data \in Objs
  BY Chains DEF IInv, Bucket
<1>2. f \in Injection(1..Len(array[h]), Objs)
  BY <1>1 DEF IInv, HeldAtOnePlace, Injection, IsInjective
<1>3. Cardinality(1..Len(array[h])) <= Cardinality(Objs)
  BY <1>2, FS_Injection, HashTableAssumption
<1>4. \A n \in Nat : Cardinality(1..n) = n
  BY FS_Interval
<1>5. Cardinality(1..Len(array[h])) = Len(array[h])
  BY <1>1, <1>4
<1> QED
  BY <1>3, <1>5

LEMMA PlacesCounted == IInv => HeldOnce
<1> SUFFICES ASSUME IInv, NEW o \in Objs
             PROVE  Cardinality(Places(o)) = IF owner[o] = "table" THEN 1 ELSE 0
  BY DEF HeldOnce
<1>1. Cardinality(Objs) \in Nat
  BY FS_CardinalityType, HashTableAssumption
<1>2. CASE owner[o] = "table"
  <2>0. PICK h \in Slots : \E i \in 1..Len(array[h]) : array[h][i].data = o
    BY <1>2 DEF IInv, OwnedWhileHeld
  <2>1. PICK i \in 1..Len(array[h]) : array[h][i].data = o
    BY <2>0
  <2>2. Len(array[h]) \in Nat /\ Len(array[h]) <= Cardinality(Objs)
    BY Chains, ChainsAreShort DEF IInv
  <2>3. <<h, i>> \in Places(o)
    BY <1>1, <2>1, <2>2 DEF Places
  <2>4. ASSUME NEW p \in Places(o) PROVE p = <<h, i>>
    <3>1. /\ p \in Slots \X (1..Cardinality(Objs)) /\ p[2] <= Len(array[p[1]])
          /\ array[p[1]][p[2]].data = o
      BY DEF Places
    <3>2. p[1] \in Slots /\ p[2] \in 1..Len(array[p[1]]) /\ p = <<p[1], p[2]>>
      <4>1. p[1] \in Slots /\ p[2] \in 1..Cardinality(Objs) /\ p = <<p[1], p[2]>>
        BY <3>1
      <4>2. Len(array[p[1]]) \in Nat
        BY <4>1, Chains DEF IInv
      <4> QED BY <1>1, <3>1, <4>1, <4>2
    <3>3. p[1] = h /\ p[2] = i
      BY <2>1, <3>1, <3>2 DEF IInv, HeldAtOnePlace
    <3> QED BY <3>2, <3>3
  <2>5. Places(o) = {<<h, i>>}
    BY <2>3, <2>4
  <2> QED BY <1>2, <2>5, FS_Singleton
<1>3. CASE owner[o] # "table"
  <2>1. ASSUME NEW p \in Places(o) PROVE FALSE
    <3>1. /\ p[1] \in Slots /\ p[2] \in 1..Cardinality(Objs) /\ p[2] <= Len(array[p[1]])
          /\ array[p[1]][p[2]].data = o
      BY DEF Places
    <3>2. Len(array[p[1]]) \in Nat
      BY <3>1, Chains DEF IInv
    <3>3. p[2] \in 1..Len(array[p[1]])
      BY <1>1, <3>1, <3>2
    <3> QED BY <1>3, <3>1, <3>3 DEF IInv, OwnedWhileHeld
  <2>2. Places(o) = {}
    BY <2>1
  <2> QED BY <1>3, <2>2, FS_EmptySet
<1> QED
  BY <1>2, <1>3

\* The table holds each object it was given once and none it has released, whatever is
\* added and removed in whatever order: Free meets no object twice, and none is lost.
THEOREM EachIsHeldOnce == Spec => []HeldOnce
<1>1. Init => IInv
  BY InitIsGood
<1>2. IInv /\ [Next]_vars => IInv'
  BY StepIsGood
<1>3. IInv => HeldOnce
  BY PlacesCounted
<1> QED
  BY <1>1, <1>2, <1>3, PTL DEF Spec

-----------------------------------------------------------------------------
(* With a compare that compares, the table is the KeyedStore, up to the    *)
(* eviction.  The objects of a key are the part of one chain that Holding  *)
(* tallies.                                                                *)

\* f is what Holding tallies along the chain s.
Tally(f, c, s, k) ==
  f = [i \in 0..Len(s) |->
         IF i = 0 THEN <<>>
         ELSE IF c[s[i].data] = k THEN Append(f[i - 1], s[i].data) ELSE f[i - 1]]

\* The tally exists, so Holding is what its recursion says.
LEMMA TallyExists ==
  ASSUME NEW c, NEW s \in Seq(Bucket), NEW k
  PROVE  \E f : Tally(f, c, s, k) /\ Holding(c, s, k) = f[Len(s)]
<1>0. Len(s) \in Nat
  BY LenProperties
<1> DEFINE IsTally(f, n) ==
             f = [i \in 0..n |->
                    IF i = 0 THEN <<>>
                    ELSE IF c[s[i].data] = k THEN Append(f[i - 1], s[i].data) ELSE f[i - 1]]
           S == {n \in Nat : \E f : IsTally(f, n)}
<1>1. 0 \in S
  <2>1. IsTally([i \in 0..0 |-> <<>>], 0)
    OBVIOUS
  <2> QED BY <2>1
<1>2. ASSUME NEW n \in Nat, n \in S PROVE n + 1 \in S
  <2>1. PICK f : IsTally(f, n)
    BY <1>2
  <2>0. /\ f[0] = <<>>
        /\ \A i \in 1..n :
             f[i] = IF c[s[i].data] = k THEN Append(f[i - 1], s[i].data) ELSE f[i - 1]
    <3>1. \A i \in 0..n :
            f[i] = IF i = 0 THEN <<>>
                   ELSE IF c[s[i].data] = k THEN Append(f[i - 1], s[i].data) ELSE f[i - 1]
      BY <2>1, Zenon
    <3>2. 0 \in 0..n /\ \A i \in 1..n : i \in 0..n /\ i # 0
      OBVIOUS
    <3> QED BY <3>1, <3>2, Zenon
  <2> DEFINE g == [i \in 0..(n + 1) |->
                     IF i <= n THEN f[i]
                     ELSE IF c[s[i].data] = k THEN Append(f[i - 1], s[i].data) ELSE f[i - 1]]
  <2>2. ASSUME NEW i \in 0..(n + 1)
        PROVE  g[i] = IF i = 0 THEN <<>>
                      ELSE IF c[s[i].data] = k THEN Append(g[i - 1], s[i].data) ELSE g[i - 1]
    <3>1. CASE i = 0
      BY <2>0, <3>1
    <3>2. CASE i \in 1..n
      <4>1. g[i] = f[i] /\ g[i - 1] = f[i - 1] /\ i # 0
        BY <3>2
      <4> HIDE DEF g
      <4> QED BY <2>0, <3>2, <4>1
    <3>3. CASE i = n + 1
      <4>1. g[i - 1] = f[i - 1]
        BY <3>3
      <4> QED BY <3>3, <4>1
    <3> QED BY <3>1, <3>2, <3>3
  <2> DEFINE h == [i \in 0..(n + 1) |->
                     IF i = 0 THEN <<>>
                     ELSE IF c[s[i].data] = k THEN Append(g[i - 1], s[i].data) ELSE g[i - 1]]
  <2>3. \A i \in 0..(n + 1) : g[i] = h[i]
    BY <2>2
  <2>4. g = [i \in 0..(n + 1) |-> g[i]] /\ h = [i \in 0..(n + 1) |-> h[i]]
    OBVIOUS
  <2>5. g = h
    <3> HIDE DEF g, h
    <3> QED BY <2>3, <2>4
  <2>6. IsTally(g, n + 1)
    <3> HIDE DEF g
    <3> QED BY <2>5, Zenon
  <2> HIDE DEF g, IsTally
  <2> QED BY <2>6
<1> HIDE DEF S
<1>3. Len(s) \in S
  BY <1>0, <1>1, <1>2, InductionOverPositions
<1>4. PICK g : Tally(g, c, s, k)
  BY <1>3 DEF S, Tally
<1> DEFINE f == CHOOSE f : Tally(f, c, s, k)
<1>5. Tally(f, c, s, k)
  BY <1>4
<1>6. Holding(c, s, k) = f[Len(s)]
  BY DEF Holding, Tally
<1> QED
  BY <1>5, <1>6

LEMMA TallyProperties ==
  ASSUME NEW c, NEW s \in Seq(Bucket), NEW k, NEW f, Tally(f, c, s, k)
  PROVE  /\ f[0] = <<>>
         /\ \A i \in 1..Len(s) :
              f[i] = IF c[s[i].data] = k THEN Append(f[i - 1], s[i].data) ELSE f[i - 1]
         /\ \A i \in 0..Len(s) : f[i] \in Seq(Objs)
<1>0. Len(s) \in Nat /\ \A i \in 1..Len(s) : s[i].data \in Objs
  <2>1. Len(s) \in Nat /\ \A i \in 1..Len(s) : s[i] \in Bucket
    BY LenProperties, ElementOfSeq
  <2> QED BY <2>1 DEF Bucket
<1> DEFINE m == Len(s)
<1>1. \A i \in 0..m :
        f[i] = IF i = 0 THEN <<>>
               ELSE IF c[s[i].data] = k THEN Append(f[i - 1], s[i].data) ELSE f[i - 1]
  BY Zenon DEF Tally
<1>2. f[0] = <<>> /\ \A i \in 1..m :
        f[i] = IF c[s[i].data] = k THEN Append(f[i - 1], s[i].data) ELSE f[i - 1]
  <2>1. 0 \in 0..m /\ \A i \in 1..m : i \in 0..m /\ i # 0
    BY <1>0
  <2> QED BY <1>1, <2>1, Zenon
<1> DEFINE S == {n \in Nat : n <= Len(s) => f[n] \in Seq(Objs)}
<1>3. 0 \in S
  BY <1>2, EmptySeq
<1>4. ASSUME NEW n \in Nat, n \in S PROVE n + 1 \in S
  <2> SUFFICES ASSUME n + 1 <= Len(s) PROVE f[n + 1] \in Seq(Objs)
    OBVIOUS
  <2>1. n + 1 \in 1..Len(s) /\ (n + 1) - 1 = n /\ f[n] \in Seq(Objs)
    BY <1>0, <1>4
  <2>2. s[n + 1].data \in Objs
    BY <1>0, <2>1
  <2>3. Append(f[n], s[n + 1].data) \in Seq(Objs)
    BY <2>1, <2>2, AppendProperties
  <2>4. f[n + 1] = IF c[s[n + 1].data] = k THEN Append(f[n], s[n + 1].data) ELSE f[n]
    BY <1>2, <2>1
  <2> QED BY <2>1, <2>3, <2>4
<1> HIDE DEF S
<1>5. Nat \subseteq S
  BY <1>3, <1>4, InductionOverPositions
<1>6. ASSUME NEW i \in 0..Len(s) PROVE f[i] \in Seq(Objs)
  <2>1. i \in Nat /\ i <= Len(s)
    BY <1>0
  <2> QED BY <1>5, <2>1 DEF S
<1> QED
  BY <1>2, <1>6

\* Only whether an entry's content is the key counts.
LEMMA HoldingSame ==
  ASSUME NEW c, NEW d, NEW s \in Seq(Bucket), NEW k,
         \A i \in 1..Len(s) : c[s[i].data] = k <=> d[s[i].data] = k
  PROVE  Holding(c, s, k) = Holding(d, s, k)
<1>1. PICK f : Tally(f, c, s, k) /\ Holding(c, s, k) = f[Len(s)]
  BY TallyExists
<1>2. PICK g : Tally(g, d, s, k) /\ Holding(d, s, k) = g[Len(s)]
  BY TallyExists
<1>3. /\ f[0] = <<>>
      /\ \A i \in 1..Len(s) :
           f[i] = IF c[s[i].data] = k THEN Append(f[i - 1], s[i].data) ELSE f[i - 1]
  BY <1>1, TallyProperties
<1>4. /\ g[0] = <<>>
      /\ \A i \in 1..Len(s) :
           g[i] = IF d[s[i].data] = k THEN Append(g[i - 1], s[i].data) ELSE g[i - 1]
  BY <1>2, TallyProperties
<1>5. Len(s) \in Nat
  BY LenProperties
<1> DEFINE S == {n \in Nat : n <= Len(s) => f[n] = g[n]}
<1>6. 0 \in S
  BY <1>3, <1>4
<1>7. ASSUME NEW n \in Nat, n \in S PROVE n + 1 \in S
  <2> SUFFICES ASSUME n + 1 <= Len(s) PROVE f[n + 1] = g[n + 1]
    OBVIOUS
  <2>1. n + 1 \in 1..Len(s) /\ (n + 1) - 1 = n /\ f[n] = g[n]
    BY <1>5, <1>7
  <2>2. f[n + 1] = IF c[s[n + 1].data] = k THEN Append(f[n], s[n + 1].data) ELSE f[n]
    BY <1>3, <2>1
  <2>3. g[n + 1] = IF d[s[n + 1].data] = k THEN Append(g[n], s[n + 1].data) ELSE g[n]
    BY <1>4, <2>1
  <2> QED BY <2>1, <2>2, <2>3
<1> HIDE DEF S
<1>8. Len(s) \in S
  BY <1>5, <1>6, <1>7, InductionOverPositions
<1> QED
  BY <1>1, <1>2, <1>8, <1>5 DEF S

\* No entry of the key, no object.
LEMMA HoldingNone ==
  ASSUME NEW c, NEW s \in Seq(Bucket), NEW k,
         \A i \in 1..Len(s) : c[s[i].data] # k
  PROVE  Holding(c, s, k) = <<>>
<1>1. PICK f : Tally(f, c, s, k) /\ Holding(c, s, k) = f[Len(s)]
  BY TallyExists
<1>2. /\ f[0] = <<>>
      /\ \A i \in 1..Len(s) :
           f[i] = IF c[s[i].data] = k THEN Append(f[i - 1], s[i].data) ELSE f[i - 1]
  BY <1>1, TallyProperties
<1>3. Len(s) \in Nat
  BY LenProperties
<1> DEFINE S == {n \in Nat : n <= Len(s) => f[n] = <<>>}
<1>4. 0 \in S
  BY <1>2
<1>5. ASSUME NEW n \in Nat, n \in S PROVE n + 1 \in S
  <2> SUFFICES ASSUME n + 1 <= Len(s) PROVE f[n + 1] = <<>>
    OBVIOUS
  <2>1. n + 1 \in 1..Len(s) /\ (n + 1) - 1 = n /\ f[n] = <<>>
    BY <1>3, <1>5
  <2> QED BY <1>2, <2>1
<1> HIDE DEF S
<1>6. Len(s) \in S
  BY <1>3, <1>4, <1>5, InductionOverPositions
<1> QED
  BY <1>1, <1>3, <1>6 DEF S

\* The tally of a chain is a sequence of its objects.
LEMMA HoldingIsSeq ==
  ASSUME NEW c, NEW s \in Seq(Bucket), NEW k
  PROVE  Holding(c, s, k) \in Seq(Objs)
<1>1. PICK f : Tally(f, c, s, k) /\ Holding(c, s, k) = f[Len(s)]
  BY TallyExists
<1>2. \A i \in 0..Len(s) : f[i] \in Seq(Objs)
  BY <1>1, TallyProperties
<1>3. Len(s) \in 0..Len(s)
  BY LenProperties
<1> QED
  BY <1>1, <1>2, <1>3

\* t is s without its entry at q.
OneLess(s, t, q) ==
  /\ Len(t) = Len(s) - 1
  /\ \A i \in 1..(Len(s) - 1) : t[i] = IF i < q THEN s[i] ELSE s[i + 1]

\* No entry in front of q is of the key, if the one at q is.
NewestOf(c, s, k, q) == \A i \in 1..(q - 1) : c[s[i].data] # k \/ c[s[q].data] # k

\* Two chains of which the one has one entry more, at q: behind it the tallies differ by
\* what they differ there.
LEMMA HoldingWithout ==
  ASSUME NEW c, NEW s \in Seq(Bucket), NEW t \in Seq(Bucket), NEW k,
         NEW q \in 1..Len(s), OneLess(s, t, q), NewestOf(c, s, k, q)
  PROVE  Holding(c, s, k) = IF c[s[q].data] = k THEN <<s[q].data>> \o Holding(c, t, k)
                                                ELSE Holding(c, t, k)
<1>0. Len(s) \in Nat /\ Len(t) \in Nat /\ q \in Nat
  BY LenProperties
<1> USE DEF OneLess, NewestOf
<1>1. PICK f : Tally(f, c, s, k) /\ Holding(c, s, k) = f[Len(s)]
  BY TallyExists
<1>2. PICK g : Tally(g, c, t, k) /\ Holding(c, t, k) = g[Len(t)]
  BY TallyExists
<1>3. /\ f[0] = <<>>
      /\ \A i \in 1..Len(s) :
           f[i] = IF c[s[i].data] = k THEN Append(f[i - 1], s[i].data) ELSE f[i - 1]
      /\ \A i \in 0..Len(s) : f[i] \in Seq(Objs)
  BY <1>1, TallyProperties
<1>4. /\ g[0] = <<>>
      /\ \A i \in 1..Len(t) :
           g[i] = IF c[t[i].data] = k THEN Append(g[i - 1], t[i].data) ELSE g[i - 1]
      /\ \A i \in 0..Len(t) : g[i] \in Seq(Objs)
  BY <1>2, TallyProperties
<1> DEFINE x == s[q].data
           Plus(v) == IF c[x] = k THEN <<x>> \o v ELSE v
<1>5. x \in Objs /\ \A i \in 1..Len(s) : s[i].data \in Objs
  <2>1. \A i \in 1..Len(s) : s[i] \in Bucket
    BY ElementOfSeq
  <2> QED BY <2>1 DEF Bucket
<1> HIDE DEF x
\* In front of q both tallies are the same.
<1> DEFINE S == {n \in Nat : n < q => f[n] = g[n] /\ (c[x] = k => f[n] = <<>>)}
<1>6. 0 \in S
  BY <1>3, <1>4
<1>7. ASSUME NEW n \in Nat, n \in S PROVE n + 1 \in S
  <2> SUFFICES ASSUME n + 1 < q
               PROVE  f[n + 1] = g[n + 1] /\ (c[x] = k => f[n + 1] = <<>>)
    OBVIOUS
  <2>1. /\ n + 1 \in 1..Len(s) /\ n + 1 \in 1..Len(t) /\ (n + 1) - 1 = n
        /\ f[n] = g[n] /\ (c[x] = k => f[n] = <<>>)
    BY <1>0, <1>7
  <2>2. t[n + 1] = s[n + 1]
    BY <1>0, <2>1
  <2>3. f[n + 1] = IF c[s[n + 1].data] = k THEN Append(f[n], s[n + 1].data) ELSE f[n]
    BY <1>3, <2>1
  <2>4. g[n + 1] = IF c[t[n + 1].data] = k THEN Append(g[n], t[n + 1].data) ELSE g[n]
    BY <1>4, <2>1
  <2>5. c[x] = k => c[s[n + 1].data] # k
    BY <1>0, <2>1 DEF x
  <2> QED BY <2>1, <2>2, <2>3, <2>4, <2>5
<1>8. q - 1 \in S
  <2> HIDE DEF S
  <2> QED BY <1>0, <1>6, <1>7, InductionOverPositions
<1>9. f[q - 1] = g[q - 1] /\ (c[x] = k => f[q - 1] = <<>>)
  BY <1>0, <1>8
<1> HIDE DEF S
\* At q, and from there on.
<1> DEFINE T == {n \in Nat : q + n <= Len(s) => f[q + n] = Plus(g[q + n - 1])}
<1>10. 0 \in T
  <2>1. f[q] = IF c[x] = k THEN Append(f[q - 1], x) ELSE f[q - 1]
    BY <1>3 DEF x
  <2>2. CASE c[x] = k
    <3>1. Append(<<>>, x) = <<x>> /\ <<x>> \in Seq(Objs)
      BY <1>5
    <3>2. <<x>> \o <<>> = <<x>>
      BY <3>1, ConcatEmptySeq
    <3> QED BY <1>0, <1>9, <2>1, <2>2, <3>1, <3>2
  <2>3. CASE c[x] # k
    BY <1>0, <1>9, <2>1, <2>3
  <2> QED BY <2>2, <2>3
<1>11. ASSUME NEW n \in Nat, n \in T PROVE n + 1 \in T
  <2> SUFFICES ASSUME q + (n + 1) <= Len(s)
               PROVE  f[q + (n + 1)] = Plus(g[q + (n + 1) - 1])
    OBVIOUS
  <2> DEFINE i == q + n
  <2>1. /\ i \in 1..Len(t) /\ i + 1 \in 1..Len(s) /\ i - 1 \in 0..Len(t) /\ ~ (i < q)
        /\ q + (n + 1) = i + 1 /\ q + (n + 1) - 1 = i /\ (i + 1) - 1 = i /\ i <= Len(s)
    BY <1>0
  <2>2. f[i] = Plus(g[i - 1])
    BY <1>11, <2>1
  <2> HIDE DEF i
  <2>3. t[i] = s[i + 1]
    BY <1>0, <2>1
  <2> DEFINE y == s[i + 1].data
  <2>4. f[i + 1] = IF c[y] = k THEN Append(f[i], y) ELSE f[i]
    BY <1>3, <2>1
  <2>5. g[i] = IF c[y] = k THEN Append(g[i - 1], y) ELSE g[i - 1]
    BY <1>4, <2>1, <2>3
  <2>6. y \in Objs /\ g[i - 1] \in Seq(Objs)
    BY <1>4, <1>5, <2>1
  <2> HIDE DEF y
  <2>7. Append(<<x>> \o g[i - 1], y) = <<x>> \o Append(g[i - 1], y)
    <3> DEFINE u == g[i - 1]
    <3>1. u \in Seq(Objs) /\ <<x>> \in Seq(Objs) /\ <<y>> \in Seq(Objs)
      BY <1>5, <2>6
    <3> HIDE DEF u
    <3>2. (<<x>> \o u) \o <<y>> = <<x>> \o (u \o <<y>>)
      BY <3>1, ConcatAssociative
    <3>3. Append(u, y) = u \o <<y>>
      BY <2>6, <3>1, AppendIsConcat
    <3>4. <<x>> \o u \in Seq(Objs)
      BY <3>1, ConcatProperties
    <3>5. Append(<<x>> \o u, y) = (<<x>> \o u) \o <<y>>
      BY <2>6, <3>4, AppendIsConcat
    <3> QED BY <3>2, <3>3, <3>5 DEF u
  <2>8. f[i + 1] = Plus(g[i])
    BY <2>2, <2>4, <2>5, <2>7
  <2> QED BY <2>1, <2>8
<1>12. Len(s) - q \in T
  <2> HIDE DEF T
  <2> QED BY <1>0, <1>10, <1>11, InductionOverPositions
<1>13. f[Len(s)] = Plus(g[Len(t)])
  BY <1>0, <1>12
<1> QED
  BY <1>1, <1>2, <1>13 DEF x

\* Without a table there are no entries.
EmptyWithoutTable == ht = "none" => array = EmptyArray

LEMMA EmptyInitially == Init => EmptyWithoutTable
  BY DEF Init, EmptyWithoutTable

LEMMA EmptyStays == EmptyWithoutTable /\ [Next]_vars => EmptyWithoutTable'
<1> SUFFICES ASSUME EmptyWithoutTable, [Next]_vars, ht' = "none"
             PROVE  array' = EmptyArray'
  BY DEF EmptyWithoutTable
<1>0. EmptyArray' = EmptyArray
  BY DEF EmptyArray, Slots
<1>1. CASE HashTableInit
  BY <1>1 DEF HashTableInit
<1>2. CASE HashTableInitFails \/ HashTableAddFails \/ UNCHANGED vars
  BY <1>0, <1>2 DEF HashTableInitFails, HashTableAddFails, vars, EmptyWithoutTable
<1>3. ASSUME NEW o \in Objs, NEW k \in Keys, HashTableAdd(o, k) PROVE array' = EmptyArray'
  BY <1>3 DEF HashTableAdd
<1>4. ASSUME NEW k \in Keys, HashTableRemove(k) PROVE array' = EmptyArray'
  BY <1>4 DEF HashTableRemove
<1>5. ASSUME NEW k \in Keys, HashTableLookup(k) PROVE array' = EmptyArray'
  BY <1>0, <1>5 DEF HashTableLookup, EmptyWithoutTable
<1>6. CASE HashTableFree
  BY <1>0, <1>6 DEF HashTableFree
<1> QED
  BY <1>1, <1>2, <1>3, <1>4, <1>5, <1>6 DEF Next

\* The stacks of an empty table are empty.
LEMMA NoEntriesNoStacks ==
  array = EmptyArray => Stacks = [k \in Keys |-> <<>>]
<1> SUFFICES ASSUME array = EmptyArray, NEW k \in Keys, ~ (HashOf[k] >= array_size)
             PROVE  Holding(content, array[HashOf[k]], k) = <<>>
  BY DEF Stacks
<1>1. HashOf[k] \in Slots
  BY HashTableAssumption DEF Slots
<1> DEFINE s == array[HashOf[k]]
<1>2. s = <<>>
  BY <1>1 DEF EmptyArray
<1> HIDE DEF s
<1>3. s \in Seq(Bucket) /\ Len(s) = 0
  BY <1>2, EmptySeq
<1>4. \A i \in 1..Len(s) : content[s[i].data] # k
  BY <1>3
<1>5. Holding(content, s, k) = <<>>
  BY <1>3, <1>4, HoldingNone
<1> QED
  BY <1>5 DEF s

\* The same of the next state.
LEMMA NoEntriesNoStacksNext ==
  array' = EmptyArray' => Stacks' = [k \in Keys |-> <<>>]
<1>1. (array = EmptyArray => Stacks = [k \in Keys |-> <<>>])'
  BY NoEntriesNoStacks, PTL
<1> QED
  BY <1>1

\* The stacks of a table that is left alone are the same.
LEMMA StacksSame ==
  ASSUME array' = array, content' = content
  PROVE  Stacks' = Stacks
BY DEF Stacks

LEMMA AddStacks ==
  ASSUME IInv, NEW o \in Objs, NEW k \in Keys, HashTableAdd(o, k)
  PROVE  Stacks' = [Stacks EXCEPT ![k] = <<o>> \o @]
<1> DEFINE g == HashOf[k]
           e == [data |-> o, size |-> SizeOf[k]]
           t == <<e>> \o array[g]
<1>1. g \in Slots /\ e \in Bucket /\ e.data = o
  BY HashTableAssumption DEF HashTableAdd, Slots, Bucket
<1>2. /\ array' = [array EXCEPT ![g] = t]
      /\ content' = [content EXCEPT ![o] = k]
      /\ owner[o] # "table"
      /\ array \in [Slots -> Seq(Bucket)] /\ content \in [Objs -> Keys]
  BY DEF HashTableAdd, PushFront, IInv, TypeOK, Bucket
<1>3. /\ t \in Seq(Bucket) /\ Len(t) = Len(array[g]) + 1
      /\ \A i \in 1..(Len(array[g]) + 1) : t[i] = IF i = 1 THEN e ELSE array[g][i - 1]
  BY <1>1, <1>2, PushFrontProperties
<1>4. ASSUME NEW h \in Slots, NEW j
      PROVE  /\ array[h] \in Seq(Bucket)
             /\ Holding(content', array[h], j) = Holding(content, array[h], j)
  <2> DEFINE s == array[h]
  <2>1. s \in Seq(Bucket) /\ \A i \in 1..Len(s) : s[i].data \in Objs
    BY Chains DEF IInv, Bucket
  <2>2. \A i \in 1..Len(s) : s[i].data # o
    BY <1>2 DEF IInv, OwnedWhileHeld
  <2> HIDE DEF s
  <2>3. \A i \in 1..Len(s) : content'[s[i].data] = content[s[i].data]
    BY <1>2, <2>1, <2>2
  <2>4. \A i \in 1..Len(s) : content'[s[i].data] = j <=> content[s[i].data] = j
    BY <2>3
  <2>5. Holding(content', s, j) = Holding(content, s, j)
    BY <2>1, <2>4, HoldingSame
  <2> QED BY <2>1, <2>5 DEF s
<1>5. ASSUME NEW j
      PROVE  Holding(content', t, j) = IF j = k THEN <<o>> \o Holding(content, array[g], j)
                                               ELSE Holding(content, array[g], j)
  <2> DEFINE s == array[g]
  <2>1. Len(s) \in Nat /\ s \in Seq(Bucket)
    BY <1>1, Chains, <1>4 DEF IInv
  <2> HIDE DEF t, s, e
  <2>2. t \in Seq(Bucket) /\ Len(s) = Len(t) - 1 /\ 1 \in 1..Len(t) /\ t[1] = e
    BY <1>3, <2>1 DEF s
  <2>3. \A i \in 1..(Len(t) - 1) : s[i] = IF i < 1 THEN t[i] ELSE t[i + 1]
    BY <1>3, <2>1, <2>2 DEF s
  <2> DEFINE d == content'
             q == 1
  <2> HIDE DEF d, q
  <2>5. Holding(d, t, j) = IF d[t[q].data] = j THEN <<t[q].data>> \o Holding(d, s, j)
                                               ELSE Holding(d, s, j)
    <3>1. q \in 1..Len(t) /\ OneLess(t, s, q)
      BY <2>2, <2>3 DEF q, OneLess
    <3>2. NewestOf(d, t, j, q)
      BY DEF q, NewestOf
    <3> QED BY <2>1, <2>2, <3>1, <3>2, HoldingWithout
  <2>6. content'[o] = k
    BY <1>2
  <2>7. Holding(content', s, j) = Holding(content, s, j)
    BY <1>1, <1>4 DEF s
  <2> QED BY <1>1, <2>2, <2>5, <2>6, <2>7 DEF s, d, q
<1> HIDE DEF t, e
<1>6. ASSUME NEW j \in Keys
      PROVE  Stacks'[j] = IF j = k THEN <<o>> \o Stacks[k] ELSE Stacks[j]
  <2>1. CASE HashOf[j] >= array_size
    <3>1. j # k
      BY <2>1, HashTableAssumption DEF HashTableAdd
    <3> QED BY <2>1, <3>1 DEF Stacks
  <2>2. CASE ~ (HashOf[j] >= array_size)
    <3>1. HashOf[j] \in Slots
      BY <2>2, HashTableAssumption DEF Slots
    <3>2. Stacks'[j] = Holding(content', array'[HashOf[j]], j)
      BY <2>2 DEF Stacks
    <3>3. Stacks[j] = Holding(content, array[HashOf[j]], j)
      BY <2>2 DEF Stacks
    <3>4. CASE HashOf[j] = g
      <4>1. array'[HashOf[j]] = t
        BY <1>1, <1>2, <3>4
      <4> QED BY <1>5, <3>2, <3>3, <3>4, <4>1
    <3>5. CASE HashOf[j] # g
      <4>1. array'[HashOf[j]] = array[HashOf[j]]
        BY <1>2, <3>1, <3>5
      <4> QED BY <1>4, <3>1, <3>2, <3>3, <3>5, <4>1
    <3> QED BY <3>4, <3>5
  <2> QED BY <2>1, <2>2
<1>7. Stacks = [j \in Keys |-> Stacks[j]] /\ Stacks' = [j \in Keys |-> Stacks'[j]]
  BY DEF Stacks
<1> QED
  BY <1>6, <1>7

\* The newest entry of its content is on top of its stack, and in no other.
LEMMA TopOfStack ==
  ASSUME IInv, NEW g \in Slots, NEW q \in 1..Len(array[g]),
         \A i \in 1..(q - 1) : content[array[g][i].data] # content[array[g][q].data]
  PROVE  LET x == array[g][q].data
             t == RemoveAt(array[g], q)
         IN  /\ Stacks[content[x]] = <<x>> \o Holding(content, t, content[x])
             /\ \A l : Holding(content, t, l) \in Seq(Objs)
             /\ \A l \in Keys \ {content[x]} :
                  HashOf[l] = g => Stacks[l] = Holding(content, t, l)
<1> DEFINE s == array[g]
           t == RemoveAt(s, q)
           x == s[q].data
           k == content[x]
<1>1. s \in Seq(Bucket) /\ x \in Objs /\ k \in Keys /\ HashOf[k] = g
  BY Chains DEF IInv, TypeOK, Bucket, BucketHome
<1>2. t \in Seq(Bucket) /\ OneLess(s, t, q)
  BY <1>1, RemoveAtProperties DEF OneLess
<1>3. ASSUME NEW l \in Keys, HashOf[l] = g
      PROVE  Stacks[l] = Holding(content, s, l)
  BY <1>3, HashTableAssumption DEF Stacks, Slots
<1>4. ASSUME NEW l
      PROVE  Holding(content, s, l) = IF k = l THEN <<x>> \o Holding(content, t, l)
                                               ELSE Holding(content, t, l)
  <2> DEFINE c == content
  <2>1. q \in 1..Len(s) /\ NewestOf(c, s, l, q) /\ c[s[q].data] = k
    BY DEF NewestOf
  <2> HIDE DEF s, t, c
  <2>2. Holding(c, s, l) = IF c[s[q].data] = l THEN <<s[q].data>> \o Holding(c, t, l)
                                               ELSE Holding(c, t, l)
    BY <1>1, <1>2, <2>1, HoldingWithout
  <2> QED BY <2>1, <2>2 DEF c
<1>5. \A l : Holding(content, t, l) \in Seq(Objs)
  <2> HIDE DEF t
  <2> QED BY <1>2, HoldingIsSeq
<1> HIDE DEF s, t, x
<1> QED
  BY <1>1, <1>3, <1>4, <1>5 DEF s, t, x

\* The stack of a key without an entry.
LEMMA NoEntryNoStack ==
  ASSUME IInv, NEW k \in Keys, HashOf[k] \in Slots,
         \A i \in 1..Len(array[HashOf[k]]) : content[array[HashOf[k]][i].data] # k
  PROVE  Stacks[k] = <<>>
<1> DEFINE s == array[HashOf[k]]
<1>1. s \in Seq(Bucket) /\ \A i \in 1..Len(s) : content[s[i].data] # k
  BY Chains DEF IInv
<1> HIDE DEF s
<1>2. Holding(content, s, k) = <<>>
  BY <1>1, HoldingNone
<1>3. ~ (HashOf[k] >= array_size)
  BY HashTableAssumption DEF Slots
<1> QED
  BY <1>2, <1>3 DEF Stacks, s

\* A sequence with x in front of it.
LEMMA PushedSequence ==
  ASSUME NEW S, NEW x \in S, NEW u \in Seq(S)
  PROVE  /\ <<x>> \o u # <<>> /\ Head(<<x>> \o u) = x /\ Tail(<<x>> \o u) = u
<1>1. <<x>> \in Seq(S) /\ Len(<<x>>) = 1 /\ <<x>>[1] = x
  OBVIOUS
<1>2. /\ <<x>> \o u \in Seq(S) /\ Len(<<x>> \o u) = 1 + Len(u)
      /\ \A i \in 1..(1 + Len(u)) : (<<x>> \o u)[i] = IF i <= 1 THEN <<x>>[i] ELSE u[i - 1]
  BY <1>1, ConcatProperties
<1> QED
  BY <1>1, <1>2, LenProperties, EmptySeq

\* A walk with a compare that compares stops at the newest entry of its key.
LEMMA MatchIsNewest ==
  ASSUME IInv, ht # "default", NEW k \in Keys, HashOf[k] \in Slots
  PROVE  LET s == array[HashOf[k]]
             m == FirstMatch(s, k)
         IN  /\ m = 0 => \A i \in 1..Len(s) : content[s[i].data] # k
             /\ m # 0 => /\ m \in 1..Len(s) /\ content[s[m].data] = k
                         /\ \A i \in 1..(m - 1) : content[s[i].data] # k
<1> DEFINE s == array[HashOf[k]]
           m == FirstMatch(s, k)
           I == {i \in 1..Len(s) : Equal(s[i], k)}
<1>1. Len(s) \in Nat
  BY Chains DEF IInv
<1>2. \A i \in 1..Len(s) : Equal(s[i], k) <=> content[s[i].data] = k
  BY DEF Equal, DefaultCompare, IInv, BucketHome
<1>3. m = IF I # {} THEN Min(I) ELSE 0
  BY DEF FirstMatch, SelectInSeq
<1> HIDE DEF s, m
<1>4. CASE I = {}
  <2>1. \A i \in 1..Len(s) : ~ Equal(s[i], k)
    BY <1>4
  <2>2. m = 0 /\ \A i \in 1..Len(s) : content[s[i].data] # k
    BY <1>2, <1>3, <1>4, <2>1
  <2> QED BY <2>2 DEF s, m
<1>5. CASE I # {}
  <2>0. I \subseteq Nat
    BY <1>1
  <2>1. Min(I) \in I /\ \A i \in I : Min(I) <= i
    <3> HIDE DEF I
    <3> QED BY <1>5, <2>0, LeastPosition
  <2>3. m \in 1..Len(s) /\ content[s[m].data] = k
    BY <1>2, <1>3, <1>5, <2>1
  <2>4. \A i \in 1..(m - 1) : content[s[i].data] # k
    <3> SUFFICES ASSUME NEW i \in 1..(m - 1), content[s[i].data] = k PROVE FALSE
      OBVIOUS
    <3>1. i \in 1..Len(s) /\ i < m
      BY <1>1, <2>3
    <3>2. i \in I
      BY <1>2, <3>1
    <3> QED BY <1>1, <1>3, <1>5, <2>1, <2>3, <3>1, <3>2
  <2> QED BY <1>1, <2>3, <2>4 DEF s, m
<1> QED
  BY <1>4, <1>5

\* The object on top of a stack is the one that goes.
LEMMA DropIsRemove ==
  ASSUME IInv, NEW g \in Slots, NEW q \in 1..Len(array[g]), Drop(g, q),
         UNCHANGED content,
         \A i \in 1..(q - 1) : content[array[g][i].data] # content[array[g][q].data]
  PROVE  LET x == array[g][q].data
             j == content[x]
         IN  /\ j \in Keys /\ Stacks[j] # <<>> /\ Head(Stacks[j]) = x
             /\ Stacks' = [Stacks EXCEPT ![j] = Tail(@)]
<1> DEFINE x == array[g][q].data
           t == RemoveAt(array[g], q)
           j == content[x]
<1>1. x \in Objs /\ j \in Keys /\ HashOf[j] = g /\ array[g] \in Seq(Bucket)
  BY Chains DEF IInv, TypeOK, Bucket, BucketHome
<1>2. array' = [array EXCEPT ![g] = t] /\ content' = content
  BY DEF Drop
<1>3. /\ Stacks[j] = <<x>> \o Holding(content, t, j) /\ Holding(content, t, j) \in Seq(Objs)
      /\ \A l \in Keys \ {j} : HashOf[l] = g => Stacks[l] = Holding(content, t, l)
  BY TopOfStack
<1> HIDE DEF t, x, j
<1>4. array'[g] = t /\ \A h \in Slots \ {g} : array'[h] = array[h]
  BY <1>2 DEF IInv, TypeOK
<1>5. ASSUME NEW l \in Keys, HashOf[l] = g
      PROVE  Stacks'[l] = Holding(content, t, l)
  <2>1. ~ (HashOf[l] >= array_size)
    BY <1>5, HashTableAssumption DEF Slots
  <2> QED BY <1>2, <1>4, <1>5, <2>1 DEF Stacks
<1>6. ASSUME NEW l \in Keys, HashOf[l] # g
      PROVE  Stacks'[l] = Stacks[l]
  <2>1. CASE HashOf[l] >= array_size
    BY <2>1 DEF Stacks
  <2>2. CASE ~ (HashOf[l] >= array_size)
    <3>1. HashOf[l] \in Slots
      BY <2>2, HashTableAssumption DEF Slots
    <3> QED BY <1>2, <1>4, <1>6, <2>2, <3>1 DEF Stacks
  <2> QED BY <2>1, <2>2
<1>7. Stacks = [l \in Keys |-> Stacks[l]] /\ Stacks' = [l \in Keys |-> Stacks'[l]]
  BY DEF Stacks
<1>8. Stacks[j] # <<>> /\ Head(Stacks[j]) = x /\ Tail(Stacks[j]) = Stacks'[j]
  BY <1>1, <1>3, <1>5, PushedSequence
<1>9. \A l \in Keys \ {j} : Stacks'[l] = Stacks[l]
  BY <1>3, <1>5, <1>6
<1> QED
  BY <1>1, <1>7, <1>8, <1>9 DEF x, j

\* The only entry of a chain is all of its stack.
LEMMA OnlyIsItsStack ==
  ASSUME IInv, NEW g \in Slots, Len(array[g]) = 1
  PROVE  LET x == array[g][1].data
         IN  Stacks[content[x]] = <<x>> /\ Tail(<<x>>) = <<>>
<1> DEFINE x == array[g][1].data
           t == RemoveAt(array[g], 1)
           q == 1
<1>0. array[g] \in Seq(Bucket) /\ \A i \in 1..Len(array[g]) : array[g][i] \in Bucket
  BY Chains DEF IInv
<1>1. x \in Objs /\ array[g] \in Seq(Bucket) /\ q \in 1..Len(array[g])
  BY <1>0 DEF Bucket
<1>2. t \in Seq(Bucket) /\ Len(t) = 0
  BY <1>1, RemoveAtProperties
<1>3. Stacks[content[x]] = <<x>> \o Holding(content, t, content[x])
  <2>1. \A i \in 1..(q - 1) : content[array[g][i].data] # content[array[g][q].data]
    OBVIOUS
  <2> QED BY <1>1, <2>1, TopOfStack
<1> HIDE DEF t, x
<1>4. \A i \in 1..Len(t) : content[t[i].data] # content[x]
  BY <1>2
<1>5. Holding(content, t, content[x]) = <<>>
  BY <1>2, <1>4, HoldingNone
<1>6. <<x>> \in Seq(Objs)
  BY <1>1
<1>7. <<x>> \o <<>> = <<x>> /\ Tail(<<x>>) = <<>>
  BY <1>1, <1>6, ConcatEmptySeq, PushedSequence, EmptySeq
<1> QED
  BY <1>3, <1>5, <1>7 DEF x

\* A walk that overwrites nothing leaves the contents alone.
LEMMA ComparedIsSame ==
  ASSUME IInv, ht # "default", NEW s, NEW k
  PROVE  Compared(s, k) = content
BY DEF Compared, DefaultCompare, IInv, TypeOK

\* Each call that a comparing table answers has the effect the store promises.
LEMMA RemoveRefines ==
  ASSUME IInv, ht # "default", NEW k \in Keys, HashTableRemove(k)
  PROVE  Store!Effect(resp')
<1> DEFINE h == HashOf[k]
           s == array[h]
           m == FirstMatch(s, k)
<1>1. h \in Slots /\ Len(s) \in Nat
  <2>1. h \in Slots
    BY HashTableAssumption DEF HashTableRemove, Slots
  <2> QED BY <2>1, Chains DEF IInv
<1>2. /\ m = 0 => \A i \in 1..Len(s) : content[s[i].data] # k
      /\ m # 0 => /\ m \in 1..Len(s) /\ content[s[m].data] = k
                  /\ \A i \in 1..(m - 1) : content[s[i].data] # k
  BY <1>1, MatchIsNewest
<1>3. CASE RemoveOnly(h, k)
  <2> DEFINE x == s[1].data
             j == content[x]
  <2>1. /\ resp' = [call |-> "remove", key |-> k, ret |-> 0, out |-> x]
        /\ Drop(h, 1) /\ content' = content /\ Len(s) = 1
    BY <1>3 DEF RemoveOnly
  <2>2. /\ j \in Keys /\ Stacks[j] # <<>> /\ Head(Stacks[j]) = x
        /\ Stacks' = [Stacks EXCEPT ![j] = Tail(@)]
    BY <1>1, <2>1, DropIsRemove
  <2>3. CASE j = k
    <3> HIDE DEF x, j
    <3>1. Store!Remove(resp')
      BY <2>1, <2>2, <2>3 DEF Store!Remove
    <3> QED BY <2>1, <3>1 DEF Store!Effect
  <2>4. CASE j # k
    <3>1. Stacks[k] = <<>>
      BY <1>1, <2>1, <2>4, NoEntryNoStack
    <3>2. Stacks[j] = <<x>> /\ Tail(Stacks[j]) = <<>>
      BY <1>1, <2>1, OnlyIsItsStack
    <3>3. Store!Evict(resp')
      BY <2>1, <2>2, <3>1, <3>2 DEF Store!Evict
    <3> QED BY <2>1, <3>3 DEF Store!Effect
  <2> QED BY <2>3, <2>4
<1>4. CASE RemoveMatch(h, k)
  <2>1. /\ resp' = [call |-> "remove", key |-> k, ret |-> 0, out |-> s[m].data]
        /\ Drop(h, m) /\ content' = content /\ m # 0
    BY <1>4 DEF RemoveMatch
  <2>2. /\ Stacks[k] # <<>> /\ Head(Stacks[k]) = s[m].data
        /\ Stacks' = [Stacks EXCEPT ![k] = Tail(@)]
    <3> HIDE DEF h, m
    <3>1. m \in 1..Len(array[h]) /\ content[array[h][m].data] = k
      BY <1>2, <2>1
    <3>2. \A i \in 1..(m - 1) : content[array[h][i].data] # content[array[h][m].data]
      BY <1>2, <2>1, <3>1
    <3> QED BY <1>1, <2>1, <3>1, <3>2, DropIsRemove
  <2> HIDE DEF s, m
  <2>3. Store!Remove(resp')
    BY <2>1, <2>2 DEF Store!Remove
  <2> QED BY <2>1, <2>3 DEF Store!Effect
<1>5. CASE RemoveMisses(h, k)
  <2>1. /\ resp' = [call |-> "remove", key |-> k, ret |-> -1]
        /\ content' = content /\ array' = array
        /\ Len(s) = 0 \/ m = 0
    BY <1>5, ComparedIsSame DEF RemoveMisses
  <2>2. Stacks[k] = <<>>
    BY <1>1, <1>2, <2>1, NoEntryNoStack
  <2>3. Stacks' = Stacks
    BY <2>1, StacksSame
  <2> HIDE DEF s, m
  <2>4. Store!Remove(resp')
    BY <2>1, <2>2, <2>3 DEF Store!Remove
  <2> QED BY <2>1, <2>4 DEF Store!Effect
<1> QED
  BY <1>3, <1>4, <1>5 DEF HashTableRemove

LEMMA LookupRefines ==
  ASSUME IInv, EmptyWithoutTable, ht # "default", NEW k \in Keys, HashTableLookup(k)
  PROVE  Store!Effect(resp')
<1>1. content' = content /\ array' = array
  BY ComparedIsSame DEF HashTableLookup
<1>2. Stacks' = Stacks
  BY <1>1, StacksSame
<1>3. /\ resp'.call = "lookup" /\ resp'.key = k
      /\ resp'.out = IF Stacks[k] = <<>> THEN NULL ELSE Head(Stacks[k])
  <2>1. CASE ht = "none" \/ HashOf[k] >= array_size
    <3>1. resp' = [call |-> "lookup", key |-> k, out |-> NULL]
      BY <2>1 DEF HashTableLookup
    <3>2. Stacks[k] = <<>>
      BY <2>1, NoEntriesNoStacks DEF EmptyWithoutTable, Stacks
    <3> QED BY <3>1, <3>2
  <2>2. CASE ~ (ht = "none" \/ HashOf[k] >= array_size)
    <3> DEFINE h == HashOf[k]
               s == array[h]
               m == FirstMatch(s, k)
    <3>1. h \in Slots
      BY <2>2, HashTableAssumption DEF Slots
    <3>2. resp' = [call |-> "lookup", key |-> k, out |-> IF m = 0 THEN NULL ELSE s[m].data]
      BY <2>2 DEF HashTableLookup
    <3>3. /\ m = 0 => \A i \in 1..Len(s) : content[s[i].data] # k
          /\ m # 0 => /\ m \in 1..Len(s) /\ content[s[m].data] = k
                      /\ \A i \in 1..(m - 1) : content[s[i].data] # k
      BY <3>1, MatchIsNewest
    <3>4. CASE m = 0
      <4>1. Stacks[k] = <<>>
        BY <3>1, <3>3, <3>4, NoEntryNoStack
      <4> QED BY <3>2, <3>4, <4>1
    <3>5. CASE m # 0
      <4> DEFINE x == s[m].data
                 t == RemoveAt(s, m)
      <4>0. /\ x \in Objs /\ Stacks[k] = <<x>> \o Holding(content, t, k)
            /\ Holding(content, t, k) \in Seq(Objs)
        <5> HIDE DEF h, m
        <5>1. m \in 1..Len(array[h]) /\ content[array[h][m].data] = k
          BY <3>3, <3>5
        <5>2. \A i \in 1..(m - 1) : content[array[h][i].data] # content[array[h][m].data]
          BY <3>3, <3>5, <5>1
        <5>3. x \in Objs
          BY <3>1, <5>1, Chains DEF IInv, Bucket
        <5> QED BY <3>1, <5>1, <5>2, <5>3, TopOfStack
      <4>1. Stacks[k] # <<>> /\ Head(Stacks[k]) = x
        <5> HIDE DEF x, t
        <5> QED BY <4>0, PushedSequence
      <4> QED BY <3>2, <3>5, <4>1
    <3> QED BY <3>4, <3>5
  <2> QED BY <2>1, <2>2
<1>4. Store!Lookup(resp')
  BY <1>2, <1>3 DEF Store!Lookup
<1> QED
  BY <1>3, <1>4 DEF Store!Effect

LEMMA StepRefines ==
  IInv /\ EmptyWithoutTable /\ [Next]_vars
    => [ht' # "default" => Store!Effect(resp')]_(Store!vars)
<1> SUFFICES ASSUME IInv, EmptyWithoutTable, [Next]_vars, ht' # "default",
                    ~ UNCHANGED Store!vars
             PROVE  Store!Effect(resp')
  OBVIOUS
<1>1. CASE HashTableInit
  <2>1. Stacks' = Stacks /\ resp' = NoResp
    BY <1>1, StacksSame DEF HashTableInit
  <2> QED BY <2>1 DEF NoResp, Store!Effect
<1>2. CASE HashTableInitFails
  <2>1. Stacks' = Stacks /\ resp' = [call |-> "init", ret |-> NULL]
    BY <1>2, StacksSame DEF HashTableInitFails
  <2> QED BY <2>1 DEF Store!Effect
<1>3. CASE HashTableAddFails
  <2>1. Stacks' = Stacks /\ resp' = [call |-> "add", ret |-> -1]
    BY <1>3, StacksSame DEF HashTableAddFails
  <2> QED BY <2>1 DEF Store!Effect, Store!Add
<1>4. ASSUME NEW o \in Objs, NEW k \in Keys, HashTableAdd(o, k)
      PROVE  Store!Effect(resp')
  <2>1. /\ Stacks' = [Stacks EXCEPT ![k] = <<o>> \o @]
        /\ resp' = [call |-> "add", key |-> k, obj |-> o, ret |-> 0]
    BY <1>4, AddStacks DEF HashTableAdd
  <2> QED BY <2>1 DEF Store!Effect, Store!Add
<1>5. ASSUME NEW k \in Keys, HashTableRemove(k)
      PROVE  Store!Effect(resp')
  <2>1. ht # "default"
    BY <1>5 DEF HashTableRemove
  <2> QED BY <1>5, <2>1, RemoveRefines
<1>6. ASSUME NEW k \in Keys, HashTableLookup(k)
      PROVE  Store!Effect(resp')
  <2>1. ht # "default"
    BY <1>6 DEF HashTableLookup
  <2> QED BY <1>6, <2>1, LookupRefines
<1>7. CASE HashTableFree
  <2>1. array' = EmptyArray' /\ resp' = [call |-> "free"]
    BY <1>7 DEF HashTableFree, EmptyArray, Slots
  <2>2. Stacks' = [k \in Keys |-> <<>>]
    BY <2>1, NoEntriesNoStacksNext
  <2> QED BY <2>1, <2>2 DEF Store!Effect
<1>8. CASE UNCHANGED vars
  <2>1. Stacks' = Stacks /\ resp' = resp
    BY <1>8, StacksSame DEF vars
  <2> QED BY <2>1 DEF Store!vars
<1> QED
  BY <1>1, <1>2, <1>3, <1>4, <1>5, <1>6, <1>7, <1>8 DEF Next

\* Whatever is added, removed and looked up: with a compare that compares, each call
\* answers as a store of the newest object of each key, but for the removal that takes
\* the only entry of a chain.
THEOREM RefinesStore == Spec => RefinesStoreWithEviction
<1>1. Init => Store!Init
  <2> SUFFICES ASSUME Init PROVE Store!Init
    OBVIOUS
  <2>1. Stacks = [k \in Keys |-> <<>>] /\ resp.call = "none"
    BY NoEntriesNoStacks DEF Init, NoResp
  <2> QED BY <2>1 DEF Store!Init
<1>2. Init => IInv /\ EmptyWithoutTable
  BY InitIsGood, EmptyInitially
<1>3. IInv /\ EmptyWithoutTable /\ [Next]_vars => IInv' /\ EmptyWithoutTable'
  BY StepIsGood, EmptyStays
<1>4. IInv /\ EmptyWithoutTable /\ [Next]_vars
        => [ht' # "default" => Store!Effect(resp')]_(Store!vars)
  BY StepRefines
<1> QED
  BY <1>1, <1>2, <1>3, <1>4, PTL DEF Spec, RefinesStoreWithEviction
=============================================================================
