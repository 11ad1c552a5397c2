----------------------------- MODULE HashTable -----------------------------
(***************************************************************************)
(* The chained hash table of public/util_hash.c.                           *)
(*                                                                         *)
(* An object is a piece of the caller's memory; its content is a key, the  *)
(* bytes and their number.  A bucket entry keeps the pointer and the size. *)
(* A chain is the sequence of entries from ht->array[hash] along `next`.   *)
(* The program is single-threaded: one call is one action.                 *)
(***************************************************************************)
EXTENDS Integers, SequencesExt

CONSTANTS Keys,           \* the contents objects and probes can have
          SizeOf,         \* a key's datalen
          HashOf,         \* ht->Hash of a key, in range or not
          Objs,           \* the caller's objects
          array_size,
          HasFree,        \* Free is not NULL
          NULL

ASSUME HashTableAssumption ==
  /\ SizeOf \in [Keys -> Nat]
  /\ HashOf \in [Keys -> Nat]
  /\ array_size \in Nat \ {0}
  /\ HasFree \in BOOLEAN
  /\ IsFiniteSet(Objs)
  /\ NULL \notin Objs

VARIABLES ht,       \* "none", or the compare of the live table: "given", "default"
          array,    \* hash -> chain of [data, size]
          content,  \* what each object's memory holds
          given,    \* history: what it held when it was last added
          owner,    \* "caller", "table" (added), "freed" (by ht->Free)
          resp      \* the last call and its result

vars == <<ht, array, content, given, owner, resp>>

Slots == 0..(array_size - 1)
EmptyArray == [h \in Slots |-> <<>>]
NoResp == [call |-> "none"]

DefaultCompare == ht = "default"

\* ht->Compare(hb->data, hb->size, probe k) == 1.  The default compare calls
\* UTIL_MEMCMP, which is memcpy (util_public.h:85): a pointer, never 0.
Equal(hb, k) == ~DefaultCompare /\ hb.size = SizeOf[k] /\ content[hb.data] = k

\* The entry the walk along the chain stops at, 0 if none.
FirstMatch(s, k) == SelectInSeq(s, LAMBDA hb : Equal(hb, k))

\* A definition named Mut... is a faulty form of one that follows it, for the
\* sensitivity runs of PROJECT.json; nothing else uses it.
MutIgnoresSize(s, k) ==
  [o \in Objs |-> IF DefaultCompare /\ \E i \in 1..Len(s) : s[i].data = o THEN k ELSE content[o]]

\* The contents after a walk that compared the whole chain with k: memcpy has
\* copied the probe into every entry of its size.
Compared(s, k) ==
  [o \in Objs |-> IF DefaultCompare /\ \E i \in 1..Len(s) : s[i] = [data |-> o, size |-> SizeOf[k]]
                  THEN k ELSE content[o]]

\* The owner of an object the table drops.
Released == IF HasFree THEN "freed" ELSE "caller"

Init ==
  /\ ht = "none"
  /\ array = EmptyArray
  /\ content \in [Objs -> Keys]
  /\ given = content
  /\ owner = [o \in Objs |-> "caller"]
  /\ resp = NoResp

HashTableInit ==
  /\ ht = "none"
  /\ ht' \in {"given", "default"}   \* Compare was not NULL, or was
  /\ resp' = NoResp
  /\ UNCHANGED <<array, content, given, owner>>

\* No size, no hash function or no memory: what was allocated is freed again.
HashTableInitFails ==
  /\ ht = "none"
  /\ resp' = [call |-> "init", ret |-> NULL]
  /\ UNCHANGED <<ht, array, content, given, owner>>

MutAppends(s, hb) == Append(s, hb)
MutNoData(s, hb)  == <<[hb EXCEPT !.data = NULL]>> \o s
PushFront(s, hb)  == <<hb>> \o s

\* The caller adds an object it owns, of content k.
HashTableAdd(o, k) ==
  /\ ht # "none"
  /\ owner[o] # "table"
  /\ HashOf[k] < array_size
  /\ array' = [array EXCEPT ![HashOf[k]] = PushFront(@, [data |-> o, size |-> SizeOf[k]])]
  /\ content' = [content EXCEPT ![o] = k]
  /\ given' = [given EXCEPT ![o] = k]
  /\ owner' = [owner EXCEPT ![o] = "table"]
  /\ resp' = [call |-> "add", key |-> k, obj |-> o, ret |-> 0]
  /\ UNCHANGED ht

\* No table, no data, no memory for the bucket, or a hash out of the array.
HashTableAddFails ==
  /\ resp' = [call |-> "add", ret |-> -1]
  /\ UNCHANGED <<ht, array, content, given, owner>>

MutLosesTail(h, i) ==
  /\ array' = [array EXCEPT ![h] = SubSeq(@, 1, i - 1)]
  /\ owner' = [owner EXCEPT ![array[h][i].data] = Released]

Drop(h, i) ==
  /\ array' = [array EXCEPT ![h] = RemoveAt(@, i)]
  /\ owner' = [owner EXCEPT ![array[h][i].data] = Released]

\* The fast path: the only entry of the bucket goes, whatever its key.
RemoveOnly(h, k) ==
  /\ Len(array[h]) = 1
  /\ Drop(h, 1)
  /\ resp' = [call |-> "remove", key |-> k, ret |-> 0, out |-> array[h][1].data]
  /\ UNCHANGED content

RemoveMatch(h, k) ==
  /\ Len(array[h]) > 1
  /\ FirstMatch(array[h], k) # 0
  /\ Drop(h, FirstMatch(array[h], k))
  /\ resp' = [call |-> "remove", key |-> k, ret |-> 0,
              out |-> array[h][FirstMatch(array[h], k)].data]
  /\ UNCHANGED content

RemoveMisses(h, k) ==
  /\ Len(array[h]) = 0 \/ (Len(array[h]) > 1 /\ FirstMatch(array[h], k) = 0)
  /\ content' = Compared(array[h], k)
  /\ resp' = [call |-> "remove", key |-> k, ret |-> -1]
  /\ UNCHANGED <<array, owner>>

\* HashTableRemove has no range check: its hash must be in the array.
HashTableRemove(k) ==
  /\ ht # "none"
  /\ HashOf[k] < array_size
  /\ \/ RemoveOnly(HashOf[k], k)
     \/ RemoveMatch(HashOf[k], k)
     \/ RemoveMisses(HashOf[k], k)
  /\ UNCHANGED <<ht, given>>

HashTableLookup(k) ==
  /\ IF ht = "none" \/ HashOf[k] >= array_size
     THEN resp' = [call |-> "lookup", key |-> k, out |-> NULL] /\ UNCHANGED content
     ELSE LET s == array[HashOf[k]]
              i == FirstMatch(s, k)
          IN  /\ resp' = [call |-> "lookup", key |-> k,
                          out |-> IF i = 0 THEN NULL ELSE s[i].data]
              /\ content' = Compared(s, k)
  /\ UNCHANGED <<ht, array, given, owner>>

HashTableFree ==
  /\ ht # "none"
  /\ ht' = "none"
  /\ array' = EmptyArray
  /\ owner' = [o \in Objs |-> IF \E h \in Slots : \E i \in 1..Len(array[h]) : array[h][i].data = o
                              THEN Released ELSE owner[o]]
  /\ resp' = [call |-> "free"]
  /\ UNCHANGED <<content, given>>

Next ==
  \/ HashTableInit
  \/ HashTableInitFails
  \/ \E o \in Objs, k \in Keys : HashTableAdd(o, k)
  \/ HashTableAddFails
  \/ \E k \in Keys : HashTableRemove(k)
  \/ \E k \in Keys : HashTableLookup(k)
  \/ HashTableFree

Spec == Init /\ [][Next]_vars

-----------------------------------------------------------------------------
TypeOK ==
  /\ ht \in {"none", "given", "default"}
  /\ array \in [Slots -> Seq([data : Objs, size : Nat])]
  /\ content \in [Objs -> Keys]
  /\ given \in [Objs -> Keys]
  /\ owner \in [Objs -> {"caller", "table", "freed"}]

\* Every stored object still hashes to the bucket it is in, also after compares
\* that overwrote it: otherwise no later lookup or remove could reach it.
BucketHome ==
  \A h \in Slots : \A i \in 1..Len(array[h]) :
    LET hb == array[h][i]
    IN  HashOf[content[hb.data]] = h /\ hb.size = SizeOf[content[hb.data]]

\* The bucket and the position of every entry that holds o.
Places(o) ==
  {p \in Slots \X (1..Cardinality(Objs)) : p[2] <= Len(array[p[1]]) /\ array[p[1]][p[2]].data = o}

\* The table holds each object it was given once and no object it has released:
\* ht->Free meets an object once between two adds of it.
HeldOnce == \A o \in Objs : Cardinality(Places(o)) = IF owner[o] = "table" THEN 1 ELSE 0

\* The objects of the chain s whose content, by c, is k: the newest first, as in the chain.
Holding(c, s, k) ==
  LET held[i \in 0..Len(s)] ==
        IF i = 0 THEN <<>>
        ELSE IF c[s[i].data] = k THEN Append(held[i - 1], s[i].data) ELSE held[i - 1]
  IN  held[Len(s)]

Stacks ==
  [k \in Keys |-> IF HashOf[k] >= array_size THEN <<>> ELSE Holding(content, array[HashOf[k]], k)]

Store == INSTANCE KeyedStore WITH Nothing <- NULL, stack <- Stacks, event <- resp

\* With a compare that compares, the table is a keyed store, but for the fast
\* path of HashTableRemove, which may evict the only object of another key.
RefinesStoreWithEviction ==
  Store!Init /\ [][ht' # "default" => Store!Effect(resp')]_(Store!vars)

\* util_hash.c:405-406: the removal of a key that was not added fails.
RemovesOnlyItsKey ==
  (resp.call = "remove" /\ resp.ret = 0) => given[resp.out] = resp.key
=============================================================================
