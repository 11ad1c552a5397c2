--------------------------- MODULE HashListTable ---------------------------
(***************************************************************************)
(* The hash table with a list of public/util_hashlist.c, at the level of   *)
(* its pointers: every bucket is in the chain of its hash (array,          *)
(* bucknext) and in one doubly linked list of all buckets (listhead,       *)
(* listtail, listnext, listprev).  A bucket and the caller's datum in it   *)
(* are one node here: they are added and released together.                *)
(*                                                                         *)
(* The program is single-threaded: one call is one action.  A caller's     *)
(* loop over the list (HashListTableGetListHead, HashListTableGetListNext) *)
(* is a cursor; other calls can come between its steps.                    *)
(***************************************************************************)
EXTENDS Integers, Sequences, FiniteSets

CONSTANTS Keys,           \* the contents data and probes can have
          SizeOf,         \* a key's datalen
          HashOf,         \* ht->Hash of a key
          Nodes,          \* the memory buckets are allocated from
          array_size,
          NULL

Slots == 0..(array_size - 1)
Ptr   == Nodes \cup {NULL}

ASSUME HashListAssumption ==
  /\ array_size \in Nat \ {0}
  /\ HashOf \in [Keys -> Slots]
  /\ SizeOf \in [Keys -> Nat]
  /\ IsFiniteSet(Nodes)
  /\ NULL \notin Nodes \cup Keys

VARIABLES ht,                  \* "none", or the live table's compare: "given", "default"
          array,               \* hash -> first bucket of the chain
          bucknext, listnext, listprev,
          listhead, listtail,
          alive,               \* the nodes allocated
          data,                \* a bucket's datum: the key it holds
          size,                \* and hb->size
          cursor,              \* the bucket a caller's loop is at
          pending,             \* history: buckets the loop still has to meet
          resp                 \* the last call and its result

links == <<array, bucknext, listnext, listprev, listhead, listtail, alive>>
vars  == <<ht, links, data, size, cursor, pending, resp>>

DefaultCompare == ht = "default"

\* Compare(hb->data, hb->size, probe k) == 1; the default compares by memcpy
\* (util_public.h:85) and never says so.
Equal(n, k) == ~DefaultCompare /\ size[n] = SizeOf[k] /\ data[n] = k

\* s is the way of the loop along the chain of h up to its last node.
IsWalk(h, s) ==
  /\ s[1] = array[h]
  /\ \A i \in 1..(Len(s) - 1) : s[i + 1] = bucknext[s[i]]

Walks(h) == {s \in UNION {[1..n -> alive] : n \in 1..Cardinality(alive)} : IsWalk(h, s)}

\* A definition named Mut... is a faulty form of one that follows it, for the
\* sensitivity runs of PROJECT.json; nothing else uses it.
MutFindsAny(h, k, s) == IsWalk(h, s) /\ Equal(s[Len(s)], k)

\* The loop stops at the first node that compares equal.
Finds(h, k, s) ==
  /\ IsWalk(h, s)
  /\ \A i \in 1..(Len(s) - 1) : ~Equal(s[i], k)
  /\ Equal(s[Len(s)], k)

MutIgnoresSize(h, k) ==
  [n \in Nodes |-> IF DefaultCompare /\ \E s \in Walks(h) : s[Len(s)] = n THEN k ELSE data[n]]

\* What a loop that met no equal node did to the data it compared.
Compared(h, k) ==
  [n \in Nodes |-> IF /\ DefaultCompare
                      /\ n \in alive /\ size[n] = SizeOf[k]
                      /\ \E s \in Walks(h) : s[Len(s)] = n
                   THEN k ELSE data[n]]

-----------------------------------------------------------------------------
NoResp   == [call |-> "none"]
NoLinks  == [n \in Nodes |-> NULL]
NoArray  == [h \in Slots |-> NULL]

Init ==
  /\ ht = "none"
  /\ array = NoArray
  /\ bucknext = NoLinks /\ listnext = NoLinks /\ listprev = NoLinks
  /\ listhead = NULL /\ listtail = NULL
  /\ alive = {}
  /\ data = NoLinks /\ size = NoLinks
  /\ cursor = NULL /\ pending = {}
  /\ resp = NoResp

HashListTableInit ==
  /\ ht = "none"
  /\ ht' \in {"given", "default"}   \* Compare was not NULL, or was
  /\ resp' = NoResp
  /\ UNCHANGED <<links, data, size, cursor, pending>>

\* No size, no hash function or no memory.
HashListTableInitFails ==
  /\ ht = "none"
  /\ resp' = [call |-> "init", ret |-> NULL]
  /\ UNCHANGED <<ht, links, data, size, cursor, pending>>

\* The bucket goes to the front of its chain,
LinkChain(n, h) ==
  /\ array' = [array EXCEPT ![h] = n]
  /\ bucknext' = [bucknext EXCEPT ![n] = array[h]]

\* and to the end of the list.
LinkList(n) ==
  /\ listhead' = IF listtail = NULL THEN n ELSE listhead
  /\ listtail' = n
  /\ listprev' = [listprev EXCEPT ![n] = listtail]
  /\ listnext' = [x \in Nodes |-> IF x = listtail THEN n ELSE listnext[x]]

HashListTableAdd(n, k) ==
  /\ ht # "none"
  /\ n \notin alive
  /\ LinkChain(n, HashOf[k])
  /\ LinkList(n)
  /\ alive' = alive \cup {n}
  /\ data' = [data EXCEPT ![n] = k]
  /\ size' = [size EXCEPT ![n] = SizeOf[k]]
  /\ resp' = [call |-> "add", key |-> k, item |-> n, ret |-> 0]
  /\ UNCHANGED <<ht, cursor, pending>>

\* No table, no data or no memory.
HashListTableAddFails ==
  /\ resp' = [call |-> "add", ret |-> -1]
  /\ UNCHANGED <<ht, links, data, size, cursor, pending>>

MutKeepsTail(x) ==
  /\ listhead' = IF listprev[x] = NULL THEN listnext[x] ELSE listhead
  /\ listtail' = listtail
  /\ listnext' = [n \in Nodes |-> IF n = x THEN NULL
                                  ELSE IF n = listprev[x] THEN listnext[x] ELSE listnext[n]]
  /\ listprev' = [n \in Nodes |-> IF n = x THEN NULL
                                  ELSE IF n = listnext[x] THEN listprev[x] ELSE listprev[n]]
MutKeepsNext(x) ==
  /\ listhead' = IF listprev[x] = NULL THEN listnext[x] ELSE listhead
  /\ listtail' = IF listnext[x] = NULL THEN listprev[x] ELSE listtail
  /\ listnext' = listnext
  /\ listprev' = [n \in Nodes |-> IF n = x THEN NULL
                                  ELSE IF n = listnext[x] THEN listprev[x] ELSE listprev[n]]

\* Take x out of the list; the fields of freed memory are forgotten.
UnlinkList(x) ==
  /\ listhead' = IF listprev[x] = NULL THEN listnext[x] ELSE listhead
  /\ listtail' = IF listnext[x] = NULL THEN listprev[x] ELSE listtail
  /\ listnext' = [n \in Nodes |-> IF n = x THEN NULL
                                  ELSE IF n = listprev[x] THEN listnext[x] ELSE listnext[n]]
  /\ listprev' = [n \in Nodes |-> IF n = x THEN NULL
                                  ELSE IF n = listnext[x] THEN listprev[x] ELSE listprev[n]]

MutForgetsPrev(h, s) ==
  /\ array' = [array EXCEPT ![h] = bucknext[s[Len(s)]]]
  /\ bucknext' = [bucknext EXCEPT ![s[Len(s)]] = NULL]
MutDropsRest(h, s) ==
  /\ array' = IF Len(s) = 1 THEN [array EXCEPT ![h] = NULL] ELSE array
  /\ bucknext' = [n \in Nodes |-> IF n = s[Len(s)] \/ (Len(s) > 1 /\ n = s[Len(s) - 1])
                                  THEN NULL ELSE bucknext[n]]

\* Take the last node of the walk s out of the chain of h.
UnlinkChain(h, s) ==
  LET x == s[Len(s)] IN
  /\ array' = IF Len(s) = 1 THEN [array EXCEPT ![h] = bucknext[x]] ELSE array
  /\ bucknext' = [n \in Nodes |-> IF n = x THEN NULL
                                  ELSE IF Len(s) > 1 /\ n = s[Len(s) - 1] THEN bucknext[x]
                                  ELSE bucknext[n]]

\* A chain of one node and a longer one are treated alike.  The caller's loop is
\* not at the node.
RemoveMatch(k) ==
  /\ \E s \in Walks(HashOf[k]) :
       LET x == s[Len(s)] IN
       /\ Finds(HashOf[k], k, s)
       /\ x # cursor
       /\ UnlinkList(x)
       /\ UnlinkChain(HashOf[k], s)
       /\ alive' = alive \ {x}
       /\ data' = [data EXCEPT ![x] = NULL]
       /\ size' = [size EXCEPT ![x] = NULL]
       /\ pending' = pending \ {x}
  /\ resp' = [call |-> "remove", key |-> k, ret |-> 0]

Misses(k) == \A s \in Walks(HashOf[k]) : ~Finds(HashOf[k], k, s)

RemoveMisses(k) ==
  /\ Misses(k)
  /\ data' = Compared(HashOf[k], k)
  /\ resp' = [call |-> "remove", key |-> k, ret |-> -1]
  /\ UNCHANGED <<links, size, pending>>

HashListTableRemove(k) ==
  /\ ht # "none"
  /\ RemoveMatch(k) \/ RemoveMisses(k)
  /\ UNCHANGED <<ht, cursor>>

HashListTableLookup(k) ==
  /\ \/ \E s \in Walks(HashOf[k]) :
          /\ Finds(HashOf[k], k, s)
          /\ resp' = [call |-> "lookup", key |-> k, out |-> s[Len(s)]]
          /\ UNCHANGED data
     \/ /\ Misses(k)   \* also without a table
        /\ resp' = [call |-> "lookup", key |-> k, out |-> NULL]
        /\ data' = Compared(HashOf[k], k)
  /\ UNCHANGED <<ht, links, size, cursor, pending>>

HashListTableGetListHead ==
  /\ ht # "none"
  /\ cursor' = listhead
  /\ pending' = alive \ {listhead}
  /\ resp' = [call |-> "head", out |-> listhead]
  /\ UNCHANGED <<ht, links, data, size>>

HashListTableGetListNext ==
  /\ cursor # NULL
  /\ cursor' = listnext[cursor]
  /\ pending' = pending \ {listnext[cursor]}
  /\ resp' = [call |-> "next", item |-> cursor, out |-> listnext[cursor]]
  /\ UNCHANGED <<ht, links, data, size>>

\* The table is freed along its chains.
HashListTableFree ==
  /\ ht # "none"
  /\ ht' = "none"
  /\ alive' = alive \ UNION {{s[Len(s)] : s \in Walks(h)} : h \in Slots}
  /\ array' = NoArray
  /\ bucknext' = NoLinks /\ listnext' = NoLinks /\ listprev' = NoLinks
  /\ listhead' = NULL /\ listtail' = NULL
  /\ data' = NoLinks /\ size' = NoLinks
  /\ cursor' = NULL /\ pending' = {}
  /\ resp' = [call |-> "free"]

Next ==
  \/ HashListTableInit
  \/ HashListTableInitFails
  \/ \E n \in Nodes, k \in Keys : HashListTableAdd(n, k)
  \/ HashListTableAddFails
  \/ \E k \in Keys : HashListTableRemove(k)
  \/ \E k \in Keys : HashListTableLookup(k)
  \/ HashListTableGetListHead
  \/ HashListTableGetListNext
  \/ HashListTableFree

Spec == Init /\ [][Next]_vars

-----------------------------------------------------------------------------
TypeOK ==
  /\ ht \in {"none", "given", "default"}
  /\ array \in [Slots -> Ptr]
  /\ bucknext \in [Nodes -> Ptr] /\ listnext \in [Nodes -> Ptr] /\ listprev \in [Nodes -> Ptr]
  /\ listhead \in Ptr /\ listtail \in Ptr
  /\ alive \subseteq Nodes
  /\ data \in [Nodes -> Keys \cup {NULL}] /\ size \in [Nodes -> Nat \cup {NULL}]
  /\ alive = {n \in Nodes : data[n] # NULL}
  /\ cursor \in Ptr
  /\ pending \subseteq Nodes

\* The orders of the allocated nodes.
Orders == {s \in [1..Cardinality(alive) -> alive] :
             \A i, j \in 1..Cardinality(alive) : s[i] = s[j] => i = j}

After(s, i)  == IF i = Len(s) THEN NULL ELSE s[i + 1]
Before(s, i) == IF i = 1 THEN NULL ELSE s[i - 1]

\* The fields are of their types, and the list of listhead, listnext, listprev and
\* listtail is one line through all the buckets there are, the same forwards and
\* backwards.
ListIsOneLine ==
  /\ TypeOK
  /\ IF alive = {} THEN listhead = NULL /\ listtail = NULL
     ELSE \E s \in Orders :
            /\ listhead = s[1] /\ listtail = s[Len(s)]
            /\ \A i \in 1..Len(s) : listnext[s[i]] = After(s, i) /\ listprev[s[i]] = Before(s, i)

\* The two structures hold the same buckets: each is once in the chain of its
\* hash and in no other, also after compares that overwrote its datum.
ChainsPartitionTheList ==
  \A n \in alive :
    /\ size[n] = SizeOf[data[n]]
    /\ \A h \in Slots : Cardinality({s \in Walks(h) : s[Len(s)] = n})
                          = IF h = HashOf[data[n]] THEN 1 ELSE 0

\* Free walks the chains only; nothing that is just in the list is left behind.
FreeReleasesAll == ht = "none" => alive = {}

\* A loop over the list, with adds and removals of other buckets between its
\* steps, is at a bucket that exists and ends having met every bucket that was
\* there when it began and still is.
LoopMeetsAll ==
  /\ cursor # NULL => cursor \in alive
  /\ cursor = NULL => pending = {}

\* The list from listhead on.
InOrder ==
  IF alive = {} THEN <<>>
  ELSE LET s == CHOOSE s \in Orders :
                  s[1] = listhead /\ \A i \in 1..(Len(s) - 1) : s[i + 1] = listnext[s[i]]
       IN  [i \in 1..Len(s) |-> [item |-> s[i], key |-> data[s[i]]]]

Store == INSTANCE OrderedStore WITH Nothing <- NULL, order <- InOrder, event <- resp

\* With a compare that compares: the table keeps its items in the order they were
\* added, and remove and lookup mean the newest item of the key.
RefinesOrderedStore ==
  Store!Init /\ [][ht' # "default" => Store!Effect(resp')]_(Store!vars)
=============================================================================
