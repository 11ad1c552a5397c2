----------------------------- MODULE UtilHlist -----------------------------
(***************************************************************************)
(* The lists with a single-pointer head of public/util_list.h (hlist_...), *)
(* at the level of their pointers.  ptr is `first` of a head and `next` of *)
(* a node; pprev, the address of the pointer that points to the node, is   *)
(* named by the struct that pointer is in.  Callers keep the header's      *)
(* rules: a node is added when it is in no list, a list is moved to an     *)
(* empty head, a fake list is made of an initialised node.                 *)
(*                                                                         *)
(* One loop runs in between, from a head or from a node.  A safe loop has  *)
(* saved its next node and its body leaves that node alone; a plain loop   *)
(* reads its next node late and its body leaves the current one alone.     *)
(***************************************************************************)
EXTENDS ListCells

VARIABLES ptr, pprev,
          loop,  \* the running loop: whether it saves its next node, pos and n
          todo,  \* history: the nodes it has to meet yet
          call   \* the last call and its arguments

vars == <<ptr, pprev, loop, todo, call>>

M == [ptr |-> ptr, pprev |-> pprev]
Becomes(m) == ptr' = m.ptr /\ pprev' = m.pprev

-----------------------------------------------------------------------------
SetPtr(m, x, v)   == [m EXCEPT !.ptr[x] = v]
SetPprev(m, x, v) == [m EXCEPT !.pprev[x] = v]

INIT_HLIST_NODE(m, n) == SetPprev(SetPtr(m, n, NULL), n, NULL)

\* A definition named Mut... is a faulty form of one that follows it, for the
\* sensitivity runs of PROJECT.json; nothing else uses it.
hlist_unhashed(m, n) == m.pprev[n] = NULL
hlist_empty(m, h)    == m.ptr[h] = NULL

\* __hlist_del
MutForgetsNext(m, n) == SetPtr(m, m.pprev[n], m.ptr[n])
Unlink(m, n) ==
  LET a == SetPtr(m, m.pprev[n], m.ptr[n])
  IN  IF m.ptr[n] = NULL THEN a ELSE SetPprev(a, m.ptr[n], m.pprev[n])

hlist_del(m, n)      == SetPprev(SetPtr(Unlink(m, n), n, POISON1), n, POISON2)
MutOnlyUnlinks(m, n) == IF hlist_unhashed(m, n) THEN m ELSE Unlink(m, n)
hlist_del_init(m, n) == IF hlist_unhashed(m, n) THEN m ELSE INIT_HLIST_NODE(Unlink(m, n), n)

\* hlist_add_head, and hlist_add_behind: the node goes behind the pointer in c.
AddAfter(m, n, c) ==
  LET first == m.ptr[c]
      a     == SetPprev(SetPtr(SetPtr(m, n, first), c, n), n, c)
  IN  IF first = NULL THEN a ELSE SetPprev(a, first, n)

MutReadsLate(m, n, nxt) ==
  LET a == SetPprev(SetPtr(m, n, nxt), nxt, n)
      b == SetPprev(a, n, a.pprev[nxt])
  IN  SetPtr(b, b.pprev[n], n)
hlist_add_before(m, n, nxt) ==
  LET a == SetPprev(SetPtr(SetPprev(m, n, m.pprev[nxt]), n, nxt), nxt, n)
  IN  SetPtr(a, a.pprev[n], n)

hlist_add_fake(m, n) == SetPprev(m, n, n)

hlist_move_list(m, old, newer) ==
  LET a == SetPtr(m, newer, m.ptr[old])
      b == IF a.ptr[newer] = NULL THEN a ELSE SetPprev(a, a.ptr[newer], newer)
  IN  SetPtr(b, old, NULL)

-----------------------------------------------------------------------------
Entries(h) == Way(ptr, h)

InList(n) == \E h \in Heads : n \in ToSet(Entries(h))
Fake(n)   == pprev[n] = n

\* The nodes behind the node n of a list.
Behind(n) ==
  LET s == Entries(CHOOSE h \in Heads : n \in ToSet(Entries(h)))
  IN  ToSet(SubSeq(s, SelectInSeq(s, LAMBDA x : x = n) + 1, Len(s)))

NoLoop      == [safe |-> FALSE, pos |-> NULL, n |-> NULL]
Looping     == loop.pos # NULL
Pinned      == IF loop.safe THEN loop.n ELSE loop.pos
Unpinned(n) == ~Looping \/ n # Pinned

Init ==
  /\ ptr = [c \in Cells |-> IF c \in Heads THEN NULL ELSE UNSET]
  /\ pprev = [n \in Nodes |-> UNSET]
  /\ loop = NoLoop
  /\ todo = {}
  /\ call = <<"none">>

InitNode(n) ==
  /\ ~InList(n)
  /\ Becomes(INIT_HLIST_NODE(M, n))
  /\ call' = <<"none">>
  /\ UNCHANGED <<loop, todo>>

AddHead(n, h) ==
  /\ ~InList(n) /\ ~Fake(n)
  /\ Becomes(AddAfter(M, n, h))
  /\ call' = <<"list_add", n, h, h>>
  /\ UNCHANGED <<loop, todo>>

AddBeside(n, h, c) ==
  /\ ~InList(n) /\ ~Fake(n) /\ c \in ToSet(Entries(h))
  /\ \/ Becomes(AddAfter(M, n, c)) /\ call' = <<"list_add", n, h, c>>
     \/ Becomes(hlist_add_before(M, n, c)) /\ call' = <<"list_add_tail", n, h, c>>
  /\ UNCHANGED <<loop, todo>>

AddFake(n) ==
  /\ hlist_unhashed(M, n)
  /\ Becomes(hlist_add_fake(M, n))
  /\ call' = <<"none">>
  /\ UNCHANGED <<loop, todo>>

Del(n) ==
  /\ (InList(n) /\ Unpinned(n)) \/ Fake(n)
  /\ Becomes(hlist_del(M, n))
  /\ todo' = todo \ {n}
  /\ call' = <<"list_del", n>>
  /\ UNCHANGED loop

\* Also of a node that is in no list, when it says so itself.
DelInit(n) ==
  /\ (InList(n) /\ Unpinned(n)) \/ Fake(n) \/ hlist_unhashed(M, n)
  /\ Becomes(hlist_del_init(M, n))
  /\ todo' = todo \ {n}
  /\ call' = <<"list_del", n>>
  /\ UNCHANGED loop

MoveList(old, newer) ==
  /\ old # newer /\ hlist_empty(M, newer)
  /\ Becomes(hlist_move_list(M, old, newer))
  /\ call' = <<"list_splice", old, newer>>
  /\ UNCHANGED <<loop, todo>>

-----------------------------------------------------------------------------
At(safe, n) == [safe |-> safe, pos |-> n, n |-> IF safe THEN ptr[n] ELSE NULL]

\* At the first node of a list, or at any other for the macros that go on from,
\* or behind, a node the caller has.
LoopStart(safe, n) ==
  /\ ~Looping /\ InList(n)
  /\ loop' = At(safe, n)
  /\ todo' = Behind(n)
  /\ call' = <<"none">>
  /\ UNCHANGED <<ptr, pprev>>

\* The loop's next node; the loop ends where there is none.  It knows no head: its
\* list may have been moved to another.
MutSavedEarly == IF loop.safe THEN loop.n ELSE NULL
Following     == IF loop.safe THEN loop.n ELSE ptr[loop.pos]

LoopStep ==
  /\ Looping
  /\ loop' = IF Following = NULL THEN NoLoop ELSE At(loop.safe, Following)
  /\ todo' = todo \ {Following}
  /\ call' = <<"none">>
  /\ UNCHANGED <<ptr, pprev>>

Next ==
  \/ \E n \in Nodes : InitNode(n) \/ AddFake(n) \/ Del(n) \/ DelInit(n)
  \/ \E n \in Nodes, h \in Heads : AddHead(n, h)
  \/ \E n \in Nodes, h \in Heads, c \in Nodes : AddBeside(n, h, c)
  \/ \E g, h \in Heads : MoveList(g, h)
  \/ \E n \in Nodes, safe \in BOOLEAN : LoopStart(safe, n)
  \/ LoopStep

Spec == Init /\ [][Next]_vars

-----------------------------------------------------------------------------
TypeOK ==
  /\ ptr \in [Cells -> Nodes \cup {NULL, POISON1, UNSET}]
  /\ pprev \in [Nodes -> Cells \cup {NULL, POISON2, UNSET}]
  /\ loop \in [safe : BOOLEAN, pos : Nodes \cup {NULL}, n : Nodes \cup {NULL}]
  /\ todo \subseteq Nodes

\* The pointers are of their types, NULL or POISON1 in one field, NULL or POISON2 in the
\* other, and the back pointers agree with the chains after any calls: a node of a list is
\* pointed to from the struct its pprev names, that struct is in the same list, and
\* the last node ends it.  A delete through pprev never writes into another list.
PprevPointsBack ==
  /\ TypeOK
  /\ \A h \in Heads :
       LET s == Entries(h) IN
       /\ \A i \in 1..Len(s) : pprev[s[i]] = IF i = 1 THEN h ELSE s[i - 1]
       /\ ptr[IF s = <<>> THEN h ELSE Last(s)] = NULL

\* hlist_unhashed tells the truth of every node that was initialised and has not
\* been through hlist_del since: hlist_del_init relies on it.
UnhashedIsOutside ==
  \A n \in Nodes : pprev[n] \notin {UNSET, POISON2}
                     => (hlist_unhashed(M, n) <=> ~InList(n) /\ ~Fake(n))

\* A loop whose body adds and deletes nodes, or moves whole lists to other heads,
\* never follows the pointer of a node that has left, and ends having met every
\* node that lay behind when it began and that nobody has deleted since.
ChainLoopMeetsAll ==
  /\ Looping => Pinned = NULL \/ InList(Pinned)
  /\ ~Looping => todo = {}

Abstract == INSTANCE Lists WITH lists <- [h \in Heads |-> Entries(h)]

\* The pointer operations do to the sequences of nodes what their names say.
ChainsRefineLists == Abstract!Spec
=============================================================================
