------------------------------ MODULE UtilList ------------------------------
(***************************************************************************)
(* The doubly linked lists of public/util_list.h, at the level of their    *)
(* pointers.  A list is a ring of list_head structs through its head.  The *)
(* helpers work on a memory m of `next` and `prev` fields, one assignment  *)
(* after the other, as the C code does.  Callers keep the header's rules:  *)
(* an entry is in one list, a spliced head is initialised again before it  *)
(* is used, a list is not joined to itself.                                *)
(*                                                                         *)
(* One loop runs in between, forward or backward, from the head or from an *)
(* entry.  A safe loop has saved its next entry, and its body is any       *)
(* sequence of the other calls that leaves that entry alone; a plain loop  *)
(* reads its next entry late, and its body leaves the current one alone.   *)
(***************************************************************************)
EXTENDS ListCells

Ptr == Cells \cup {POISON1, POISON2, UNSET}

VARIABLES next, prev,
          stale,   \* history: the heads spliced away and not initialised since
          loop,    \* the running loop: its head, its way, pos, n if it saves one
          todo,    \* history: the entries it has to meet yet
          call     \* the last call and its arguments

vars == <<next, prev, stale, loop, todo, call>>

M == [next |-> next, prev |-> prev]
Becomes(m) == next' = m.next /\ prev' = m.prev

-----------------------------------------------------------------------------
SetNext(m, x, v) == [m EXCEPT !.next[x] = v]
SetPrev(m, x, v) == [m EXCEPT !.prev[x] = v]

INIT_LIST_HEAD(m, list) == SetPrev(SetNext(m, list, list), list, list)

\* __list_add: newer between the consecutive p and n.
AddBetween(m, newer, p, n) ==
  SetNext(SetPrev(SetNext(SetPrev(m, n, newer), newer, n), newer, p), p, newer)

\* A definition named Mut... is a faulty form of one that follows it, for the
\* sensitivity runs of PROJECT.json; nothing else uses it.
MutOneWay(m, p, n)  == SetNext(m, p, n)

\* __list_del, __list_del_entry.
DelBetween(m, p, n) == SetNext(SetPrev(m, n, p), p, n)
DelEntry(m, e)      == DelBetween(m, m.prev[e], m.next[e])

list_add(m, newer, head)      == AddBetween(m, newer, head, m.next[head])
list_add_tail(m, newer, head) == AddBetween(m, newer, m.prev[head], head)

list_del(m, e)      == SetPrev(SetNext(DelEntry(m, e), e, POISON1), e, POISON2)
list_del_init(m, e) == INIT_LIST_HEAD(DelEntry(m, e), e)

list_replace(m, old, newer) ==
  LET a == SetNext(m, newer, m.next[old])
      b == SetPrev(a, a.next[newer], newer)
      c == SetPrev(b, newer, b.prev[old])
  IN  SetNext(c, c.prev[newer], newer)
list_replace_init(m, old, newer) == INIT_LIST_HEAD(list_replace(m, old, newer), old)

list_move(m, e, head)      == list_add(DelEntry(m, e), e, head)
list_move_tail(m, e, head) == list_add_tail(DelEntry(m, e), e, head)

list_empty(m, head)         == m.next[head] = head
list_empty_careful(m, head) == m.next[head] = head /\ m.next[head] = m.prev[head]
list_is_last(m, list, head) == m.next[list] = head
list_is_singular(m, head)   == ~list_empty(m, head) /\ m.next[head] = m.prev[head]

list_rotate_left(m, head) ==
  IF list_empty(m, head) THEN m ELSE list_move_tail(m, m.next[head], head)

\* __list_cut_position.
CutAt(m, list, head, entry) ==
  LET new_first == m.next[entry]
      a == SetNext(m, list, m.next[head])
      b == SetPrev(a, a.next[list], list)
      c == SetNext(SetPrev(b, list, entry), entry, list)
  IN  SetPrev(SetNext(c, head, new_first), new_first, head)

list_cut_position(m, list, head, entry) ==
  IF \/ list_empty(m, head)
     \/ list_is_singular(m, head) /\ m.next[head] # entry /\ head # entry
  THEN m
  ELSE IF entry = head THEN INIT_LIST_HEAD(m, list) ELSE CutAt(m, list, head, entry)

\* __list_splice.
SpliceBetween(m, list, p, n) ==
  LET first == m.next[list]
      last  == m.prev[list]
  IN  SetPrev(SetNext(SetNext(SetPrev(m, first, p), p, first), last, n), n, last)

list_splice(m, list, head) ==
  IF list_empty(m, list) THEN m ELSE SpliceBetween(m, list, head, m.next[head])
list_splice_tail(m, list, head) ==
  IF list_empty(m, list) THEN m ELSE SpliceBetween(m, list, m.prev[head], head)

\* The _init variants touch the list only when it was not empty.
Reinit(m, list, spliced) == IF list_empty(m, list) THEN m ELSE INIT_LIST_HEAD(spliced, list)

\* list_whole_move as the block commented out in its body would have it.
MutStealsRing(m, s, d) ==
  LET a == SetNext(SetPrev(m, d, m.prev[s]), d, m.next[s])
  IN  IF list_empty(m, s) THEN m
      ELSE INIT_LIST_HEAD(SetPrev(SetNext(a, a.prev[s], d), a.next[s], d), s)

\* list_for_each_safe(pos, n, s) list_move_tail(pos, d).
list_whole_move(m, s, d) ==
  LET run[i \in 0..Cardinality(Nodes)] ==   \* after i rounds
        IF i = 0 THEN [m |-> m, pos |-> m.next[s], n |-> m.next[m.next[s]]]
        ELSE LET r == run[i - 1] IN
             IF r.pos = s THEN r
             ELSE LET moved == list_move_tail(r.m, r.pos, d)
                  IN  [m |-> moved, pos |-> r.n, n |-> moved.next[r.n]]
  IN  INIT_LIST_HEAD(run[Cardinality(Nodes)].m, s)

list_whole_append(m, s, d) ==
  LET a == SetNext(m, m.prev[d], m.next[s])
      b == SetPrev(a, a.next[s], a.prev[d])
      c == SetPrev(b, d, b.prev[s])
  IN  IF list_empty(m, s) THEN m ELSE INIT_LIST_HEAD(SetNext(c, c.prev[s], d), s)

-----------------------------------------------------------------------------
Entries(h) == IF h \in stale THEN <<>> ELSE Way(next, h)

InList(n)     == \E h \in Heads : n \in ToSet(Entries(h))
Usable(h)     == h \notin stale
Looping       == loop.head \in Heads
\* What the loop's body may not take away.
Pinned        == IF loop.safe THEN loop.n ELSE loop.pos
Unpinned(n)   == ~Looping \/ n # Pinned
\* Whole-list calls stay off the list that is being walked.
NotLooped(h)  == loop.head # h

NoLoop == [head |-> UNSET, way |-> "next", safe |-> FALSE, pos |-> UNSET, n |-> UNSET]

Init ==
  /\ next = [c \in Cells |-> IF c \in Heads THEN c ELSE UNSET]
  /\ prev = next
  /\ stale = {}
  /\ loop = NoLoop
  /\ todo = {}
  /\ call = <<"none">>

Add(n, h, c) ==
  /\ ~InList(n) /\ Usable(h) /\ c \in {h} \cup ToSet(Entries(h))
  /\ \/ Becomes(list_add(M, n, c)) /\ call' = <<"list_add", n, h, c>>
     \/ Becomes(list_add_tail(M, n, c)) /\ call' = <<"list_add_tail", n, h, c>>
  /\ UNCHANGED <<stale, loop, todo>>

Del(n) ==
  /\ InList(n) /\ Unpinned(n)
  /\ \/ Becomes(list_del(M, n))
     \/ Becomes(list_del_init(M, n))
  /\ todo' = todo \ {n}
  /\ call' = <<"list_del", n>>
  /\ UNCHANGED <<stale, loop>>

Replace(old, n) ==
  /\ InList(old) /\ Unpinned(old) /\ ~InList(n)
  /\ \/ Becomes(list_replace(M, old, n))
     \/ Becomes(list_replace_init(M, old, n))
  /\ todo' = todo \ {old}
  /\ call' = <<"list_replace", old, n>>
  /\ UNCHANGED <<stale, loop>>

\* list_replace_init on a head: its list goes to an empty head.
ReplaceHead(g, h) ==
  /\ g # h /\ Usable(g) /\ NotLooped(g) /\ Entries(h) = <<>> /\ NotLooped(h)
  /\ Becomes(list_replace_init(M, g, h))
  /\ stale' = stale \ {h}
  /\ call' = <<"list_splice", g, h>>
  /\ UNCHANGED <<loop, todo>>

Move(n, h) ==
  /\ InList(n) /\ Unpinned(n) /\ Usable(h)
  /\ \/ Becomes(list_move(M, n, h)) /\ call' = <<"list_move", n, h>>
     \/ Becomes(list_move_tail(M, n, h)) /\ call' = <<"list_move_tail", n, h>>
  /\ todo' = todo \ {n}
  /\ UNCHANGED <<stale, loop>>

Rotate(h) ==
  /\ Usable(h) /\ NotLooped(h)
  /\ Becomes(list_rotate_left(M, h))
  /\ call' = <<"list_rotate_left", h>>
  /\ UNCHANGED <<stale, loop, todo>>

Cut(g, h, c) ==
  /\ g # h /\ Usable(g) /\ Entries(g) = <<>> /\ NotLooped(g)
  /\ Usable(h) /\ NotLooped(h) /\ c \in {h} \cup ToSet(Entries(h))
  /\ Becomes(list_cut_position(M, g, h, c))
  /\ call' = <<"list_cut_position", g, h, c>>
  /\ UNCHANGED <<stale, loop, todo>>

Splice(g, h) ==
  /\ g # h /\ Usable(g) /\ NotLooped(g) /\ Usable(h)
  /\ \/ Becomes(list_splice(M, g, h)) /\ call' = <<"list_splice", g, h>>
     \/ Becomes(list_splice_tail(M, g, h)) /\ call' = <<"list_splice_tail", g, h>>
  /\ stale' = IF list_empty(M, g) THEN stale ELSE stale \cup {g}
  /\ UNCHANGED <<loop, todo>>

SpliceInit(g, h) ==
  /\ g # h /\ Usable(g) /\ NotLooped(g) /\ Usable(h)
  /\ \/ /\ Becomes(Reinit(M, g, list_splice(M, g, h)))
        /\ call' = <<"list_splice", g, h>>
     \/ /\ \/ Becomes(Reinit(M, g, list_splice_tail(M, g, h)))
           \/ Becomes(list_whole_move(M, g, h))
           \/ Becomes(list_whole_append(M, g, h))
        /\ call' = <<"list_splice_tail", g, h>>
  /\ UNCHANGED <<stale, loop, todo>>

InitHead(h) ==
  /\ h \in stale
  /\ Becomes(INIT_LIST_HEAD(M, h))
  /\ stale' = stale \ {h}
  /\ call' = <<"INIT_LIST_HEAD">>
  /\ UNCHANGED <<loop, todo>>

-----------------------------------------------------------------------------
Along(w) == IF w = "next" THEN next ELSE prev

\* The entries of the list h behind its entry c, the way w.
Ahead(h, w, c) ==
  LET s == IF w = "next" THEN Entries(h) ELSE Reverse(Entries(h))
  IN  ToSet(SubSeq(s, SelectInSeq(s, LAMBDA x : x = c) + 1, Len(s)))

\* A loop is at the entry c: the first of the list, or any other for the macros
\* that go on from, or behind, an entry the caller has.
At(h, w, safe, c) ==
  [head |-> h, way |-> w, safe |-> safe, pos |-> c, n |-> IF safe THEN Along(w)[c] ELSE UNSET]

LoopStart(h, w, safe, c) ==
  /\ ~Looping /\ Usable(h) /\ c \in ToSet(Entries(h))
  /\ loop' = At(h, w, safe, c)
  /\ todo' = Ahead(h, w, c)
  /\ call' = <<"none">>
  /\ UNCHANGED <<next, prev, stale>>

\* pos = n in a safe loop, pos = pos->next (or prev) in a plain one.
Following == IF loop.safe THEN loop.n ELSE Along(loop.way)[loop.pos]

\* The loop ends at its head.
MutSwapped ==
  /\ Looping
  /\ loop' = IF Following = loop.head THEN NoLoop
             ELSE [loop EXCEPT !.pos = Following, !.n = Along(loop.way)[loop.pos]]
  /\ todo' = todo \ {Following}
  /\ call' = <<"none">>
  /\ UNCHANGED <<next, prev, stale>>
LoopStep ==
  /\ Looping
  /\ loop' = IF Following = loop.head THEN NoLoop
             ELSE At(loop.head, loop.way, loop.safe, Following)
  /\ todo' = todo \ {Following}
  /\ call' = <<"none">>
  /\ UNCHANGED <<next, prev, stale>>

\* The body of a safe loop lets others at the list while pos is in its place, from
\* now on pinned there, and ends with list_safe_reset_next.
LetGo ==
  /\ Looping /\ loop.safe /\ loop.way = "next"
  /\ loop.pos \in ToSet(Entries(loop.head)) /\ loop.n = next[loop.pos]
  /\ loop' = [loop EXCEPT !.safe = FALSE, !.n = UNSET]
  /\ call' = <<"none">>
  /\ UNCHANGED <<next, prev, stale, todo>>

ResetNext == At(loop.head, "next", TRUE, loop.pos)

list_safe_reset_next ==
  /\ Looping /\ ~loop.safe /\ loop.way = "next"
  /\ loop' = ResetNext
  /\ call' = <<"none">>
  /\ UNCHANGED <<next, prev, stale, todo>>

Next ==
  \/ \E n \in Nodes, h \in Heads, c \in Cells : Add(n, h, c)
  \/ \E n \in Nodes : Del(n)
  \/ \E n, o \in Nodes : Replace(o, n)
  \/ \E n \in Nodes, h \in Heads : Move(n, h)
  \/ \E h \in Heads : Rotate(h) \/ InitHead(h)
  \/ \E g, h \in Heads : ReplaceHead(g, h) \/ Splice(g, h) \/ SpliceInit(g, h)
  \/ \E g, h \in Heads, c \in Cells : Cut(g, h, c)
  \/ \E h \in Heads, c \in Nodes, w \in {"next", "prev"}, safe \in BOOLEAN :
       LoopStart(h, w, safe, c)
  \/ LoopStep \/ LetGo \/ list_safe_reset_next

Spec == Init /\ [][Next]_vars

-----------------------------------------------------------------------------
TypeOK ==
  /\ next \in [Cells -> Ptr] /\ prev \in [Cells -> Ptr]
  /\ stale \subseteq Heads
  /\ loop \in [head : Heads \cup {UNSET}, way : {"next", "prev"}, safe : BOOLEAN,
               pos : Nodes \cup {UNSET}, n : Cells \cup {UNSET}]
  /\ todo \subseteq Nodes

\* Whatever calls ran, in whatever order: the fields are of their types, every list is a closed ring that the
\* backward macros walk in reverse, and no entry is in two lists.
RingsClosedBothWays ==
  /\ TypeOK
  /\ \A h \in Heads \ stale :
       LET s == Entries(h) IN
       /\ IsInjective(s)
       /\ \A e \in ToSet(s) : list_is_last(M, e, h) <=> e = Last(s)
       /\ Way(prev, h) = Reverse(s)
       /\ list_empty_careful(M, h) <=> s = <<>>
  /\ \A g, h \in Heads : g # h => ToSet(Entries(g)) \cap ToSet(Entries(h)) = {}

\* A loop whose body adds, removes, replaces and moves entries, forward or backward,
\* stays in its list and ends having met every entry that lay ahead when it began
\* and that nobody has taken out since.
LoopMeetsAll ==
  /\ Looping => Pinned \in {loop.head} \cup ToSet(Entries(loop.head))
  /\ ~Looping => todo = {}

Abstract == INSTANCE Lists WITH lists <- [h \in Heads |-> Entries(h)]

\* The pointer operations do to the sequences of entries what their comments say.
RefinesLists == Abstract!Spec

Old == INSTANCE OldList WITH NULL <- POISON1

\* The demo program's older header and this one are interchangeable: on every memory
\* that calls can lead to, their functions leave the same memory, but for what a
\* deleted entry points to.
OlderHeaderAgrees ==
  /\ \A h \in Heads \ stale :
       /\ Old!list_empty(M, h) <=> list_empty(M, h)
       /\ \A n \in Nodes, c \in {h} \cup ToSet(Entries(h)) :
            ~InList(n) => /\ Old!list_add(M, n, c) = list_add(M, n, c)
                          /\ Old!list_add_tail(M, n, c) = list_add_tail(M, n, c)
       /\ \A g \in Heads \ (stale \cup {h}) :
            /\ Old!list_splice(M, g, h) = list_splice(M, g, h)
            /\ Old!list_replace_init(M, g, h) = list_replace_init(M, g, h)
  /\ \A e \in Nodes : InList(e) =>
       /\ SetPrev(Old!list_del(M, e), e, POISON2) = list_del(M, e)
       /\ \A n \in Nodes : Old!list_replace(M, e, n) = list_replace(M, e, n)
       /\ \A h \in Heads \ stale :
            /\ Old!list_move(M, e, h) = list_move(M, e, h)
            /\ Old!list_move_tail(M, e, h) = list_move_tail(M, e, h)
=============================================================================
