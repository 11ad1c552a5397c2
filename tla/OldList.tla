------------------------------ MODULE OldList ------------------------------
(***************************************************************************)
(* src/list.h, the list_head functions of the demo program: an older copy  *)
(* of those in public/util_list.h, assignment for assignment.  They work   *)
(* on a memory m of `next` and `prev` fields.  It has no bulk functions    *)
(* and no safe loops, and a deleted entry is not poisoned but NULL.        *)
(***************************************************************************)
EXTENDS Naturals

CONSTANT NULL   \* also LIST_POISON1 and LIST_POISON2

SetNext(m, x, v) == [m EXCEPT !.next[x] = v]
SetPrev(m, x, v) == [m EXCEPT !.prev[x] = v]

INIT_LIST_HEAD(m, list) == SetPrev(SetNext(m, list, list), list, list)

\* A definition named Mut... is a faulty form of one that follows it, for the
\* sensitivity runs of PROJECT.json; nothing else uses it.
MutLinksOnce(m, newer, p, n) == SetNext(SetPrev(SetNext(m, newer, n), newer, p), p, newer)

\* __list_add
AddBetween(m, newer, p, n) ==
  SetNext(SetPrev(SetNext(SetPrev(m, n, newer), newer, n), newer, p), p, newer)

list_add(m, newer, head)      == AddBetween(m, newer, head, m.next[head])
list_add_tail(m, newer, head) == AddBetween(m, newer, m.prev[head], head)

\* __list_del
DelBetween(m, p, n) == SetPrev(SetNext(m, p, n), n, p)

list_del(m, e) ==
  SetPrev(SetNext(DelBetween(m, m.prev[e], m.next[e]), e, NULL), e, NULL)

list_empty(m, head) == m.next[head] = head

\* list_splice; the joined list's head keeps pointing into the entries.
list_splice(m, list, head) ==
  LET first == m.next[list]
      last  == m.prev[list]
      at    == m.next[head]
  IN  IF list_empty(m, list) THEN m
      ELSE SetPrev(SetNext(SetNext(SetPrev(m, first, head), head, first), last, at), at, last)

list_replace(m, old, newer) ==
  LET a == SetNext(m, newer, m.next[old])
      b == SetPrev(a, a.next[newer], newer)
      c == SetPrev(b, newer, b.prev[old])
  IN  SetNext(c, c.prev[newer], newer)
list_replace_init(m, old, newer) == INIT_LIST_HEAD(list_replace(m, old, newer), old)

list_move(m, e, head)      == list_add(DelBetween(m, m.prev[e], m.next[e]), e, head)
list_move_tail(m, e, head) == list_add_tail(DelBetween(m, m.prev[e], m.next[e]), e, head)

list_first_entry(m, head) == m.next[head]
=============================================================================
