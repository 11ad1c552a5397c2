------------------------------- MODULE Lists -------------------------------
(***************************************************************************)
(* What the list operations of public/util_list.h promise in their         *)
(* comments: every head stands for a sequence of entries.  A place in a    *)
(* list is its head or one of its entries.                                 *)
(***************************************************************************)
EXTENDS Integers, SequencesExt

CONSTANTS Heads, Nodes

VARIABLES lists,   \* head -> its entries, first to last
          call     \* the operation just done

vars == <<lists, call>>

Holds(h, n) == n \in ToSet(lists[h])
Loose(n)    == \A h \in Heads : ~Holds(h, n)

\* The number of entries up to and with the place c; c is a place of the list h.
Pos(s, h, c)  == IF c = h THEN 0 ELSE CHOOSE i \in 1..Len(s) : s[i] = c
IsPlace(h, c) == c = h \/ Holds(h, c)

Without(s, n) == RemoveFirst(s, n)
Put(s, i, t)  == SubSeq(s, 1, i) \o t \o SubSeq(s, i + 1, Len(s))

\* "Insert a newer entry after the specified head."
list_add(n, h, c) ==
  /\ Loose(n) /\ IsPlace(h, c)
  /\ lists' = [lists EXCEPT ![h] = Put(@, Pos(@, h, c), <<n>>)]

\* "Insert a newer entry before the specified head."
list_add_tail(n, h, c) ==
  /\ Loose(n) /\ IsPlace(h, c)
  /\ lists' = [lists EXCEPT ![h] = Put(@, IF c = h THEN Len(@) ELSE Pos(@, h, c) - 1, <<n>>)]

list_del(n) == lists' = [h \in Heads |-> Without(lists[h], n)]

\* "Delete from one list and add as another's head" and "tail".
list_move(n, h)      == lists' = [g \in Heads |->
  (IF g = h THEN <<n>> ELSE <<>>) \o Without(lists[g], n)]
list_move_tail(n, h) == lists' = [g \in Heads |->
  Without(lists[g], n) \o (IF g = h THEN <<n>> ELSE <<>>)]

list_replace(old, n) ==
  /\ Loose(n)
  /\ lists' = [h \in Heads |-> [i \in 1..Len(lists[h]) |->
                 IF lists[h][i] = old THEN n ELSE lists[h][i]]]

list_rotate_left(h) ==
  lists' = [lists EXCEPT ![h] = IF @ = <<>> THEN @ ELSE Tail(@) \o <<Head(@)>>]

\* "Moves the initial part of h, up to and including c, from h to g."
list_cut_position(g, h, c) ==
  /\ lists[g] = <<>> /\ IsPlace(h, c)
  /\ LET i == Pos(lists[h], h, c) IN
     lists' = [lists EXCEPT ![g] = SubSeq(lists[h], 1, i),
                            ![h] = SubSeq(@, i + 1, Len(@))]

\* "Join two lists": the entries of g come in front of, or behind, those of h.
list_splice(g, h)      == lists' = [lists EXCEPT ![h] = lists[g] \o @, ![g] = <<>>]
list_splice_tail(g, h) == lists' = [lists EXCEPT ![h] = @ \o lists[g], ![g] = <<>>]

Init == lists = [h \in Heads |-> <<>>] /\ call = <<"none">>

\* The effect of the operation `call` names, with its arguments.
Effect(c) ==
  CASE c[1] = "list_add"          -> list_add(c[2], c[3], c[4])
    [] c[1] = "list_add_tail"     -> list_add_tail(c[2], c[3], c[4])
    [] c[1] = "list_del"          -> list_del(c[2])
    [] c[1] = "list_move"         -> list_move(c[2], c[3])
    [] c[1] = "list_move_tail"    -> list_move_tail(c[2], c[3])
    [] c[1] = "list_replace"      -> list_replace(c[2], c[3])
    [] c[1] = "list_rotate_left"  -> list_rotate_left(c[2])
    [] c[1] = "list_cut_position" -> list_cut_position(c[2], c[3], c[4])
    [] c[1] = "list_splice"       -> list_splice(c[2], c[3])
    [] c[1] = "list_splice_tail"  -> list_splice_tail(c[2], c[3])
    [] OTHER                      -> UNCHANGED lists

Spec == Init /\ [][Effect(call')]_vars
=============================================================================
