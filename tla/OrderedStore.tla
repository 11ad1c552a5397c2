---------------------------- MODULE OrderedStore ----------------------------
(***************************************************************************)
(* What a hash table with a list promises: its items in the order they     *)
(* were added; a key stands for the newest item added under it.  A step is *)
(* labelled with the call and its answer, and has the effect of that call. *)
(***************************************************************************)
EXTENDS Integers, SequencesExt

CONSTANTS Nothing

VARIABLES order,   \* the items with their keys, oldest first
          event    \* the last call, its arguments and its answer

vars == <<order, event>>

Newest(k) == SelectLastInSeq(order, LAMBDA x : x.key = k)

Init == order = <<>> /\ event.call = "none"

\* An add may fail, and then does nothing.
Add(e) ==
  \/ e.ret = -1 /\ UNCHANGED order
  \/ e.ret = 0 /\ order' = Append(order, [item |-> e.item, key |-> e.key])

RemoveNewest(e) ==
  \/ Newest(e.key) = 0 /\ e.ret = -1 /\ UNCHANGED order
  \/ Newest(e.key) # 0 /\ e.ret = 0 /\ order' = RemoveAt(order, Newest(e.key))

Lookup(e) ==
  /\ e.out = IF Newest(e.key) = 0 THEN Nothing ELSE order[Newest(e.key)].item
  /\ UNCHANGED order

GetListHead(e) ==
  /\ e.out = IF order = <<>> THEN Nothing ELSE order[1].item
  /\ UNCHANGED order

GetListNext(e) ==
  /\ \E i \in 1..Len(order) :
       /\ order[i].item = e.item
       /\ e.out = IF i = Len(order) THEN Nothing ELSE order[i + 1].item
  /\ UNCHANGED order

Effect(e) ==
  CASE e.call = "add"    -> Add(e)
    [] e.call = "remove" -> RemoveNewest(e)
    [] e.call = "lookup" -> Lookup(e)
    [] e.call = "head"   -> GetListHead(e)
    [] e.call = "next"   -> GetListNext(e)
    [] e.call = "free"   -> order' = <<>>
    [] OTHER             -> UNCHANGED order
=============================================================================
