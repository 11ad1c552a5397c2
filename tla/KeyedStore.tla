----------------------------- MODULE KeyedStore -----------------------------
(***************************************************************************)
(* What a chained hash table promises: for each key, the objects added     *)
(* under it and not yet removed, the newest first.  Buckets, chains and    *)
(* hashing do not show.  A step is labelled with the call and its answer,  *)
(* and has the effect of that call.                                        *)
(***************************************************************************)
EXTENDS Integers, Sequences

CONSTANTS Keys, Nothing

VARIABLES stack,   \* key -> its objects, newest first
          event    \* the last call, its arguments and its answer

vars == <<stack, event>>

Init == stack = [k \in Keys |-> <<>>] /\ event.call = "none"

\* An add may fail, and then does nothing.
Add(e) ==
  \/ e.ret = -1 /\ UNCHANGED stack
  \/ e.ret = 0 /\ stack' = [stack EXCEPT ![e.key] = <<e.obj>> \o @]

Remove(e) ==
  \/ stack[e.key] = <<>> /\ e.ret = -1 /\ UNCHANGED stack
  \/ /\ stack[e.key] # <<>> /\ e.ret = 0
     /\ e.out = Head(stack[e.key])
     /\ stack' = [stack EXCEPT ![e.key] = Tail(@)]

\* Not promised: the removal of a key that is not there takes the only object of
\* another one.
Evict(e) ==
  /\ stack[e.key] = <<>> /\ e.ret = 0
  /\ \E j \in Keys : stack[j] = <<e.out>> /\ stack' = [stack EXCEPT ![j] = <<>>]

Lookup(e) ==
  /\ e.out = IF stack[e.key] = <<>> THEN Nothing ELSE Head(stack[e.key])
  /\ UNCHANGED stack

Effect(e) ==
  CASE e.call = "add"    -> Add(e)
    [] e.call = "remove" -> Remove(e) \/ Evict(e)
    [] e.call = "lookup" -> Lookup(e)
    [] e.call = "free"   -> stack' = [k \in Keys |-> <<>>]
    [] OTHER             -> UNCHANGED stack
=============================================================================
