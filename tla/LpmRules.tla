------------------------------ MODULE LpmRules ------------------------------
(***************************************************************************)
(* What the LPM table promises, without levels, arrays or expansion: a set *)
(* of prefix rules over addresses that are plain numbers, at most one rule *)
(* for a prefix, and lookups that return the results of the rules whose    *)
(* prefix the address has, as many as the result array takes.  A step is   *)
(* labelled with the call and its answer, and has the effect of that call. *)
(***************************************************************************)
EXTENDS Integers, SequencesExt

CONSTANTS Width,     \* family -> bits of an address
          Tier,      \* length of a prefix -> its tier
          MaxMatch   \* results one lookup returns

VARIABLES rules,   \* [fam, len, net, res]: the prefix `net` of `len` bits
          event    \* the last call: [op, fam, x, len, res] or [op, fam, x, out]

vars == <<rules, event>>

Shift(f, len) == 2^(Width[f] - len)
Net(e)        == e.x \div Shift(e.fam, e.len)

Others(e)       == {k \in rules : <<k.fam, k.len, k.net>> # <<e.fam, e.len, Net(e)>>}
Covers(k, f, x) == k.fam = f /\ k.net = x \div Shift(f, k.len)

\* The order results may come in: rules of a lower tier first.
TierOrdered(s) ==
  \A i, j \in DOMAIN s : i < j => Tier[s[i].len] <= Tier[s[j].len]

Init == rules = {} /\ event.op = "none"

Add(e) ==
  rules' = Others(e) \cup {[fam |-> e.fam, len |-> e.len, net |-> Net(e), res |-> e.res]}

Del(e) == rules' = Others(e)

Match(e) ==
  /\ \E s \in SetToSeqs({k \in rules : Covers(k, e.fam, e.x)}) :
       /\ TierOrdered(s)
       /\ e.out = [i \in {j \in DOMAIN s : j <= MaxMatch} |-> s[i].res]
  /\ UNCHANGED rules

Effect(e) ==
  CASE e.op = "OP_ADD" -> Add(e)
    [] e.op = "OP_DEL" -> Del(e)
    [] e.op = "match"  -> Match(e)
    [] e.op = "free"   -> rules' = {}
    [] OTHER           -> UNCHANGED rules

Spec == Init /\ [][Effect(event')]_vars
=============================================================================
