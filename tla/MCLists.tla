------------------------------ MODULE MCLists ------------------------------
(***************************************************************************)
(* Two rings of up to three entries: a first, a middle and a last one,     *)
(* with the other list empty, singular or longer.                          *)
(***************************************************************************)
EXTENDS UtilList

CONSTANTS h1, h2, n1, n2, n3
MCHeads  == {h1, h2}
MCNodes  == {n1, n2, n3}
Symmetry == Permutations(MCHeads) \cup Permutations(MCNodes)
=============================================================================
