----------------------------- MODULE ListCells -----------------------------
(***************************************************************************)
(* What the two kinds of lists of public/util_list.h share: the structs    *)
(* that heads and entries are, the values a pointer can have, and how a    *)
(* loop macro walks.                                                       *)
(***************************************************************************)
EXTENDS Integers, SequencesExt

CONSTANTS Heads, Nodes,
          NULL, POISON1, POISON2,   \* LIST_POISON1, LIST_POISON2 of util_poison.h
          UNSET                     \* what a struct nobody initialised holds

ASSUME CellsAssumption ==
  /\ IsFiniteSet(Heads \cup Nodes)
  /\ Heads \cap Nodes = {}
  /\ {NULL, POISON1, POISON2, UNSET} \cap (Heads \cup Nodes) = {}
  /\ NULL \notin {POISON1, POISON2, UNSET}

Cells == Heads \cup Nodes

\* The entries met from the head h along the pointers f.
Way(f, h) ==
  LET cell[i \in 0..Cardinality(Cells)] ==
        IF i = 0 THEN h ELSE IF cell[i - 1] \in Cells THEN f[cell[i - 1]] ELSE UNSET
      size == CHOOSE i \in 0..Cardinality(Cells) :
                /\ i = Cardinality(Cells) \/ cell[i + 1] \notin Nodes
                /\ \A j \in 1..i : cell[j] \in Nodes
  IN  [i \in 1..size |-> cell[i]]
=============================================================================
