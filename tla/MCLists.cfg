SPECIFICATION Spec
CONSTANTS
  h1 = h1
  h2 = h2
  n1 = n1
  n2 = n2
  n3 = n3
  Heads <- MCHeads
  Nodes <- MCNodes
  POISON1 = POISON1
  POISON2 = POISON2
  NULL = NULL
  UNSET = UNSET
INVARIANTS RingsClosedBothWays LoopMeetsAll OlderHeaderAgrees
PROPERTIES RefinesLists
SYMMETRY Symmetry
