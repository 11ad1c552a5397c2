SPECIFICATION PartsSpec
CONSTANTS
  h1 = h1
  h2 = h2
  n1 = n1
  n2 = n2
  n3 = n3
  n4 = n4
  Heads <- MCHeads
  Nodes <- MCNodes
  POISON1 = POISON1
  POISON2 = POISON2
  NULL = NULL
  UNSET = UNSET
  Num = 4
  Index = 3
  WILD = WILD
  Slash = 1
  Dash = 2
  Letter = 3
  MaxLabel = 2
  MAX_DNAME_LEN = 6
  MAX_DNS_PKT_LEN = 5
  BufLen = 12
  Packets <- MCPackets
  DOT = DOT
  Names <- MCNames
  Kept6 <- KeptOf6
  Kept4 <- KeptOf4
  Rules <- MCRules
  Sizes <- MCSizes
INVARIANTS PprevPointsBack UnhashedIsOutside ChainLoopMeetsAll
INVARIANTS  MeasuresTheName NameIsInFront SegsAreSuffixes
INVARIANTS MaskKeepsThePrefix TextDenotesTheAddress RefusesOnlyTheTooLong
PROPERTIES ChainsRefineLists
SYMMETRY Symmetry
