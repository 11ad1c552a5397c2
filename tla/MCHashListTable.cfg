SPECIFICATION Spec
CONSTANTS
  n1 = n1
  n2 = n2
  n3 = n3
  Nodes <- MCNodes
  NULL = NULL
  Keys <- MCKeys
  SizeOf <- MCSizeOf
  HashOf <- MCHashOf
  UINT32_RANGE = 65536
  array_size = 2
SYMMETRY Symmetry
INVARIANTS ListIsOneLine ChainsPartitionTheList LoopMeetsAll FreeReleasesAll
PROPERTIES RefinesOrderedStore
