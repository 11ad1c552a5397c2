SPECIFICATION Spec
CONSTANTS
  o1 = o1
  o2 = o2
  o3 = o3
  Objs <- MCObjs
  NULL = NULL
  Keys <- MCKeys
  SizeOf <- MCSizeOf
  HashOf <- MCHashOf
  UINT32_RANGE = 65536
  array_size = 2
  HasFree = TRUE
SYMMETRY Symmetry
INVARIANTS RemovesOnlyItsKey
