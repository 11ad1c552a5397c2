SPECIFICATION Spec
CONSTANTS
  STRIDE = 2
  MAX_INDEX = 3
  MAX_LEVEL_IPV4 = 1
  MAX_LEVEL_IPV6 = 2
  UTIL_LPM_MAX_MATCH = 2
  Results = {r1, r2}
  Rules <- RulesNested
  Probes <- ProbesNested
  Calls = {"set_all"}
  Ops = {"OP_ADD", "OP_DEL"}
  MallocMayFail = FALSE
  MaxLost = 0
INVARIANTS LongestIsReturned
