SPECIFICATION Spec
CONSTANTS
  STRIDE = 2
  MAX_INDEX = 3
  MAX_LEVEL_IPV4 = 1
  MAX_LEVEL_IPV6 = 2
  UTIL_LPM_MAX_MATCH = 2
  Results = {r1}
  Rules <- RulesFail
  Probes <- ProbesFail
  Calls = {"set_all"}
  Ops = {"OP_ADD", "OP_DEL"}
  MallocMayFail = TRUE
  MaxLost = 1
INVARIANTS ZeroMeansInstalled
CHECK_DEADLOCK FALSE
