CONSTANTS
  a = a
  b = b
  replica_ids = {a}
  Prompts <- MCDistinct
  prefix_match_unit = 2
  capacity <- MCCapacity
  BeliefCapacities <- MCExact
  OracleModes = {FALSE}
  Concurrencies = {2}
  MaxRequests = 5
  MaxBackground = 1
SPECIFICATION Spec
INVARIANTS PerfectModelNeverMispredicts
