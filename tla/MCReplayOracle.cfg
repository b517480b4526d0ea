CONSTANTS
  a = a
  b = b
  replica_ids = {a}
  Prompts <- MCPrompts
  prefix_match_unit = 2
  capacity <- MCCapacity
  BeliefCapacities <- MCExact
  OracleModes = {TRUE}
  Concurrencies = {2}
  MaxRequests = 4
  MaxBackground = 1
SPECIFICATION Spec
INVARIANTS QueueEstimateHonest
