CONSTANTS
  a = a
  b = b
  replica_ids = {a, b}
  Prompts <- MCPrompts
  prefix_match_unit = 1
  capacity <- MCCapacity
  BeliefCapacities <- MCBeliefs
  OracleModes = {TRUE, FALSE}
  Concurrencies = {2, 4}
  MaxRequests = 4
  MaxBackground = 1
SPECIFICATION Spec
SYMMETRY MCSymmetry
CONSTRAINT MCShort
INVARIANTS
  TypeOK
  CapacityOrdersHoldings
  BlindNeverUnderestimates
  NoPolicyBeatsTheCeiling
