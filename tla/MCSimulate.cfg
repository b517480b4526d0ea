CONSTANTS
  None = None
  Replicas = {a, b}
  replica_ids = {a}
  Token = {1, 2, 3, 4}
  Prompts <- MCPrompts
  KERNEL_TILE_TOKENS = 2
  prefix_match_unit = 2
  capacity_tokens = 3
  belief_capacity_ratio <- MCRatio
  MaxNow = 1
  MaxRequests = 3
  MaxChurn = 3
SPECIFICATION Spec
INVARIANTS
  TypeOK
  OnePrefillAtATime
  WorkConserving
  NothingLost
  LoadIsBacklog
  ColdOnReturn
  FirstComeFirstServed
PROPERTIES
  EveryRequestCompletes
CHECK_DEADLOCK FALSE
