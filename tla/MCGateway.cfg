CONSTANTS
  a = a
  b = b
  None = None
  Replicas = {a, b}
  backends <- MCBackends
  lexical <- MCLexical
  prefill_per_token = 2
  decode_interference = 3
  PolicyNames = {"round_robin", "least_connections", "pure_affinity", "cost_model"}
  Requests = {q1, q2, q3}
  Conversations <- MCConversations
  marker <- MCMarker
  Fold = 2
  KERNEL_TILE_TOKENS = 2
  prefix_match_unit = 2
  capacity_tokens <- MCCapacity
  MaxNow = 0
SPECIFICATION Spec
INVARIANTS
  TypeOK
  LoadIsOpen
  IdleCostModelIsAffinity
  CompletedUnlessAbandoned
  NextTurnIsServed
PROPERTIES
  MissesAreQueued
  CostModelBalances
  QueuesDrain
