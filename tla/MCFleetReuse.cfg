CONSTANTS
  a = a
  b = b
  None = None
  Replicas = {a, b}
  replica_ids = {a}
  Handles = {h1, h2}
  Token = {1, 2, 3, 4}
  Prompts <- MCPrompts
  KERNEL_TILE_TOKENS = 2
  prefix_match_unit = 2
  capacity_tokens <- MCCapacity
  MaxNow = 1
SPECIFICATION Spec
INVARIANTS LoadExact
