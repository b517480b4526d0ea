CONSTANTS
  a = a
  b = b
  None = None
  Replicas = {a, b}
  Token = {1, 2, 3, 4, 5, 6, 7}
  Prompts <- MCPrompts
  KERNEL_TILE_TOKENS = 2
  prefix_match_unit = 2
  capacity_tokens <- MCCapacity
  MaxNow = 2
SPECIFICATION FairSpec
INVARIANTS
  TypeOK
  ResidencyInherited
  ChildKeysUnique
  RecencyInherited
  AccountingExact
  WithinCapacity
  MatchIsLongestHeld
  NodesAreNeeded
PROPERTIES
  KeepsPromise
  LoopEnds
