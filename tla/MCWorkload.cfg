CONSTANTS
  n_sessions = 3
  n_system_prompts = 2
  system_tokens = 2
  user_tokens = 1
  reply_tokens = 1
  Turns = {1, 2, 3}
  Gaps = {0, 1}
  MaxTraces = 1
SPECIFICATION Spec
INVARIANTS
  TurnsExtend
  StrangersShareTheHead
CHECK_DEADLOCK FALSE
