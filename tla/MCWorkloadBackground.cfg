CONSTANTS
  n_sessions = 1
  n_system_prompts = 2
  system_tokens = 2
  user_tokens = 1
  reply_tokens = 1
  Turns = {2}
  Gaps = {0, 1}
  MaxTraces = 2
SPECIFICATION Spec
INVARIANTS OtherTracesShareTheHead
CHECK_DEADLOCK FALSE
