SPECIFICATION Spec
CONSTANTS
  s1 = s1
  s2 = s2
  Sessions <- OneSession
  MaxConcurrent = 1
  MaxAttempts = 2
  MaxPrompts = 2
  MaxCalls = 1
CHECK_DEADLOCK FALSE
INVARIANTS
  IdleEndsOwnTurn
