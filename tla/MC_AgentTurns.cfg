SPECIFICATION FairSpec
CONSTANTS
  s1 = s1
  s2 = s2
  Sessions <- TwoSessions
  MaxConcurrent = 1
  MaxAttempts = 2
  MaxPrompts = 2
  MaxCalls = 1
CHECK_DEADLOCK FALSE
INVARIANTS
  PromptConserved
  QueueServed
  EvidenceFollowsTurn
PROPERTIES
  ReservationKept
  CancelReleases
  ClosedEnds
