SPECIFICATION FairSpec
CONSTANTS
  MaxSubagents = 3
  MaxDepth = 2
  Permits = 2
  Retention = 1
CHECK_DEADLOCK FALSE
INVARIANTS
  AnnouncedOnce
  MergedIsCompleted
  ActiveIsReachable
PROPERTIES
  SpawnReturns
