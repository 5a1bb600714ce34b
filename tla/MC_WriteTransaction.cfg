SPECIFICATION Spec
CONSTANTS
  a = a
  b = b
  x = x
  Paths <- TwoPaths
  Others <- OneOther
  MaxRev = 2
  MaxOutcomes = 2
INVARIANTS
  TypeOK
  ClaimsBacked
PROPERTIES
  RollbackSparesLaterWork
  ImplementsOutcome
