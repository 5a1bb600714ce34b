SPECIFICATION FairSpec
CONSTANTS
    Lengths <- ShortOrLong
    Faults = {"panic", "full"}
    MaxGen = 3
    MaxRev = 3
CHECK_DEADLOCK FALSE
INVARIANTS
    AppliedInOrder
    FreshUnlessOthers
PROPERTIES
    ScanEnds
