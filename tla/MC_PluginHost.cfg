SPECIFICATION FairSpec
CONSTANTS
    n1 = n1
    Names <- OnePlugin
    Faults = {"spawn", "garbage", "timeout", "limit"}
    MaxInst = 3
    MaxSleepers = 3
    MaxPending = 2
CHECK_DEADLOCK FALSE
INVARIANTS
    OneInstance
    PendingHasStarter
PROPERTIES
    WantedComesBack
    
