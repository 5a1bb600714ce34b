SPECIFICATION FairSpec
CONSTANTS
    b1 = b1
    b2 = b2
    p1 = p1
    p2 = p2
    Buffers <- OneBuffer
    Plugins <- OnePlugin
    Faults = {"exit", "timeout"}
    MaxUndos = 2
    MaxRevs = 4
CHECK_DEADLOCK FALSE
INVARIANTS
    OneUpdateChain
PROPERTIES
    CoverWhileViewsKept
    TimedPluginReleased
