SPECIFICATION Spec
CONSTANTS
    b1 = b1
    b2 = b2
    p1 = p1
    p2 = p2
    Buffers <- OneBuffer
    Plugins <- OnePlugin
    Faults = {}
    MaxUndos = 6
    MaxRevs = 6
CHECK_DEADLOCK FALSE
INVARIANTS
    LastRevKept
