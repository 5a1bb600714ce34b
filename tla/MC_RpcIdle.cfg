SPECIFICATION FairSpec
CONSTANTS
    c1 = c1
    c2 = c2
    t1 = t1
    t2 = t2
    Clients <- OneClient
    ClientOps <- IdleOps
    HandlerOps = {"idle"}
    Incoming = {"badreq", "badnotif", "nullid", "eof", "bad"}
    MaxInFlight = 1
    MaxIdle = 2
    Tokens <- TwoTokens
    Chaining = FALSE
    MaxReq = 0
    MaxIn = 1
    MaxRuns = 1
    MaxTimers = 1
    MaxTime = 1
    Poll = 1
CHECK_DEADLOCK FALSE
INVARIANTS
    IdleWakesLoop
PROPERTIES
    IdleServed
