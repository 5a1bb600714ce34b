SPECIFICATION FairSpec
CONSTANTS
    c1 = c1
    c2 = c2
    t1 = t1
    t2 = t2
    Clients <- TwoClients
    ClientOps = {"timed", "async", "shutdown"}
    HandlerOps = {}
    Incoming = {"answer", "nullid", "eof"}
    MaxInFlight = 1
    MaxIdle = 1
    Tokens <- NoTokens
    Chaining = FALSE
    MaxReq = 2
    MaxIn = 1
    MaxRuns = 1
    MaxTimers = 0
    MaxTime = 0
    Poll = 1
CHECK_DEADLOCK FALSE
PROPERTIES
    RequestsResolve
    TimedCallsReturn
    ShutdownEndsLoop
