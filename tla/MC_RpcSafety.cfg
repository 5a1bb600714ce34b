SPECIFICATION Spec
CONSTANTS
    c1 = c1
    c2 = c2
    t1 = t1
    t2 = t2
    Clients <- OneClient
    ClientOps <- RequestOps
    HandlerOps = {"sync", "timed", "cancel", "shutdown", "panic"}
    Incoming = {"req", "notif", "answer", "badanswer", "eof", "batch"}
    MaxInFlight = 1
    MaxIdle = 1
    Tokens <- NoTokens
    Chaining = TRUE
    MaxReq = 2
    MaxIn = 2
    MaxRuns = 1
    MaxTimers = 0
    MaxTime = 0
    Poll = 1
CHECK_DEADLOCK FALSE
INVARIANTS
    TypeOK
    HandlerConserved
    PermitsAccounted
    QueuedIsPending
