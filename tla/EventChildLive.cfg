SPECIFICATION FairSpec
CONSTANTS
    Workers = {w1}
    Conns = {c1}
    Timers = {}
    NoConn = NoConn
    Listeners = {l1}
    MaxConnections = 0
    WorkerFactor = 16
    StopRequests = {"graceful", "ungraceful"}
    ResourceErrors = FALSE
    PollsetFails = FALSE
    Suspends = FALSE
    JoinTries = 1
PROPERTIES
    
    KeepaliveForcedClosed
    
    FdSpec
\* The child exits.
CHECK_DEADLOCK FALSE
