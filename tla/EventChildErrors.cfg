SPECIFICATION ChildSpec
CONSTANTS
    Workers = {w1}
    Conns = {c1, c2}
    Timers = {}
    NoConn = NoConn
    Listeners = {l1, l2}
    MaxConnections = 1
    WorkerFactor = 16
    StopRequests = {"graceful", "ungraceful"}
    ResourceErrors = TRUE
    PollsetFails = TRUE
    Suspends = FALSE
    JoinTries = 1
SYMMETRY Symmetry
INVARIANTS
    TypeOK
    Ownership
    CountsExact
    QuotaOvershoot
\* The child exits.
CHECK_DEADLOCK FALSE
