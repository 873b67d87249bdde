\* A child nobody stops; a small AsyncRequestWorkerFactor (1/16).
SPECIFICATION ChildSpec
CONSTANTS
    Workers = {w1, w2}
    Conns = {c1, c2}
    Timers = {t1}
    NoConn = NoConn
    Listeners = {l1}
    MaxConnections = 0
    WorkerFactor = 1
    StopRequests = {}
    ResourceErrors = FALSE
    PollsetFails = FALSE
    Suspends = TRUE
    JoinTries = 1
SYMMETRY Symmetry
INVARIANTS
    Ownership
    ExpectedState
    PollsetInSync
    CountsExact
\* Suspended connections are not resumed.
CHECK_DEADLOCK FALSE
