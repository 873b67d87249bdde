\* More sockets than slots, so that late signals can overfill the ring; no timers,
\* which would starve sockets if they never stopped.
SPECIFICATION FairRunningSpec
CONSTANTS
    Workers = {w1, w2}
    Conns = {c1, c2, c3}
    Timers = {}
    NoConn = NoConn
INVARIANTS
    NoLostWakeup
    OvercommitBounded
PROPERTIES
    ListenerGetsWorker
    QueuedIsServed
\* The listener may wait for ever when it has pushed every socket.
CHECK_DEADLOCK FALSE
