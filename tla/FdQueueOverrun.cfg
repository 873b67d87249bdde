SPECIFICATION RunningSpec
CONSTANTS
    Workers = {w1, w2}
    Conns = {c1, c2, c3, c4, c5}
    Timers = {}
    NoConn = NoConn
INVARIANT NeverFull
CHECK_DEADLOCK FALSE
