SPECIFICATION OnceSpec
CONSTANTS
    Workers = {w1, w2, w3}
    Conns = {c1, c2, c3}
    Timers = {t1}
    NoConn = NoConn
SYMMETRY Symmetry
INVARIANTS
    FdTypeOK
    Accounting
    SleepersCovered
    NoSleepAfterTerm
PROPERTY DeliversInOrder
\* Every thread has left at the end of a shutdown.
CHECK_DEADLOCK FALSE
