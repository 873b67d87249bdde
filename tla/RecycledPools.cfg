CONSTANTS
    Workers = {w1, w2}
    Listener = listener
    Pools = {p1, p2, p3, p4}
    Null = Null
    UIntSize = 65536
SPECIFICATION FairSpec
INVARIANTS TypeOK ChainIntact CountExact OvershootBounded LateLinksBounded
PROPERTY DrainEnds
CHECK_DEADLOCK FALSE
