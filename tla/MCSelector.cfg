SPECIFICATION Spec
CONSTANTS
    Conns = {c1, c2, c3}
    Streams = {s1, s2}
    NoConn = NoConn
    Order <- MCOrder
    NoTransport = NoTransport
    Handles = {h1}
    NoStream = NoStream
    Strategies = {"latency", "multipath"}
SYMMETRY Symmetry
INVARIANTS
    SelectorTypeOK
    NoOrphanConns
    ReconnMuReleased
    RedialHasTransport
CHECK_DEADLOCK FALSE
