SPECIFICATION Spec
CONSTANTS
    Conns = {c1, c2}
    Streams = {s1, s2}
    NoConn = NoConn
    Order <- MCSingle
    NoTransport = NoTransport
    Handles = {h1}
    NoStream = NoStream
    Strategies = {"auto"}
PROPERTY ExistingStreamsComplete
CHECK_DEADLOCK FALSE
