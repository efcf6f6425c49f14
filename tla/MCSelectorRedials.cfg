SPECIFICATION Spec
CONSTANTS
    Conns = {c1, c2}
    Streams = {s1}
    NoConn = NoConn
    Order <- MCSingle
    NoTransport = NoTransport
    Handles = {h1}
    NoStream = NoStream
    Strategies = {"auto"}
PROPERTY DrainedHandleRedials
CHECK_DEADLOCK FALSE
