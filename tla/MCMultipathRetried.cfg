SPECIFICATION PartsSpec
CONSTANTS
    PathOrder <- MCPaths
    Threshold = 2
    MStreams = {s1}
    NoPath = NoPath
    PoolConns = {c1}
    MaxIdle = 1
    WarmUps = 0
    MaxGets = 1
    Conns = {m1}
    Streams = {t1}
    NoConn = NoConn
PROPERTY PathRetried
CHECK_DEADLOCK FALSE
