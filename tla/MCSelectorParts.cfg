SPECIFICATION PartsSpec
CONSTANTS
    PathOrder <- MCPaths
    Threshold = 2
    MStreams = {s1, s2}
    NoPath = NoPath
    PoolConns = {c1, c2, c3, c4}
    MaxIdle = 2
    WarmUps = 3
    MaxGets = 2
    Conns = {m1, m2}
    Streams = {t1, t2}
    NoConn = NoConn
INVARIANTS
    MultipathTypeOK
    PathCountExact
    PoolTypeOK
    SingleOwner
    ClosedPoolIsEmpty
    TypeOK
    CountExact
PROPERTIES
    FailedPathRedialled
    NoUsablePathMissed
    DrainCutsOnlyLate
    DrainCompletes
CHECK_DEADLOCK FALSE
