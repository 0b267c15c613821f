SPECIFICATION FairSpec
CONSTANTS
    Sessions = {s1, s2, s3}
    Conns = {c1, c2}
    Rows = {row}
    NoConn = NoConn
    NoRow = NoRow
    PoolSize = 1
    MaxFaults = 2
INVARIANTS
    GaugesFollowThePool
    IdleConnectionsAreClean
PROPERTY EverySessionEnds
CHECK_DEADLOCK FALSE
