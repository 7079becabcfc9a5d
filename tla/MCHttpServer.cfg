SPECIFICATION FairSpec
CONSTANTS
    Conns = {c1, c2}
    Workers = {w1, w2}
    Wake = Wake
    NoConn = NoConn
    MaxQueued = 1
    ReadTimeout = 2
    RequestTimeout = 1
    IdleTimeout = 2
    Grace = 1
    MaxReads = 2
INVARIANTS ConnsHaveOnePlace PoolKeepsItsSize LinesWithinBudget
PROPERTIES WorkersLeave ShutdownReturns
CHECK_DEADLOCK FALSE
