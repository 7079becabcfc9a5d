SPECIFICATION FairSpec
CONSTANTS
    Conns = {c1, c2}
    Threads = {t1, t2, t3, t4}
    NoConn = NoConn
    Gone = Gone
INVARIANTS
    ExclusiveLease
    TransactionsEndBeforeReturn
    NoLostWakeup
PROPERTIES
    ImplementsLease
    CloseDrains
