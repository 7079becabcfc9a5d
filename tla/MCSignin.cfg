SPECIFICATION Spec
CONSTANTS
    k1 = k1
    k2 = k2
    k3 = k3
    a1 = a1
    a2 = a2
    w1 = w1
    w2 = w2
    Keys = {k1, k2, k3}
    Addresses = {a1, a2}
    AddressOf <- MCAddressOf
    Workers = {w1, w2}
    Threshold = 2
    LockTime = 1
    AttemptTime = 1
    MaxRecords = 2
    RateLimit = 2
    RateTime = 2
    MaxWindows = 1
    MaxTime = 3
SYMMETRY Symmetry
INVARIANTS StoresAreBounded GuessesAreBounded RateIsLimited
PROPERTY LocksOutliveJunk
