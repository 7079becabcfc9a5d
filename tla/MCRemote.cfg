SPECIFICATION RemoteFairSpec
CONSTANTS
    Procs = {p1, p2}
    Users = {p1}
    Streams = {s1, s2}
    MaxLate = 1
    None = None
INVARIANTS WholeOrNothing SessionsRestClean
PROPERTIES EveryoneStarts ImplementsAtomicData
