SPECIFICATION FairSpec
CONSTANTS
    c1 = c1
    c2 = c2
    w1 = w1
    w2 = w2
    Callers = {c1, c2}
    Workers = {w1, w2}
    QueueCap = 1
    MaxRetries = 1
    FailureThreshold = 2
    NumCalls = 4
INVARIANTS JobsHaveOnePlace OnlyLateJobsAreLeft
PROPERTIES CallerIsAnswered QueueMoves
