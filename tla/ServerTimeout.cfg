SPECIFICATION ServerSpec
CONSTANTS
    q1 = q1
    q2 = q2
    c1 = c1
    c2 = c2
    Query <- MCQuery
    Caller <- MCCaller
    BufCap = 1
    BatchSize = 2
    MaxSubmits = 3
CHECK_DEADLOCK FALSE
INVARIANT FlushedBeforeExit
