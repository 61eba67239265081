SPECIFICATION FairSpec
CONSTANTS
    q1 = q1
    q2 = q2
    c1 = c1
    c2 = c2
    Query <- MCQuery
    Caller <- MCCaller
    BufCap = 1
    BatchSize = 2
    MaxSubmits = 4
CHECK_DEADLOCK FALSE
INVARIANTS
    TypeOK
    ExactlyOnce
    CallsAccounted
    NothingStranded
    HeldBounded
    WriteReduction
PROPERTIES
    SubmitReturns
    AcceptedIsApplied
    StopReturns
