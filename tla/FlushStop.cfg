SPECIFICATION FlushSpec
CONSTANTS
    q1 = q1
    q2 = q2
    Query <- MCQuery
    TrendCap = 1
    TopK = 1
    Unit = 4
    MaxGiven = 3
    MaxTime = 2
    MayFailAtStop = FALSE
CHECK_DEADLOCK FALSE
PROPERTY StopLosesNothing
