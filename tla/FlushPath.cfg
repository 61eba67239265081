SPECIFICATION FlushSpec
CONSTANTS
    q1 = q1
    q2 = q2
    Query <- MCQuery
    TrendCap = 1
    TopK = 1
    Unit = 4
    MaxGiven = 3
    MaxTime = 2
    MayFailAtStop = TRUE
CHECK_DEADLOCK FALSE
SYMMETRY Symmetry
INVARIANTS
    FlushTypeOK
    CountsQueued
    RecencyQueued
    TopIsMostRecent
    NeverOvercounts
PROPERTY
    StoredNeverDrops
