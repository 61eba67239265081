SPECIFICATION SuggestFairSpec
CONSTANTS
    r1 = r1
    r2 = r2
    Query <- MCQuery
    Prefix <- MCPrefix
    Under <- MCUnder
    Reader <- TwoReaders
    TopK = 1
    CandidateN = 1
    TrendCap = 1
    Alpha = 2
    MaxKeys = 1
    TTL = 1
    MaxFlushes = 1
CHECK_DEADLOCK FALSE
INVARIANTS
    SuggestTypeOK
    OnlyRacesLeaveStale
    CandidatesSuffice
PROPERTY
    StaleExpires
