SPECIFICATION SuggestSpec
CONSTANTS
    r1 = r1
    r2 = r2
    Query <- MCQuery
    Prefix <- MCPrefix
    Under <- MCUnder
    Reader <- OneReader
    TopK = 1
    CandidateN = 1
    TrendCap = 1
    Alpha = 2
    MaxKeys = 2
    TTL = 1
    MaxFlushes = 1
CHECK_DEADLOCK FALSE
INVARIANT FlushIsVisible
