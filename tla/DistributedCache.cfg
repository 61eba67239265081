SPECIFICATION CacheFairSpec
CONSTANTS
    r1 = r1
    r2 = r2
    NodeId <- MCNodeId
    Vnodes = 2
    Size = 4
    Key = {"p"}
    Hash <- MCHash
    Request <- OneRequest
    Served <- MCServed
    MaxKeys = 1
    TTL = 1
INVARIANTS
    RingTypeOK
    OwnerIsNearest
    CacheTypeOK
    OnlyFaultsLeaveStale
    ElsewhereIsOld
PROPERTIES
    MinimalDisruption
    StaleEnds
