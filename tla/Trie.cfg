SPECIFICATION BuildSpec
CONSTANTS
    Query <- MCQuery
    Path <- MCPath
    Root = "root"
    K = 2
    Stores <- MCStores
    Deltas <- MCDeltas
    MaxCount = 3
CHECK_DEADLOCK FALSE
INVARIANT ListsAreTopK
PROPERTIES
    FinalizeIsTopK
    ListsOnlyImprove
