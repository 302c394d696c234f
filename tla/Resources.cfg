CONSTANTS
    Keys = {"a", "b"}
    Sizes = {1, 2}
    Slack = {1}
    Regions = {"r", "s"}
    Scopes = {1, 2}
    Updates <- MCUpdates
    None = None
    CatLimit <- MCCatLimit
    CountLimit <- MCCountLimit
    MaxRemote = 14
    ArcCost = 1
    CacheCount = 2
    CacheBytes = 3
    RingSize = 3
    RingBytes = 4
    SubsCount = 2
    SubsBound = 3
    PageUnits = {1, 3}
    MaxOps = 6
SPECIFICATION Spec
INVARIANTS BooksExact WithinLimits CacheExact 
PROPERTIES RingIsQueue
CHECK_DEADLOCK FALSE
