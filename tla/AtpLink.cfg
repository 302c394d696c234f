SPECIFICATION FairSpec
CONSTANTS
    Origins = {o1, o2}
    Regions = {r1, r2}
    MaxPending = 1
    MaxRequests = 3
    MaxInFlight = 2
    Segmented = TRUE
INVARIANTS
    OneOutstanding
    NoProtocolViolation
    ReplyMatchesRequest
    NoLeakedSubscription
PROPERTY
    OperationEnds
CHECK_DEADLOCK FALSE
