CONSTANTS
    p = p
    q = q
    Procs = {p}
    Hosts = {"h", "i"}
    Vouched = {"h"}
    Modes = {"Verified", "TrustOnFirstUse"}
    Segments = {"admin", "x"}
    Scopes <- MCScopes
    Expiries = {1, 2}
    Paths <- MCPaths
    Certs = {"c"}
    None = None
    MaxPerSite = 2
    MaxTotal = 2
    MaxOps = 5
    MaxClock = 2
    MaxFaults = 1
    MaxStops = 2
SPECIFICATION Spec
INVARIANTS RevokedGone KeptOnDisk PinsSurvive
PROPERTIES SentWhereEarned
CHECK_DEADLOCK FALSE
