CONSTANTS
    a1 = a1
    a2 = a2
    b1 = b1
    Pages = {a1, b1}
    Origin <- MCOrigin
    Size <- MCSize
    None = None
    MaxHistoryEntries = 3
    MaxHistoryBytes = 5
    MaxOutstanding = 2
    MaxSubscriptions = 1
    RedirectLimit = 1
    Unknown = {"B"}
    Inputs = {"navigate", "submit", "reload", "back", "forward", "jump", "resize", "tick", "quit", "lost", "subscribe", "update", "defer", "forget", "present", "action"}
    PressureSites = {"Parse", "ActivateCachedHistory", "AdmitHistoryArtifact", "TickWasm", "PrepareResizeProjection", "ApplyUpdate", "ApplyPresentationAction"}
    MaxEvents = 3
    MaxHops = 1
    CacheEntries = 1
SPECIFICATION Spec
INVARIANTS NavigationSettles ArtifactsProject SlotsDrained OutstandingAccounted LiveOwned CursorShown 
CHECK_DEADLOCK FALSE
