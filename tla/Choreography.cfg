SPECIFICATION FairSpec
CONSTANTS
    Anims <- MCAnims
    Kind <- MCKind
    Autoplay <- MCAutoplay
    After <- MCAfter
    Length <- MCLength
    Background = {}
    Home <- MCHome
    Panels <- MCPanels
    States <- MCStates
    Duration <- MCDuration
    Bindings <- MCBindings
    Exit = "exit"
    PageTransition = 2
    MaxPending = 3
    MaxCascade = 3
    MaxPasses = 3
    Evictable = 1
    MaxInputs = 3
    MaxFaults = 1
    None = None
INVARIANTS
    RuntimeMatchesScene
    ActionsConserved
    AnnouncedStayFinished
PROPERTIES
    LoopReturns
    DeferredResolves
CHECK_DEADLOCK FALSE
