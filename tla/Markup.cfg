SPECIFICATION Spec
CONSTANTS
    None = None
    NoDefault = NoDefault
    Ref <- Refs
    MaxDefs = 1
    MaxUsagesPer = 2
    MaxTotalUsages = 2
    MaxExpanded = 8
    MaxPasses = 2
    BUILTIN_ELEMENTS <- Builtins
    MAX_ON_BINDINGS = 1
    MAX_CASCADE_DEPTH = 1
    MAX_ANIMATE_REGIONS = 1
    MAX_WASM_INSTANCES = 1
    MAX_ANIMATION_FRAMES = 1
    Streams <- Pages
    MaxDepth = 3
    MaxElements = 5
INVARIANTS
    GrammarParsed
    Bounded
    ReferencesResolve
CHECK_DEADLOCK FALSE
