CONSTANTS
    Refused = Refused
    None = None
    MaxControl = 16
    MaxInput = 10
    MaxPage = 20
    MaxUpdate = 7
    MaxCaps = 4
    MaxToken = 1
    MaxPath = 1
    MaxScope = 1
    Controls = {"nl", "cr"}
    CapabilityWords = {"live-updates", "sessions", "wasm-effects", "page-path", "new"}
    Scopes = {"/", "/s"}
    Paths = {"/a", "/"}
    Uris = {"atp:x"}
    Modes = {"plain", "ca", "pinned", "tofu", "insecure"}
    Peers <- PeersDef
    Pin = "a"
    Version = "0.2"
    Versions = {"0.2", "0.3"}
    Supported <- SupportedDef
    ClientMessages <- ClientMessagesDef
    ServerMessages <- ServerMessagesDef
    UpdateParts <- UpdatePartsDef
    Foreign <- ForeignDef
    MaxSends = 3
    MaxForeign = 2
SPECIFICATION Spec
INVARIANT WireFaithful
CHECK_DEADLOCK FALSE
