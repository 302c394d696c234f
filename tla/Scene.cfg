CONSTANTS
  NoRect = NoRect
  NoBuf = NoBuf
  NoMemo = NoMemo
  NoNode = NoNode
  NoSpan = NoSpan
  NoEvent = NoEvent
  MAX_LAYOUT_ROWS = 100
  Docs <- MCDocs
  ErrDoc <- MCErrDoc
  First = "panels"
  Sizes <- MCSizes
  Updates <- MCUpdates
  Typed = {"x"}
  FaultVisits = {2}
SPECIFICATION Spec
INVARIANT SceneShown
PROPERTY EventAtomic
CHECK_DEADLOCK FALSE
