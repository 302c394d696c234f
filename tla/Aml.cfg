SPECIFICATION Spec
CHECK_DEADLOCK FALSE
CONSTANTS
  Pages <- MCPages
  Generated <- MCGenerated
  Claimed <- MCClaimed
  Alphabet = {"[", "]", "/", "n", "q", "sp", "esc", "cr"}
  PageLen = 1
  Bodies = {"[", "]", "/", "q", "bs", "nl", "n", "sp", "cr", "ctl", "bidi", "esc", "csi", "osc"}
  MaxInput = 24
  MaxTokens = 6
  MaxValue = 2
  MaxText = 4
INVARIANT RoundTrip
