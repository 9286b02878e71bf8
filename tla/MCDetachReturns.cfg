SPECIFICATION FairSpec
CONSTANTS
  Key = {"C-b", "q", "x"}
  StdinCap = 1
  ToPtyCap = 1
  WireCap = 1
  HeldCap = 1
  MaxKey = 4
  MaxChunk = 0
CHECK_DEADLOCK FALSE
PROPERTIES
  DetachReturns
