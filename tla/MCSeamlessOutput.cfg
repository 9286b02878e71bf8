SPECIFICATION Spec
CONSTANTS
  Client = {c1, c2}
  Reader = {}
  OutCap = 5
  InCap = 1
  MaxChunk = 3
  MaxKey = 0
  None = None
CHECK_DEADLOCK FALSE
PROPERTIES
  SeamlessOutput
