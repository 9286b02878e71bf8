SPECIFICATION Spec
CONSTANTS
  Key = {"C-b", "q", "y", "/", "C-c"}
  StdinCap = 1
  ToPtyCap = 1
  WireCap = 1
  HeldCap = 1
  MaxKey = 5
  MaxChunk = 2
CHECK_DEADLOCK FALSE
INVARIANTS
  TypeOK
  ChordStaysLocal
  KeysArrive
  CopyKeysStayLocal
  
