SPECIFICATION FairSpec
CONSTANTS
  Client = {c1, c2}
  Reader = {c1}
  OutCap = 1
  InCap = 1
  MaxChunk = 2
  MaxKey = 1
  None = None
CHECK_DEADLOCK FALSE
INVARIANTS
  TypeOK
  OneFocus
  DestIsFocus
  FrameCoversClients
PROPERTIES
  ImplementsExclusiveFocus
  StolenIsDisconnected
  DrainNeverStalls
  EofDisconnects
