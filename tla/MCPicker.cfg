SPECIFICATION Spec
CONSTANTS
  Name = {1, 2}
  Statuses = {"idle", "running", "dead"}
  KeyCode = {"j", "g", " ", "?", "enter", "r", "q"}
  Jumps <- SampleJumps
  MaxQueue = 2
  None = None
CHECK_DEADLOCK FALSE
INVARIANTS
  TypeOK
PROPERTIES
  ActsOnWhatWasSeen
  JumpFollowsSpace
