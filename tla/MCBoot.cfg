CONSTANTS
  u = u
  h1 = h1
  c1 = c1
  c2 = c2
  Unit = u
  Hand = {h1}
  Client = {c1, c2}
  Polls = 1
  MaxCrash = 2
  Burst = 3
  None = None
SPECIFICATION FairSpec
INVARIANTS TypeOK OneDaemonServes
PROPERTIES ClientsSpareTheDaemon EnsureReturns RestartRecovers
CHECK_DEADLOCK FALSE
