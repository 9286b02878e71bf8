SPECIFICATION FairSpec
CONSTANTS
  Session = {s1, s2}
  Client = {c1, c2}
  Reports = {"idle"}
  None = None
CHECK_DEADLOCK FALSE
INVARIANTS
  GoneIsOver
  OneWatcher
PROPERTIES
  WatchedIsQuiet
  ImplementsExclusiveFocus
  EveryoneGetsBack
