CONSTANTS
  w1 = w1
  w2 = w2
  n1 = n1
  n2 = n2
  Name = {n1, n2}
  Program = {"claude", "pi"}
  Resumable = {"claude"}
  Config <- TwoSessions
  Writer = {w1, w2}
  MaxChat = 2
  MaxCalls = 4
  Last = Last
  NoFile = NoFile
  Empty = Empty
  Torn = Torn
SPECIFICATION Spec
INVARIANTS NeverInvents LastWordCounts
PROPERTIES ResumesWhereItStopped
SYMMETRY Writers
CHECK_DEADLOCK FALSE
