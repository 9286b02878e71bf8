SPECIFICATION Spec
CONSTANTS
  Char = {"a", "b"}
  Sizes <- SmallSizes
  Size0 <- FirstSize
  Cap = 2
  PadRows = 3
INVARIANTS
  TypeOK
  RingIsWhatScrolledOff
  ReplayKeepsHistory
  ReplayShowsScreen
