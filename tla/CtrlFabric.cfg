CONSTANTS
  Connections <- EveryKind
  A_COUNT = 2
  IN_SIZE = 1
  MID_SIZE = 1
  OUT_SIZE = 1
  TOKEN_SIZE = 1
  COUNT_MOD = 4
SPECIFICATION FairSpec
INVARIANTS ArgsAligned FramesIntact Balanced
PROPERTIES ImplementsEventQueue EventsDelivered
CHECK_DEADLOCK FALSE
