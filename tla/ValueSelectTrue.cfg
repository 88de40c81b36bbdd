CONSTANTS
  FIFO_SIZE = 2
  MaxEvents = 3
SPECIFICATION Spec
INVARIANT SelectMatched
CHECK_DEADLOCK FALSE
