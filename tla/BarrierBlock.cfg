CONSTANTS
  PORT_COUNT = 2
  FIFO_SIZE = 2
  COUNT_MOD = 65536
  MaxBeats = 2
SPECIFICATION FairSpec
PROPERTY DirectConnect
CHECK_DEADLOCK FALSE
