SPECIFICATION FairSpec
CONSTANTS
  THREADS = 3
  GRO_TICKET_PER_TAPE = 2
  NTAPES = 2
  SKIDS = {0, 1}
  ISEQS = {0, 1}
  RING = 2
  XBUFS = 2
  BUFFERS = 3
  MaxPackets = 17
INVARIANTS TypeOK InOrder NoAbort ResetsUsedTapes CountersMeet
PROPERTY AllSent
CHECK_DEADLOCK FALSE
