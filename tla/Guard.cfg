CONSTANTS
  Returns <- Narrow
  COND_SIZE = 1
  REP_SIZE = 1
  MaxEvents = 3
  MaxBeats = 2
SPECIFICATION FairSpec
INVARIANT Filtered
PROPERTY AllDecided
CHECK_DEADLOCK FALSE
