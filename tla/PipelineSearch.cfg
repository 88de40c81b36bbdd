CONSTANTS
  Handlers <- Small
  Targets = {"fpga", "netronome"}
  N_RAND_ITERS = 2
SPECIFICATION Spec
INVARIANTS
  CutUsable
  TransferMatchesCut
  OpsConserved
  TablesLocal
  StagesWired
  ReplicasClean
  BottleneckCurrent
PROPERTY Progress
CHECK_DEADLOCK FALSE
