CONSTANTS
  Handlers <- Large
  Targets = {"fpga", "netronome"}
  N_RAND_ITERS = 2
SPECIFICATION Spec
INVARIANT PipelineKept
CHECK_DEADLOCK FALSE
