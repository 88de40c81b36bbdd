CONSTANTS
  S_COUNT = 2
  REPLICATED_OUT_NUM = 2
  FIFO_SIZE = 1
  PIPELINE_OUTPUT = 1
  COUNT_MOD = 4
  MaxInflight = 3
SPECIFICATION FairSpec
INVARIANTS TypeOK CountExact GrantBacked ReplicasAgree
PROPERTY SomeSourceServed
