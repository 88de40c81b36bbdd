SPECIFICATION FairSpec
CONSTANTS
    Replicas <- SmallReplicas
    Contexts <- SmallContexts
    PoolSize = 2
    RingSize = 2
    Emem = {}
    MaxPackets = 3
INVARIANTS TypeOK OnePlace OwnFields
PROPERTIES LossNeedsCause EveryPacketLeaves
CHECK_DEADLOCK FALSE
