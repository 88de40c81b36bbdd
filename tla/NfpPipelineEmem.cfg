SPECIFICATION FairSpec
CONSTANTS
    Replicas <- SmallReplicas
    Contexts <- SmallContexts
    PoolSize = 2
    RingSize = 2
    Emem = {2}
    MaxPackets = 2
PROPERTY LossNeedsCause
CHECK_DEADLOCK FALSE
