SPECIFICATION FairSpec
CONSTANTS
    Queues = {0, 6}
    v1 = v1
    v2 = v2
    Vaps <- MCVaps
    Plans <- MCPlans
    NoMbuf = NoMbuf
    NoNode = NoNode
    SndLimit = 1
    TxTimeout = 1
INVARIANTS
    RingSound
    FlowAgrees
    StoppedIsEmpty
PROPERTY
    FlowResumes
