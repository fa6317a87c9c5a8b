SPECIFICATION FairSpec
CONSTANTS
    b1 = b1
    b2 = b2
    v1 = v1
    mon = mon
    Bufs <- MCBufs
    Xfers = {1, 4}
    VO = 4
    Vaps <- MCVaps
    VapId <- MCVapId
    NoId = NoId
    NoFrame = NoFrame
    SndLimit = 1
    BeaconLimit = 1
    TxTimeout = 1
INVARIANTS
    BuffersServed
    ListsAgree
PROPERTY
    FlowResumes
