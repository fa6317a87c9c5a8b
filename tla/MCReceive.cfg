SPECIFICATION Spec
CONSTANTS
    Chips = {"r92ce", "r92cu", "r88ee", "r88eu", "r12au", "r21au"}
    RTWN_PCI_RX_LIST_COUNT = 2
    Packets <- MCPackets
    Transfers <- MCTransfers
    Requests <- MCRequests
    FrameLimit <- MCFrameLimit
    StopLimit = 1
    CommandLimit = 1
CHECK_DEADLOCK FALSE
INVARIANTS
    RingSound
    PassedUp
    SignalInRange
    FramesDescribed
    EventsPolled
PROPERTY
    StopIsQuiet
