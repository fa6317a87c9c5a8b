SPECIFICATION Spec
CONSTANTS
    n1 = n1
    n2 = n2
    Nodes <- MCNodes
    macid_limit = 2
    RTWN_MACID_BC = 1
    Undefined = Undefined
    WordBits = 1
    RTWN_CMDQ_SIZE = 2
    NoNode = NoNode
    NoCmd = NoCmd
SYMMETRY Symmetry
INVARIANTS
    TableAgrees
    ReportedInUse
    FirmwareAgrees
