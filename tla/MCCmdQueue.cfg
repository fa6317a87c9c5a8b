SPECIFICATION FairSpec
CONSTANTS
    RTWN_CMDQ_SIZE = 3
    c1 = c1
    c2 = c2
    t1 = t1
    t2 = t2
    NoFunc = NoFunc
    Cmds <- MCCmds
    Threads <- MCThreads
INVARIANTS
    TypeOK
    ExecutionSound
PROPERTIES
    NoOverwrite
    ImplementsFifo
    EveryoneServed
