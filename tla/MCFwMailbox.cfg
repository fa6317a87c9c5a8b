SPECIFICATION FwSpec
CONSTANTS
    R92C_H2C_NBOX = 3
    MaxTries = 1
    TimedOutAt = 2
    s1 = s1
    l1 = l1
    ic_tq = ic_tq
    ioctl = ioctl
    Callers <- MCCallers
    IcTq <- ic_tq
    Short <- MCShort
    Long <- MCLong
    PwrMode <- MCLong
    NoCmd = NoCmd
INVARIANTS
    BoxesAgree
PROPERTY
    Returns
