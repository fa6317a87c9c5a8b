SPECIFICATION Spec
CONSTANTS
    CAM_FIXED = FALSE
    IEEE80211_WEP_NKID = 1
    cam_entry_limit = 2
    RTWN_CMDQ_SIZE = 2
    g1 = g1
    g2 = g2
    n1 = n1
    n2 = n2
    m1 = m1
    m2 = m2
    NoKey = NoKey
    NoSlot = NoSlot
    Software = Software
    GroupKeys <- MCGroupKeys
    PairKeys <- MCPairKeys
    Values <- MCValues
    Wepidx <- MCWepidx
SYMMETRY Symmetry
INVARIANTS
    SlotsSound
    CamAgrees
