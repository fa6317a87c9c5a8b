SPECIFICATION Spec
CONSTANTS
    Chips = {"r92ce", "r92cu", "r88ee", "r88eu", "r12au", "r21au"}
    Entries = 2
    Queues = 2
    Images <- MCImages
    Words = {0, 1, 2}
    EFUSE_MAX_LEN = 12
INVARIANTS
    UnwindsClean
    BufferPlanned
    RomAgrees
CHECK_DEADLOCK FALSE
