SPECIFICATION Spec
CONSTANTS
    Configs <- MCConfigs
    MaxErrors = 1
    MaxStarts = 2
INVARIANTS
    FlagsAgree
    NoReceptionWhenOff
    BoundariesFirst
    RunningIsAwake
CHECK_DEADLOCK FALSE
