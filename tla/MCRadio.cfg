CONSTANTS
    Configs <- MCConfigs
    Channels <- MCChannels
    Temps = {0, 20, 40}
    Results <- MCResults
    Garbage = {50}
SPECIFICATION Spec
INVARIANTS TunedAgrees PowerSound CalibrationSound
PROPERTY CalibRestores
