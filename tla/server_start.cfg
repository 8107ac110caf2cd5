SPECIFICATION Spec
CONSTANTS
    Configs <- MCConfigs
    MaxInits = 2
    MaxStarts = 2
    MaxStops = 1
    MaxRequests = 2
    None = none
INVARIANTS
    
    IssuedRecorded
    NothingNil
PROPERTIES
    SoundStartServes
