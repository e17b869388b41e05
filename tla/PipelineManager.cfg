SPECIFICATION FairSpec
CONSTANTS
    Projects <- MCProjects
    Configs <- MCConfigs
    MaxPipelines = 2
    Bounds <- MCBounds
INVARIANTS
    SuccessMeansBuilt
    CompilingHasJob
    NoOrphan
    ConfigRefersToLive
    RunsDeclaredCode
PROPERTIES
    RequestsEnd
CHECK_DEADLOCK FALSE
