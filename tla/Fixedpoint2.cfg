SPECIFICATION FairSpec
CONSTANTS
    nworkers = 2
    MaxIters = 1
    Runs = 2
INVARIANTS
    GlobalFixedpoint
PROPERTIES
    AllReturn
