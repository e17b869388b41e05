SPECIFICATION FairSpec
CONSTANTS
    nworkers = 3
    receiver_worker = 1
    LockStep = TRUE
    MaxSteps = 2
INVARIANTS
    NoPanic
    GatherComplete
PROPERTIES
    AllStepsComplete
