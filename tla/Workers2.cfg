SPECIFICATION FairSpec
CONSTANTS
    nworkers = 2
    Circuits <- AllCircuits
    MaxSteps = 2
INVARIANTS
    SameCycle
PROPERTIES
    AllStepsComplete
