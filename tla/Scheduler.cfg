SPECIFICATION FairSpec
CONSTANTS
    Circuits <- AllCircuits
    MaxSteps = 2
    MaxSpurious = 1
    Killable = TRUE
INVARIANTS
    NoAssertFails
    ValidSchedule
PROPERTIES
    AllStepsComplete
    KillStops
