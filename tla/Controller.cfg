SPECIFICATION FairSpec
CONSTANTS
    Endpoints = {e1}
    OutputEndpoints = {o1}
    MaxBatch = 1
    Scenarios <- Flows
INVARIANTS
    OutputAccounting
    CompleteMeansDone
PROPERTIES
    StartedCompletes
    PauseQuiesces
    StopJoins
CHECK_DEADLOCK FALSE
