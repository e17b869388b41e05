SPECIFICATION Spec
CONSTANTS
    Sources1 <- MCSources1
    Sources2 <- MCSources2
    Fuels = {1, 3}
    StepMax = 2
    Limits <- Honest
INVARIANTS
    WorkContract
    MergeExact
CHECK_DEADLOCK FALSE
