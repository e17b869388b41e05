SPECIFICATION Spec
CONSTANTS
    Scenarios <- MCScenarios
    Inputs <- MCInputs
    Horizon = 5
    KEY_BITS = 6
    RADIX_BITS = 2
CHECK_DEADLOCK FALSE
INVARIANTS
    Exact
    TreeCanonical
    ExportsClosure
    Converges
