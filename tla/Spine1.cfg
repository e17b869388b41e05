SPECIFICATION Spec
CONSTANTS
    Sizes = {1, 3, 16}
    Cancels = {0, 2}
    MaxInserts = 6
    TopLevel = 8
INVARIANTS
    HoldsAll
    LayerSizes
CHECK_DEADLOCK FALSE
