SPECIFICATION IoFairSpec
CONSTANTS
    nworkers = 2
    Scenarios <- MCScenarios
    MaxCommands = 2
    hash <- MCHash
INVARIANTS
    CyclesInLockstep
    NoStaleResponse
    InputsOnce
    StepSeesInputs
PROPERTIES
    CallsReturn
