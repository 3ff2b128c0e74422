SPECIFICATION Spec
CONSTANTS
    Pairs = 15
    MaxCalls = 2
    MaxFaults = 2
CHECK_DEADLOCK FALSE
INVARIANTS
    ContextTruthful
    ResumesExactly
