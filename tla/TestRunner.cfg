SPECIFICATION RunnerSpec
CONSTANTS
    Timeouts <- MCTimeouts
    LastInstant = 7
    Nap = 2
    MaxNow = 6
CHECK_DEADLOCK FALSE
INVARIANTS
    VerdictTruthful
    LeftoversOnlyOnError
PROPERTY
    RunnerEnds
