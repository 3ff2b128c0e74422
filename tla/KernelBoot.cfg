SPECIFICATION Spec
CONSTANTS
    Programs <- AllPrograms
    CodePages <- MCCodePages
    NUM_DRIVERS = 5
    MaxFaults = 3
CHECK_DEADLOCK FALSE
INVARIANTS
    EveryLineSeen
    DriversReachDevices
    ExecutableIsCode
    NoAlias
    OneReport
    ExitCodeTruthful
PROPERTY
    ComesToRest
