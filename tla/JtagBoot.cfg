SPECIFICATION Spec
CONSTANTS
    TxDepth = 2
    RxDepth = 1
    Cores = {0, 1}
    BootCore = 0
    Boards <- MCBoards
    OtherPins <- MCOtherPins
    PowerOnPins <- MCPowerOnPins
    SetUp = 2
    MaxAge = 2
    Residues <- MCResidues
    Message <- MCMessage
    PanicInfo <- MCReport
    Char <- MCChar
    CR = "CR"
    LF = "LF"
    NANOSEC_PER_SEC = 1000
    DELAY = 10
    NUM_DRIVERS = 5
    MaxPanics = 2
CHECK_DEADLOCK FALSE
INVARIANTS
    OneReport
    TextsInOrder
    OnlyLineFeedsLost
    LineReady
PROPERTY
    ComesToRest
