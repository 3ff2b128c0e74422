SPECIFICATION Spec
CONSTANTS
    Boards <- MCBoards
    OtherPins <- MCOtherPins
    SetUp = 2
    ShortDelay = 2
    Delay = 3
    MaxAge = 4
CHECK_DEADLOCK FALSE
INVARIANTS
    OnlyUartPinsMapped
