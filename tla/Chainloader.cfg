SPECIFICATION Spec
CONSTANTS
    TxDepth = 2
    RxDepth = 4
    Base = 2
    Gap = 4
    CR = "CR"
    LF = "LF"
    ETX = "ETX"
    O = "O"
    K = "K"
    MaxNoise = 2
    MaxResets = 1
    Files <- MCFiles
    Banner <- MCBanner
    Loaded <- MCLoaded
    Text <- MCText
    Residues <- MCResidues
CHECK_DEADLOCK FALSE
INVARIANTS
    PayloadIntact
    HandshakeInStep
    NothingInBetween
PROPERTIES
    StreamSpec
    EventuallyBoots
