SPECIFICATION Spec
CONSTANTS
    TxDepth = 3
    RxDepth = 2
    CR = "CR"
    LF = "LF"
    EarlyUarts = {TRUE, FALSE}
    MaxKeys = 3
    Keys <- MCKeys
    Messages <- ShortMessages
    Residues <- MCResidues
CHECK_DEADLOCK FALSE
INVARIANTS
    OnlyLineFeedsLost
    ShortStringsWhole
    NoSpuriousEcho
    EchoInOrder
    EveryKeyEchoed
    SameRateAsChainloader
PROPERTIES
    ReachesEcho
    EchoProgress
