SPECIFICATION BootSpec
CONSTANTS
    Cores = {c0, c1, c2}
    BootCore = c0
    Late = c2
    MemSize = 40
    Load = 8
    Link = 16
    BinarySize = 6
    BssStart = 24
    BssEnd = 32
    Parking = 5
    DtAt = 2
    DtSize = 3
    DtPointer <- MixedPointers
    PayloadSize = 8
CHECK_DEADLOCK FALSE
INVARIANTS
    CopyOfSources
    LoaderRelocated
    ExecutesIntactCode
PROPERTY
    BootCompletes
