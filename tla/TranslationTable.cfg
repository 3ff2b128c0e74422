SPECIFICATION Spec
CONSTANTS
    NumTables = 2
    Entries = 4
    PageSize = 4
    Layouts <- MCLayouts
    MaxVirtAddrs <- MCMaxVirtAddrs
    TablesAt = 64
INVARIANTS
    LayoutInForce
    NoWritableCode
PROPERTY
    ComesOn
CHECK_DEADLOCK FALSE
