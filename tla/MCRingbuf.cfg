SPECIFICATION FairSpec
CONSTANTS
    Size = 3
    Byte = {b0, b1}
    MaxCall = 3
    SizeMod = 4
CHECK_DEADLOCK TRUE
INVARIANTS
    TypeOK
    SlotExclusive
    Accounting
PROPERTIES
    FifoRefinement
    Delivery
