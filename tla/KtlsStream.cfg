CONSTANTS
    Drained = 3
    BufSizes = {1, 3}
    MaxRecords = 3
    MaxWrites = 2
SPECIFICATION FairSpec
INVARIANTS
    TypeOK
    ReadsInOrder
    NoDataAfterCloseNotify
    NoLostWakeup
PROPERTIES
    ArrivedIsRead
CHECK_DEADLOCK FALSE
