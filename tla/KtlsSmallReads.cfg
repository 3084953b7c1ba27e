CONSTANTS
    Drained = 3
    BufSizes = {1, 2}
    MaxRecords = 3
    MaxWrites = 2
SPECIFICATION Spec
INVARIANTS
    PollReadsInOrder
CHECK_DEADLOCK FALSE
