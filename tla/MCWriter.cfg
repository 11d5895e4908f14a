SPECIFICATION Spec
CONSTANTS
    LogStreams <- TwoStreams
    Records <- SmallRecords
    SinkCapacity = 1
    VerifyCapacity = 2
    DiskCheckEvery = 2
    Faults <- AllFaults
    MaxLines = 3
INVARIANTS TypeOK FloorIsWatched FloorInv TornTailCostsOneRecord
CHECK_DEADLOCK FALSE
