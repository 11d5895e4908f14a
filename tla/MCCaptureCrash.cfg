SPECIFICATION CaptureSpec
CONSTANTS
    NumTickers = 1
    SinkCapacity = 1
    SnapshotsLead = TRUE
    MaxSeq <- TradesOnly
    MaxVersion <- ThreeTrades
    VerifyOn = FALSE
    ChunkSize = 1
    VerifyCapacity = 1
    MaxSweeps = 1
    DiskCheckEvery = 1
    Faults <- CrashFaults
    MaxFrames = 2
    MaxConnects = 1
    MaxCrashes = 1
INVARIANT LogIsWhole
CHECK_DEADLOCK FALSE
