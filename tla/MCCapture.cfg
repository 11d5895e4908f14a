SPECIFICATION CaptureSpec
CONSTANTS
    NumTickers = 1
    SinkCapacity = 1
    SnapshotsLead = TRUE
    MaxSeq <- ThreeBooks
    MaxVersion <- TwoChanges
    VerifyOn = FALSE
    ChunkSize = 1
    VerifyCapacity = 1
    MaxSweeps = 1
    DiskCheckEvery = 2
    Faults <- AppendCrashFaults
    MaxFrames = 3
    MaxConnects = 1
    MaxCrashes = 1
INVARIANTS NothingForwardedIsLost UninterruptedLogIsWhole OkMeansComplete
CHECK_DEADLOCK FALSE
