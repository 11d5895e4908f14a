SPECIFICATION FairCaptureSpec
CONSTANTS
    NumTickers = 2
    SinkCapacity = 1
    SnapshotsLead = TRUE
    MaxSeq <- OneSnapshot
    MaxVersion <- NoFrames
    VerifyOn = TRUE
    ChunkSize = 1
    VerifyCapacity = 1
    MaxSweeps = 1
    DiskCheckEvery = 1
    Faults <- DiskFaults
    MaxFrames = 1
    MaxConnects = 1
    MaxCrashes = 0
INVARIANTS HandedOverIsWritten NothingForwardedIsLost ReportMatchesDisk
PROPERTY ShutdownReturns
CHECK_DEADLOCK FALSE
