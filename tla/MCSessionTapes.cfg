SPECIFICATION FairSpec
CONSTANTS
    NumTickers = 2
    SinkCapacity = 1
    SnapshotsLead = TRUE
    MaxSeq <- TapeSeqs
    MaxVersion <- TapeVersions
INVARIANTS NoSilentHole
PROPERTIES ImplementsWholeStream ShutdownEndsSession ClosedSinkEndsSession
CHECK_DEADLOCK FALSE
