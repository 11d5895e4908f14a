SPECIFICATION Spec
CONSTANTS
    NumTickers = 2
    SinkCapacity = 1
    SnapshotsLead = TRUE
    MaxSeq <- BookSeqs
    MaxVersion <- BookVersions
INVARIANTS TypeOK NoSilentHole LevelTrackerHidesNothing IInv
PROPERTY ImplementsWholeStream
CHECK_DEADLOCK FALSE
