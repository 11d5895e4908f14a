SPECIFICATION Spec
CONSTANTS
    NumTickers = 2
    SinkCapacity = 1
    SnapshotsLead = FALSE
    MaxSeq <- BookSeqs
    MaxVersion <- BookVersions
INVARIANT NoSilentHole
CHECK_DEADLOCK FALSE
