SPECIFICATION Spec
CONSTANTS
    Capacity = 2
    MaxGetAttempts = 3
    Tickers <- MCTickers
    Close <- MCClose
    MinClose = 0
    MaxClose = 2
    Chunk = 1
    HighVolume <- MCHighVolume
    Given <- MCGiven
    Pages <- MCPages
    EventTs <- MCEventTs
    RecvTs <- MCRecvTs
    FetchTs = 1000
    Malformed <- MCMalformed
    MaxTradePages = 2
    LiveLogs <- MCLiveLogs
    MaxRuns = 2
INVARIANTS TypeOK CheckpointedTapeIsWhole TapeIsInOrder RateHonoured DiscoveryIsExact
PROPERTY RunEnds
CHECK_DEADLOCK FALSE
