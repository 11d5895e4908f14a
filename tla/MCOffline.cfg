SPECIFICATION OfflineSpec
CONSTANTS
    Slots <- MCSlots
    Window = 1
    Snapshots <- MCSnapshots
    Deltas <- MCDeltas
    RestBooks <- MCRestBooks
    Lags = {1}
    Steps = {0, 1, 2}
    StepsBack = {1}
    Prints = {1}
    MaxRecords = 5
INVARIANTS TypeOK MonotoneLogReads ReplayAgrees RangeIsExact HoleIsSuspectTime VerdictsAreSound
CHECK_DEADLOCK FALSE
