SPECIFICATION Spec
CONSTANTS
    m1 = m1
    m2 = m2
    daily = daily
    Sessions <- TwoEvents
    TickersOf <- EventMarkets
    Settling <- FirstMarkets
    Instants <- Clock
    MaxRecords <- FirstOnly
    MaxCheckpoints <- TwoMidnights
    Failing = {1}
    HotMinutes = 60
    SweepAlone = TRUE
    MaxMinutes = 60
    CohortOf <- Cohorts
    ArmLead = 30
    ClashSub = TRUE
    Bounds <- EitherBound
    MaxUnits = 1
    EntryOf <- Entries
    PreArm = 1
    ListingGrace = 5
    OpenSettle = 0
    Modes <- AllModes
    MaxStarts = 2
INVARIANTS TypeOK NothingCapturedIsLost ArchivesAreOfStoppedUnits LiveUnitsRun UnitsAreCapped
PROPERTIES ArchivedStaysArchived CheckpointsAreUndisturbed ExitLeavesMarks
SYMMETRY Symmetry
CHECK_DEADLOCK FALSE
