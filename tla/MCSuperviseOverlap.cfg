SPECIFICATION Spec
CONSTANTS
    m1 = m1
    m2 = m2
    daily = daily
    Sessions <- TwoEvents
    TickersOf <- EventMarkets
    Settling <- FirstMarkets
    Instants <- Clock
    MaxRecords <- FirstOnly
    MaxCheckpoints <- FirstOnly
    Failing = {1}
    HotMinutes = 10080
    SweepAlone = FALSE
    MaxMinutes = 60
    CohortOf <- Cohorts
    ArmLead = 30
    ClashSub = TRUE
    Bounds <- NoBound
    MaxUnits = 1
    EntryOf <- Entries
    PreArm = 1
    ListingGrace = 5
    OpenSettle = 0
    Modes <- UniverseOnly
    MaxStarts = 1
INVARIANT NothingCapturedIsLost
SYMMETRY Symmetry
CHECK_DEADLOCK FALSE
