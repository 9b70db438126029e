CONSTANTS
    SamplesPerBatch = 2
    TrimBatch = 2
    ItemsLow = 1
    ItemsHigh = 1
    Synced = FALSE
    SyncedYear = 2026
    DayLength = 4
    MaxClock = 12
    MaxBoots = 1
SPECIFICATION Spec
PROPERTIES TrimsOldest
CHECK_DEADLOCK FALSE
