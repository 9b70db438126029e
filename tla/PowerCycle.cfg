SPECIFICATION PSpec
CONSTANTS
    SamplesPerBatch = 2
    TrimBatch = 2
    ItemsLow = 1
    ItemsHigh = 1
    Synced = TRUE
    SyncedYear = 2026
    DayLength = 4
    MaxClock = 8
    MaxBoots = 3
PROPERTIES OverwrittenOnlyIn1970
CHECK_DEADLOCK FALSE
