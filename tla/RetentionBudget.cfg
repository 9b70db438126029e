CONSTANTS
    SamplesPerBatch = 2
    TrimBatch = 2
    ItemsLow = 1
    ItemsHigh = 1
    Synced = TRUE
    SyncedYear = 2026
    DayLength = 4
    MaxClock = 16
    MaxBoots = 2
SPECIFICATION Spec
INVARIANTS RetentionBudget
CHECK_DEADLOCK FALSE
