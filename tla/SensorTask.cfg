CONSTANTS
    SamplesPerBatch = 2
    TrimBatch = 2
    ItemsLow = 1
    ItemsHigh = 2
    Synced = FALSE
    SyncedYear = 2026
    DayLength = 4
    MaxClock = 11
    MaxBoots = 2
SPECIFICATION FairSpec
INVARIANTS CountDrift HistoryTracked RecordsSound
PROPERTIES NeverOverwritten TrimsOldestOfYear BatchFlushed
CHECK_DEADLOCK FALSE
