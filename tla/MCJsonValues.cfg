SPECIFICATION MCSpec
CONSTANTS
    Payloads = {"v", "w"}
    NullValue = "null"
    Letters = {"x"}
    NUL = "NUL"
    MaxSize = 5
    Variables = {"x", "y", "z"}
    MaxBuffers = 6
    Bytes = {0, 1}
    MaxLength = 2
    MaxIndex = 2
INVARIANTS ArraysWhole Conversions TotalOrder OwnedOnce PathFound ReadsBack StringsKept
PROPERTIES ImplementsList
CHECK_DEADLOCK FALSE
