CONSTANTS
    Calls <- AllCalls
    NoCall = NoCall
    MaxTokens = 2
    MaxCalls = 4
    MaxBoots = 1
SPECIFICATION Spec
INVARIANTS GetRetriesWithNewToken
CHECK_DEADLOCK FALSE
