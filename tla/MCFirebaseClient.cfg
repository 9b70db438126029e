CONSTANTS
    Calls <- AllCalls
    NoCall = NoCall
    MaxTokens = 2
    MaxCalls = 4
    MaxBoots = 1
SPECIFICATION FairSpec
INVARIANTS FreshUrl TimeoutScoped
PROPERTIES ImplementsStore CallReturns
CHECK_DEADLOCK FALSE
