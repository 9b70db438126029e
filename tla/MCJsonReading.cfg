SPECIFICATION MCSpec
CONSTANTS
    Names = {"", "a"}
    MaxTokens = 10
    MaxDocs = 2
    MaxInt = 15
    MaxLargestInt = 127
    Digits = {0, 1, 2, 5, 6, 8}
    MaxLength = 5
INVARIANTS IntegerIfItFits OnThePath AcceptsJson CommentsPlaced TokensEnd
PROPERTIES ParseEnds ImplementsReader Consecutive
CHECK_DEADLOCK FALSE
