SPECIFICATION MCSpec
CONSTANTS
    Refresh = 5
    Period = 1
    Lifetime = 8
    MaxSetup = 9
    MaxWork = 3
    MaxTime = 15
    Polls = 3
    Words = 3
    HalfWord = 4
    MaxReads = 2
    Systems = {"LTE", "NO SERVICE"}
    Plmns = {"334-20", "000-00", "33-20", "33420", ""}
    Tacs = {"0x232", "562", "0", "0x0", ""}
    Cells = {"43790378", "0", "00000000", ""}
    Bands = {"EUTRAN-BAND5", "EUTRAN-BAND0"}
    CpsiTries = 3
    Names <- Texts
    Size = 6
    MaxMembers = 3
    Attempts = 2
    UseCmux = FALSE
    HasToken = TRUE
    CeregPolls = 30
    MaxAttempts = 5
    BufSize = 3
    Statuses = {200, 401, 500}
    MaxBody = 3
    MaxRequests = 2
INVARIANTS TokenFresh ReadingSound AcceptsOnlyIntact CellOfLine CityNamed OnlineOrDoomed BootOrdered
    BufferSound
PROPERTIES ReadReturns BootSettles LossRestarts ImplementsRequest CallReturns
CHECK_DEADLOCK FALSE
