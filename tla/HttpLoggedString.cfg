CONSTANTS
    MaxAttempts = 5
    BufSize = 3
    Statuses = {200, 401, 500}
    MaxBody = 3
    MaxRequests = 1
SPECIFICATION Spec
INVARIANTS LoggedStringTerminated
CHECK_DEADLOCK FALSE
