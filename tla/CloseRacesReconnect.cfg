SPECIFICATION Spec
CONSTANTS
    Servers = {a}
    Stdio = {}
    Faulty = {a}
    CanHang = FALSE
    MaxFaults = 1
    MaxVersion = 1
    Supervised = TRUE
    BackoffCap = 1
INVARIANTS CloseShutsDownAllSessions
CHECK_DEADLOCK FALSE
