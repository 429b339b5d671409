SPECIFICATION LiveSpec
CONSTANTS
    Servers = {a}
    Stdio = {a}
    Faulty = {a}
    CanHang = TRUE
    MaxFaults = 1
    MaxVersion = 1
    Supervised = TRUE
    BackoffCap = 1
PROPERTIES ReconnectAttempts
CHECK_DEADLOCK FALSE
