SPECIFICATION LiveSpec
CONSTANTS
    Servers = {a}
    Stdio = {}
    Faulty = {a}
    CanHang = TRUE
    MaxFaults = 1
    MaxVersion = 1
    Supervised = TRUE
    BackoffCap = 1
PROPERTIES ProbesTimeOut
CHECK_DEADLOCK FALSE
