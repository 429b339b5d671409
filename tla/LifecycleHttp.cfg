SPECIFICATION LiveSpec
CONSTANTS
    Servers = {a}
    Stdio = {}
    Faulty = {a}
    CanHang = TRUE
    MaxFaults = 1
    MaxVersion = 3
    Supervised = TRUE
    BackoffCap = 1
PROPERTIES CloseTerminates ToolsCatchUp
CHECK_DEADLOCK FALSE
