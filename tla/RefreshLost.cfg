SPECIFICATION Spec
CONSTANTS
    Servers = {a}
    Stdio = {}
    Faulty = {}
    CanHang = FALSE
    MaxFaults = 0
    MaxVersion = 2
    Supervised = TRUE
    BackoffCap = 1
INVARIANTS SettledIsFresh
CHECK_DEADLOCK FALSE
