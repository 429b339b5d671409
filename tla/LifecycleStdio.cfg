SPECIFICATION LiveSpec
CONSTANTS
    Servers = {a}
    Stdio = {a}
    Faulty = {a}
    CanHang = TRUE
    MaxFaults = 2
    MaxVersion = 1
    Supervised = TRUE
    BackoffCap = 2
INVARIANTS TypeOK ConnectedHasSession ReconnectingIsOwned ProbeIsCurrent OneSessionPerFault NoLeakedSession DownIsBeingRepaired
PROPERTIES ReplacedAfterClose ImplementsAvailability Recovers CancelEndsEverything
CHECK_DEADLOCK FALSE
