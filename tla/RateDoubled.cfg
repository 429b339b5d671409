SPECIFICATION Spec
CONSTANTS
    Keys = {k}
    Per = 3
    Burst = 2
    MaxTime = 6
CHECK_DEADLOCK FALSE
INVARIANTS OneTokenPerPer
