SPECIFICATION Spec
CONSTANTS
    Keys = {j, k}
    Per = 3
    Burst = 2
    MaxTime = 6
CHECK_DEADLOCK FALSE
INVARIANTS BurstAtOnce
PROPERTIES RefusalsAreDue
