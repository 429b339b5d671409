SPECIFICATION Spec
CONSTANTS
    Setups <- NestedSetups
    Served <- MCServed
    Segments <- MCSegments
    Callers = {c1}
    MaxChanges = 2
INVARIANT EveryChosenToolAppears
CHECK_DEADLOCK FALSE
