SPECIFICATION Spec
CONSTANTS
    Setups <- SupervisedSetups
    Served <- MCServed
    Segments <- MCSegments
    Callers = {c1}
    MaxChanges = 2
INVARIANT AllToolsAreOfConnected
CHECK_DEADLOCK FALSE
