SPECIFICATION Spec
CONSTANTS
    Setups <- UnsupervisedSetups
    Served <- MCServed
    Segments <- MCSegments
    Callers = {c1}
    MaxChanges = 2
INVARIANT UnsupervisedIsConnected
CHECK_DEADLOCK FALSE
