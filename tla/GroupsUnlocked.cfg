SPECIFICATION Spec
CONSTANTS
    Setups <- GroupSetups
    Served <- MCServed
    Segments <- MCSegments
    Callers = {c1}
    MaxChanges = 2
INVARIANT GroupToolsAreHeld
CHECK_DEADLOCK FALSE
