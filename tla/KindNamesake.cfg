SPECIFICATION Spec
CONSTANTS
    Setups <- NamesakeSetups
    Served <- MCServed
    Segments <- MCSegments
    Callers = {c1}
    MaxChanges = 2
INVARIANT KindlessAreAlone
CHECK_DEADLOCK FALSE
