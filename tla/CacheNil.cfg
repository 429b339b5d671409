SPECIFICATION Spec
CONSTANTS
    Setups <- CacheSetups
    Served <- MCServed
    Segments <- MCSegments
    Callers = {c1}
    MaxChanges = 2
INVARIANT NilKeepsBuiltIn
CHECK_DEADLOCK FALSE
