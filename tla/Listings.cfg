SPECIFICATION LiveSpec
CONSTANTS
    Setups <- MCSetups
    Served <- MCServed
    Segments <- MCSegments
    Callers = {c1}
    MaxChanges = 2
INVARIANTS
    StartsAsConfigured
    ListingsAreCurrent
    ChosenToolsAreCurrent
    GroupsPartition
PROPERTY ListingsAndCloseReturn
CHECK_DEADLOCK FALSE
