SPECIFICATION Spec
CONSTANTS
    Keys = {"k1", "k2", "k3"}
    Contents = {"v", "w"}
    size = 2
    MaxTTL = 2
    MaxHeld = 1
    MaxTime = 2
CHECK_DEADLOCK FALSE
INVARIANTS IndexMatchesList OrderedByUse
PROPERTIES ImplementsResponseCache
