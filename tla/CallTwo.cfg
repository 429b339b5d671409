SPECIFICATION Spec
CONSTANTS
    Calls = {c1, c2}
    Servers = {"a"}
    Stdio = {}
    Quiet = {}
    Requests <- Pair
    ToolLists <- Lists
    Scopes = {"p", "q"}
    Unparsable = {"{"}
    Placeholder = {"null"}
    OffSchema = {"y"}
    finalArgs <- Final
    cacheKey <- defaultCacheKey
    Parts <- Split
    Malformed = {"{"}
    schemaValidation = TRUE
    CacheOn = TRUE
    BeforeHooks = 1
    TransformHooks = 1
    MaxEpoch = 1
CHECK_DEADLOCK FALSE
SYMMETRY Symmetry
INVARIANTS
    ResultIsOwn
    ResultIsTransformed
    OnlyKeptIsServed
