SPECIFICATION LiveSpec
CONSTANTS
    Calls = {c1}
    Servers = {"a", "b"}
    Stdio = {"b"}
    Quiet = {"a", "b"}
    Requests <- Every
    ToolLists <- Few
    Scopes = {"p"}
    Unparsable = {"{"}
    Placeholder = {"null"}
    OffSchema = {"y"}
    finalArgs <- Final
    cacheKey <- defaultCacheKey
    Parts <- Split
    Malformed = {"{"}
    schemaValidation = TRUE
    CacheOn = TRUE
    BeforeHooks = 2
    TransformHooks = 2
    MaxEpoch = 2
CHECK_DEADLOCK FALSE
INVARIANTS
    ObservedOnce
    RejectedIsReported
PROPERTIES
    AfterCallIsLast
    CallReturns
