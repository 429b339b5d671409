SPECIFICATION LiveSpec
CONSTANTS
    Calls = {c1}
    Servers = {"a"}
    Stdio = {}
    Quiet = {"a"}
    Requests <- Good
    ToolLists <- Few
    Scopes = {"p"}
    Unparsable = {"{"}
    Placeholder = {"null"}
    OffSchema = {"y"}
    finalArgs <- Final
    cacheKey <- defaultCacheKey
    Parts <- Split
    Malformed = {"{"}
    schemaValidation = TRUE
    CacheOn = TRUE
    BeforeHooks = 0
    TransformHooks = 0
    MaxEpoch = 1
CHECK_DEADLOCK FALSE
PROPERTY
    CallEndsAtDeadline
