SPECIFICATION Spec
CONSTANTS
    Calls = {c1}
    Servers = {"a"}
    Stdio = {}
    Quiet = {}
    Requests <- Good
    ToolLists <- Few
    Scopes = {"p"}
    Unparsable = {"{"}
    Placeholder = {"null"}
    OffSchema = {"y"}
    finalArgs <- Final
    cacheKey <- defaultCacheKey
    Parts <- Split
    Malformed = {"{"}
    schemaValidation = TRUE
    CacheOn = TRUE
    BeforeHooks = 1
    TransformHooks = 0
    MaxEpoch = 1
CHECK_DEADLOCK FALSE
INVARIANT
    EveryCallIsRecorded
