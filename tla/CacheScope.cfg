SPECIFICATION Spec
CONSTANTS
    Calls = {c1, c2}
    Servers = {"b", "a|b"}
    Stdio = {}
    Quiet = {}
    Requests <- Tenants
    ToolLists <- Few
    Scopes = {"p", "p|a"}
    Unparsable = {"{"}
    Placeholder = {"null"}
    OffSchema = {"y"}
    finalArgs <- Final
    cacheKey <- defaultCacheKey
    Parts <- Split
    Malformed = {"{"}
    schemaValidation = TRUE
    CacheOn = TRUE
    BeforeHooks = 0
    TransformHooks = 0
    MaxEpoch = 1
CHECK_DEADLOCK FALSE
INVARIANT
    ScopesAreIsolated
