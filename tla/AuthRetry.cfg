SPECIFICATION Spec
CONSTANTS
    Requests = {r1}
    RetryMax = 1
    AuthBlocks <- Blocks
    Credentials <- Tokens
CHECK_DEADLOCK FALSE
INVARIANTS EveryAttemptAuthenticates
