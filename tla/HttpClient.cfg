SPECIFICATION LiveSpec
CONSTANTS
    Requests = {r1}
    RetryMax = 5
    AuthBlocks <- Blocks
    Credentials <- Tokens
CHECK_DEADLOCK FALSE
INVARIANTS
    BoundedDelivery
    AuthenticatedOrUnsent
    QuietAfterDeadline
PROPERTIES
    AnswerIsFinal
    RequestEnds
