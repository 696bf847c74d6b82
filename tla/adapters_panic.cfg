CONSTANTS
    NullValue = NullValue
    Calls <- LookupCalls
    Null <- NullValue
    Height <- LookupHeight
    BlockAnswers <- LookupBlocks
SPECIFICATION CallsSpec
INVARIANT NoPanicOnReply
CHECK_DEADLOCK FALSE
