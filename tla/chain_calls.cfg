CONSTANTS
    NullValue = NullValue
    Calls <- LookupCalls
    Null <- NullValue
    Height <- LookupHeight
    BlockAnswers <- LookupBlocks
SPECIFICATION CallsSpec
INVARIANTS
    NotFoundOnlyAfterThreeMisses
    ErrorsSurfaced
    BlockMatchesHeight
    ErrorsNotMasked
    NoRpcWithoutPayer
PROPERTY Termination
\* Every call returns; nothing is left to do after that.
CHECK_DEADLOCK FALSE
