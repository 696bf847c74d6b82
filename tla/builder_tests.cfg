SPECIFICATION Spec
INVARIANTS
    TestMaxDepthOutcome
    TestMaxCountOutcome
PROPERTY ImplementsResolution
\* Both test builds return; nothing is left to do after that.
CHECK_DEADLOCK FALSE
