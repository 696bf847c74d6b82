CONSTANTS
    Isms <- CyclicIsms
    RootIsm = 1
    ModuleTypeOf <- CyclicType
    Route <- CyclicRoute
    Modules <- CyclicModules
    Threshold <- CyclicThreshold
    FaultyIsms <- NoFaulty
    MaxIsmDepth = 4
    MaxIsmCount = 5
SPECIFICATION Spec
INVARIANTS
    DepthBound
    CountBound
    QueriesWithinBudget
PROPERTIES
    Termination
CHECK_DEADLOCK FALSE
