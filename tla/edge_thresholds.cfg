CONSTANTS
    Isms <- EdgeIsms
    RootIsm = 1
    ModuleTypeOf <- EdgeType
    Route <- EdgeRoute
    Modules <- EdgeModules
    Threshold <- EdgeThreshold
    FaultyIsms <- EdgeFaulty
    MaxIsmDepth = 3
    MaxIsmCount = 10
SPECIFICATION Spec
INVARIANTS
    ResultSound
    ResultComplete
CHECK_DEADLOCK FALSE
