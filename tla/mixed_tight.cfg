CONSTANTS
    Isms <- MixedIsms
    RootIsm = 1
    ModuleTypeOf <- MixedType
    Route <- MixedRoute
    Modules <- MixedModules
    Threshold <- MixedThreshold
    FaultyIsms <- MixedFaulty
    MaxIsmDepth = 3
    MaxIsmCount = 4
SPECIFICATION Spec
INVARIANTS
    TypeOK
    CountBound
    DepthBound
    ResultSound
CHECK_DEADLOCK FALSE
