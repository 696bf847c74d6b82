CONSTANTS
    Isms <- SpecIsms
    RootIsm = 1
    ModuleTypeOf <- SpecType
    Route <- SpecRoute
    Modules <- SpecModules
    Threshold <- SpecThreshold
    FaultyIsms <- NoFaulty
    MaxIsmDepth = 5
    MaxIsmCount = 5
SPECIFICATION Spec
INVARIANTS
    SpecScenarioSucceeds
CHECK_DEADLOCK FALSE
