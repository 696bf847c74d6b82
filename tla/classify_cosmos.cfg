CONSTANTS
    Chain = "Cosmos"
    Reported <- CosmosReported
    Isms <- ClassIsms
    RootIsm = 1
    ModuleTypeOf <- Classified
    Route <- ClassRoute
    Modules <- ClassModules
    Threshold <- ClassThreshold
    FaultyIsms = {}
    MaxIsmDepth = 3
    MaxIsmCount = 10
SPECIFICATION Spec
INVARIANT UnsupportedTypesFail
CHECK_DEADLOCK FALSE
