CONSTANTS
    TooBig = ReorgTooBig
    Words = {Finalized}
    ReorgTooBig = ReorgTooBig
    Finalized = Finalized
    AbsentKey = AbsentKey
    InvalidValue = InvalidValue
    NoInput = NoInput
INIT ValidatorInit
NEXT ValidatorNext
INVARIANTS
    FromConfigSound
    FromConfigComplete
    SettingsFromTheirKeys
    ReorgPeriodUsable
    ReorgRoundTrip
PROPERTY HealthImprovesOnlyBySigning
\* Each configuration is parsed once; the node part may stop anywhere.
CHECK_DEADLOCK FALSE
