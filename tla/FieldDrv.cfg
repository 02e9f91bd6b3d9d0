SPECIFICATION MCSpec
CONSTANTS
    a = a
    p = p
    NumModules = 2
    Dev = {a, p}
    ModuleOf <- MCModuleOf
    Analog = {a}
    PulseModule = 2
    SyncTrys = 2
INVARIANTS TypeOK ErrorsAgree QualityHonest PulseLatched JoinEnds
PROPERTIES SourceSpec
CHECK_DEADLOCK FALSE
