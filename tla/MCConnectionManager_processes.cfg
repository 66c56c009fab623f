\* Two processes, any file operation may fail.
SPECIFICATION Spec
CONSTANTS
    p1 = p1
    p2 = p2
    h1 = h1
    h2 = h2
    Procs = {p1, p2}
    Handles = {h1, h2}
    NoEngine = NoEngine
    MaxProfiles = 2
    Faults = {"load", "save"}
SYMMETRY Alike
INVARIANTS
    TypeOK
    EngineServesActive
    NoEngineLeak
    ActiveIsRegistered
    OneFlag
    FlagNamesActive
PROPERTIES
    FailedSwitchIsNoOp
    ImplementsActiveDatabase
