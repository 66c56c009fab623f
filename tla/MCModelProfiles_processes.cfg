\* Two processes, loads and saves failing, kills between any two steps.
SPECIFICATION Spec
CONSTANTS
    Procs = {p1, p2}
    Ids = {default, i1, i2}
    Default = default
    NoId = NoId
    Faults = {"load", "save", "kill"}
SYMMETRY Alike
INVARIANTS
    TypeOK
    AModelIsActive
    FlagFollowsActive
