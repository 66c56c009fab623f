\* One process at a time, working files: what is reported is what restarts see.
SPECIFICATION Spec
CONSTANTS
    p1 = p1
    p2 = p2
    h1 = h1
    h2 = h2
    Procs = {p1}
    Handles = {h1, h2}
    NoEngine = NoEngine
    MaxProfiles = 4
    Faults = {}
SYMMETRY Alike
INVARIANTS
    FileHoldsSavedProfiles
    RestartKeepsSelection
