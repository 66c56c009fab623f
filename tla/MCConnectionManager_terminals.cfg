\* Two terminals, working files: each saves the registry it loaded at its start.
SPECIFICATION Spec
CONSTANTS
    p1 = p1
    p2 = p2
    h1 = h1
    h2 = h2
    Procs = {p1, p2}
    Handles = {h1, h2}
    NoEngine = NoEngine
    MaxProfiles = 2
    Faults = {}
SYMMETRY Alike
INVARIANTS
    FileHoldsSavedProfiles
