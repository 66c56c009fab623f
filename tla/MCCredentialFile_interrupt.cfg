\* A ^C between two steps of a save.
SPECIFICATION Spec
CONSTANTS
    Procs = {p1, p2}
    Payloads = {v1, v2}
    Nothing = Nothing
    Files = {f1, f2, f3, f4}
    NoFile = NoFile
    Mishaps = {"interrupt"}
INVARIANTS
    NothingLeftBehind
SYMMETRY Alike
