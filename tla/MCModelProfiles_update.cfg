\* One process at a time, nothing failing.
SPECIFICATION Spec
CONSTANTS
    Procs = {p1}
    Ids = {default, i1}
    Default = default
    NoId = NoId
    Faults = {}
SYMMETRY Alike
INVARIANTS
    SelectionPersists
