\* Two processes load and save, and everything may go wrong.
SPECIFICATION Spec
CONSTANTS
    Procs = {p1, p2}
    Payloads = {v1, v2}
    Nothing = Nothing
    Files = {f1, f2, f3, f4}
    NoFile = NoFile
    Mishaps = {"interrupt", "kill", "power loss", "unlink"}
INVARIANTS
    TypeOK
    NeverTorn
    TempsAreOwned
PROPERTIES
    ImplementsAtomicFile
SYMMETRY Alike
