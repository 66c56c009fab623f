SPECIFICATION Spec
CONSTANTS
    noTree = noTree
    NoTree <- noTree
    Trees <- TreesValue
    EngineArgs <- EngineArgsValue
    Outside <- OutsideValue
INVARIANTS
    SafeMeansHarmless
    NoFalseAlarm
CHECK_DEADLOCK FALSE
