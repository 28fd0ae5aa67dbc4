SPECIFICATION Spec
CONSTANTS
    MaxCalls = 3
    Place <- Places
    First <- Home
    None = None
INVARIANTS
    OneSessionAtATime
PROPERTIES
    EverybodyReturns
CHECK_DEADLOCK FALSE
