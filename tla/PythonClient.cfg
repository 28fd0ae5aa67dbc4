SPECIFICATION Spec
CONSTANTS
    Caller = {c1, c2, c3}
    Closer = closer
    Unnamed = unnamed
    None = None
INVARIANTS
    OneExchange
PROPERTIES
    LateAnswersAreLost
    EverybodyReturns
CHECK_DEADLOCK FALSE
