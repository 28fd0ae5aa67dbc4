SPECIFICATION Spec
CONSTANTS
    Path <- MCPath
    PathBytes <- MCPathBytes
    Input <- MCInput
    Budget <- MCBudget
    MaxUnits = 3
    MaxTime = 2
INVARIANTS
    TypeOK
    SoundProjection
PROPERTIES
    ImplementsSelection
CHECK_DEADLOCK FALSE
