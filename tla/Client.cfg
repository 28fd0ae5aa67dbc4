SPECIFICATION Spec
CONSTANTS
    None = None
    MaxRequests = 3
    MaxCrashes = 1
INVARIANTS
    TypeOK
    NobodyIsForgotten
    QuietCloseReleases
PROPERTIES
    FailureIsFinal
    NobodyHangs
CHECK_DEADLOCK FALSE
