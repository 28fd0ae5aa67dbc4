SPECIFICATION Spec
CONSTANTS
    None = None
    Unreadable = Unreadable
    Path <- FilesPath
    PathBytes <- FilesPathBytes
    FileUnit <- FilesFileUnit
    Unit <- FilesUnit
    UnitPath <- FilesUnitPath
    UnitKind <- FilesUnitKind
    Origin <- FilesOrigin
    Content <- FilesContent
    Spans <- FilesSpans
    ObserveCall <- FilesObserveCall
    PrepareCall <- FilesPrepareCall
    Result = {"r1", "r2"}
    Request = {"q1"}
    MaxPending = 1
    Ttl = 0
    MaxTime = 1
    MaxEdits = 1
    MaxSaveFaults = 1
    MaxBlobFaults = 0
    ClockStepsBack = FALSE
INVARIANTS
    RejectedStaysRejected
PROPERTIES
    AppliedAgainstCurrent
    CommittedForever
CHECK_DEADLOCK FALSE
