SPECIFICATION Spec
CONSTANTS
    None = None
    Unreadable = Unreadable
    Path <- PartsPath
    PathBytes <- PartsPathBytes
    FileUnit <- PartsFileUnit
    Unit <- OneUnit
    UnitPath <- OneUnitPath
    UnitKind <- OneUnitKind
    Origin <- OneOrigin
    Content <- OneContent
    Spans <- OneSpans
    ObserveCall <- OneObserveCall
    PrepareCall <- OnePrepareCall
    Result = {"r1", "r2"}
    Request = {"q1", "q2"}
    MaxPending = 1
    Ttl = 1
    MaxTime = 3
    MaxEdits = 1
    MaxSaveFaults = 0
    MaxBlobFaults = 0
    ClockStepsBack = TRUE
INVARIANTS
    OnePlanPerRequest
    PendingBounded
    AckedIsDurable
PROPERTIES
    PlanLossIsJustified
CHECK_DEADLOCK FALSE
