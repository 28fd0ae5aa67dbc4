SPECIFICATION Spec
CONSTANTS
    None = None
    Unreadable = Unreadable
    Path <- PartsPath
    PathBytes <- PartsPathBytes
    FileUnit <- PartsFileUnit
    Unit <- PartsUnit
    UnitPath <- PartsUnitPath
    UnitKind <- PartsUnitKind
    Origin <- PartsOrigin
    Content <- PartsContent
    Spans <- PartsSpans
    ObserveCall <- PartsObserveCall
    PrepareCall <- PartsPrepareCall
    Result = {"r1", "r2"}
    Request = {"q1"}
    MaxPending = 1
    Ttl = 0
    MaxTime = 0
    MaxEdits = 1
    MaxSaveFaults = 0
    MaxBlobFaults = 1
    ClockStepsBack = FALSE
INVARIANTS
    TypeOK
    PlansMatchSources
    SequenceIsUnique
    ArchiveComplete
PROPERTIES
    PreparedFromCurrent
CHECK_DEADLOCK FALSE
