SPECIFICATION FairSpec
CONSTANTS
    None = None
    Ghost = "ghost"
    Proc = {"p1", "p2", "p3"}
    Session = {"s1"}
    Job <- OneCleans
    Attempts = 4
    StaleLocks = {}
    MaxSaves = 1
    MaxCrashes = 2
    MaxDiskFaults = 1
INVARIANTS
    TypeOK
    LockVisible
    CleansAlone
PROPERTIES
    RefusedByTheLiving
    SurvivorsGetIn
    EverybodySettles
    ImplementsSessionStore
CHECK_DEADLOCK FALSE
