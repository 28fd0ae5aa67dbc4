SPECIFICATION Spec
CONSTANTS
    None = None
    Path = {"a", "b"}
    Revision = {"x", "y"}
    Selector = {"f"}
    Anchors = {"k"}
    OldId = {1, 2, 3}
    Result = {"r1", "r2"}
    Proc = {"p1", "p2", "p3"}
    Job <- Jobs
    V1State <- V1
    MaxCrashes = 1
    MaxRestarts = 1
    MaxDiskFaults = 1
INVARIANTS
    TypeOK
    MigrationIsFaithful
PROPERTIES
    OwnedStoreOpens
CHECK_DEADLOCK FALSE
