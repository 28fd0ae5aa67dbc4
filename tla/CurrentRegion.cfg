SPECIFICATION Spec
CONSTANTS
    None = None
    AnchorBytes = 2
    MinSpan = 3
    Decoded <- MCDecoded
    Ino = {1, 2, 3}
    Written <- Short
    MaxBytes = 2
    Start <- Calls
    MaxWrites = 3
    MaxTime = 1
INVARIANTS
    SnapshotIsHonest
PROPERTIES
    RegionIsSure
CHECK_DEADLOCK FALSE
