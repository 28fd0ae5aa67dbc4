SPECIFICATION Spec
CONSTANTS
    None = None
    Ghost = "ghost"
    Proc = {p1, p2, p3, p4}
    Session = {"s1"}
    Job <- SameSession
    Attempts = 4
    StaleLocks = {"lifecycle", "s1"}
    MaxSaves = 1
    MaxCrashes = 0
    MaxDiskFaults = 0
INVARIANTS
    ExclusiveSession
CHECK_DEADLOCK FALSE
SYMMETRY Same
