SPECIFICATION Spec
CONSTANTS
    Hash = {p1, p2}
    Version = {v1, v2}
    None = None
    MaxLaunchAttempts = 2
    CanDefer = TRUE
    MaxUncounted = 1
    MaxQueue = 3
INVARIANTS
    TypeOK
    TrackingNamesPending
    
    BudgetBounded
    PointersResolve
    PointersMatchBinary
    RunningNotFailed
PROPERTIES
    
    CrashLoopEnds
