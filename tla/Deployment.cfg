SPECIFICATION BothSpec
CONSTANTS
    Emissions <- AllEmissions
    Requests = {r1, r2}
    Folders = {s1, s2}
    None = None
    RawDays = 1
    ClientDays = 0
    QueueCap = 2
    MaxDay = 3
    MaxFaults = 1
    MaxClears = 1
    Version = {v1, v2}
    Hash = {p1, p2}
    Fingerprint = {f1}
    Rollouts = {TRUE, FALSE}
    MaxReleases = 2
    MaxJobs = 3
INVARIANTS
    BothTypeOK
    CountsAreExact
    FailureSuperseded
    
    NothingLeftBehind
    OfferedCanBeDownloaded
    DevicesFollowTheReleases
SYMMETRY Symmetry
CHECK_DEADLOCK FALSE
