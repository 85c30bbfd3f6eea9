SPECIFICATION Spec
CONSTANTS
    Version = {v1, v2}
    Hash = {p1, p2}
    Fingerprint = {}
    None = None
    Rollouts = {FALSE}
    MaxReleases = 2
    MaxJobs = 4
SYMMETRY Symmetry
INVARIANTS
    DisabledIsNotOffered
CHECK_DEADLOCK FALSE
