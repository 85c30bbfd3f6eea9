SPECIFICATION Spec
CONSTANTS
    Version = {v1}
    Fingerprint = {}
    Worker = {w1}
    None = None
    Rollouts = {TRUE, FALSE}
    MaxAttempts = 1
    MaxReleases = 2
    MaxJobs = 3
INVARIANTS
    OnePartialRollout
