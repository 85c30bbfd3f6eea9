SPECIFICATION Spec
CONSTANTS
    Version = {v1}
    Fingerprint = {f1}
    Worker = {w1, w2}
    None = None
    Rollouts = {TRUE, FALSE}
    MaxAttempts = 2
    MaxReleases = 1
    MaxJobs = 1
INVARIANTS
    StagedUntilTerminal
