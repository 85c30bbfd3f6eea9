SPECIFICATION ThirdJobFairSpec
CONSTANTS
    Version = {v1}
    Fingerprint = {f1}
    Worker = {w1, w2}
    None = None
    Rollouts = {TRUE, FALSE}
    MaxAttempts = 2
    MaxReleases = 3
    MaxJobs = 3
PROPERTIES
    ProcessingEnds
