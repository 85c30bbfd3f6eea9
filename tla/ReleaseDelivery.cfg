SPECIFICATION FairSpec
CONSTANTS
    Version = {v1}
    Fingerprint = {f1}
    Worker = {w1}
    None = None
    Rollouts = {TRUE, FALSE}
    MaxAttempts = 2
    MaxReleases = 1
    MaxJobs = 1
PROPERTIES
    QueuedJobsRun
