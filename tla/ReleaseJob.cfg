SPECIFICATION Spec
CONSTANTS
    Version = {v1, v2}
    Fingerprint = {f1}
    Worker = {w1, w2}
    None = None
    Rollouts = {FALSE}
    MaxAttempts = 2
    MaxReleases = 2
    MaxJobs = 2
SYMMETRY Symmetry
INVARIANTS
    TypeOK
    OneActiveJob
    NoStrandedRelease
    AttemptBudget
    ExclusiveClaim
    OwnerSeesThePresent
    ServedIsCurrent
    PublishedIsReusable
CHECK_DEADLOCK FALSE
