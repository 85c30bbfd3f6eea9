SPECIFICATION BothSpec
CONSTANTS
    Hash = {p1, p2}
    None = None
    Embedded = Embedded
    Flow = {f1, f2}
    Modes = {"IMMEDIATE", "ON_NEXT_RESTART"}
    MaxReloads = 1
    AllModes = {"IMMEDIATE", "ON_NEXT_RESTART", "ON_NEXT_RESUME", "ON_NEXT_SUSPEND"}
    MoreReloads = 2
SYMMETRY Symmetry
INVARIANTS
    BothTypeOK
    PendingMirrorsDisk
    ImmediateActivates
PROPERTIES
    SuppressedNeverActivates
