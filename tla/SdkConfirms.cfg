SPECIFICATION Spec
CONSTANTS
    Hash = {p1, p2}
    None = None
    Embedded = Embedded
    Flow = {f1, f2}
    Modes = {"IMMEDIATE"}
    MaxReloads = 1
PROPERTIES
    ConfirmsWhatRuns
