SPECIFICATION Spec
CONSTANTS
    Procs = {l1, l2}
    Tasks = {t1, t2}
    Attempts = 2
    MaxMishaps = 1
    TTL = 1
    Window = 1
    Pad = 0
    Fallback = 1
    MaxTime = 2
    MaxChanges = 2
    MaxCalls = 2
SYMMETRY Symmetry
INVARIANTS
    OneClaim
    RevalidatedIsCurrent
PROPERTIES
    OnlyTimeReopens
CHECK_DEADLOCK FALSE
