SPECIFICATION Spec
CONSTANTS
    Channels = {stable, ea}
    stable = stable
    ea = ea
    MaxVersion = 2
    MaxPolls = 2
    MaxRequests = 3
    MaxFaults = 1
SYMMETRY Symmetry
INVARIANTS
    JobsExclude
    RecordMatchesDisk
    FlagCoversGame
CHECK_DEADLOCK FALSE
