SPECIFICATION Spec
CONSTANTS
    MaxVersion = 3
    Last = 2
    Horizon = 1
    QueueLimit = 4
    MaxRequests = 3
    MaxFaults = 1
INVARIANTS
    ApplyPathsExclude
    RollbackWins
    SwapKeepsTarget
PROPERTIES ScheduleLostToRollback
CHECK_DEADLOCK FALSE
