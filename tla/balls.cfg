SPECIFICATION Spec
CONSTANTS
    Players <- Seats3
    Host = 1
    SplitBallCount = 1
    HotbarRoom = 1
    MaxBalls = 2
    MaxPickups = 2
    MaxFaults = 1
PROPERTIES MasterKept
INVARIANTS
    
    NothingLostWithoutFault
    OpenChannelHasPortal
CHECK_DEADLOCK FALSE
