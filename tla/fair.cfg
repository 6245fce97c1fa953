SPECIFICATION FairSpec
CONSTANTS
    p1 = p1
    p2 = p2
    p3 = p3
    Players <- Two
    Lobby <- Lobby2
    Capacities <- Capacity2
    Conns <- Conns3
    MaxOpens = 3
    MaxJoins = 0
    MaxTransfers = 0
    MaxCloses = 0
    MaxReports = 0
    WinTarget = 0
    TtlLapses = FALSE
    MinPlayers = 2
    NoSession = NoSession
    NoRoom = NoRoom
PROPERTIES
    PauseEnds
    HoldResolves
    BarrierResolves
CHECK_DEADLOCK FALSE
