SPECIFICATION Spec
CONSTANTS
    p1 = p1
    p2 = p2
    p3 = p3
    Players <- Two
    Lobby <- Lobby2
    Capacities <- Capacity2
    Conns <- Conns3
    MaxOpens = 2
    MaxJoins = 3
    MaxTransfers = 1
    MaxCloses = 1
    MaxReports = 1
    WinTarget = 2
    TtlLapses = TRUE
    MinPlayers = 2
    NoSession = NoSession
    NoRoom = NoRoom
INVARIANTS
    OneWinner
    DecidedMeansOver
PROPERTIES
    KeepsStore
CHECK_DEADLOCK FALSE
