SPECIFICATION MatchSpec
CONSTANTS
    p1 = p1
    p2 = p2
    p3 = p3
    Players <- Three
    Lobby <- Lobby3
    Capacities <- Capacity3
    Conns <- Conns4
    MaxOpens = 4
    MaxJoins = 0
    MaxTransfers = 0
    MaxCloses = 0
    MaxReports = 0
    WinTarget = 0
    TtlLapses = FALSE
    MinPlayers = 2
    NoSession = NoSession
    NoRoom = NoRoom
INVARIANTS
    FounderLossHandled
    StartedJoinerSlotsHeld
PROPERTIES
    EvictedOnlyByOwn
CHECK_DEADLOCK FALSE
