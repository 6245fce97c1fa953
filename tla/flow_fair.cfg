SPECIFICATION FairSpec
CONSTANTS
    me = me
    p1 = p1
    p2 = p2
    Me = me
    Peers <- One
    CarryLimit = 1
    MaxDrops = 1
    MaxDeaths = 0
    MaxSessions = 1
    MaxEvents = 1
PROPERTIES
    ReadyResolves
    LobbyRecovers
    BlipNeverPauses
CHECK_DEADLOCK FALSE
