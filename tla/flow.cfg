SPECIFICATION FlowSpec
CONSTANTS
    me = me
    p1 = p1
    p2 = p2
    Me = me
    Peers <- One
    CarryLimit = 1
    MaxDrops = 1
    MaxDeaths = 1
    MaxSessions = 1
    MaxEvents = 2
INVARIANTS
    MeshDecidesEntry
    FreshFlowIsClean
    ChatIsRecentPast
PROPERTIES
    EndScreenStays
CHECK_DEADLOCK FALSE
