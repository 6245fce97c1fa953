SPECIFICATION Spec
CONSTANTS
    p1 = p1
    p2 = p2
    p3 = p3
    p4 = p4
    Players <- MCPlayers
    Capacities <- MCCapacities
    MinPlayers = 2
    NoSession = NoSession
INVARIANTS
    RosterSound
    MatchSeated
PROPERTIES
    SeatingFrozen
    SeniorityStable
CHECK_DEADLOCK FALSE
