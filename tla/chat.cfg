SPECIFICATION Spec
CONSTANTS
    Codes = {c1}
    Players = {p1}
    Moderators = {m1}
    Closers = {e1}
    Legacy <- OldLog
    MaxGen = 2
    MaxEvents = 3
INVARIANTS
    OneInstance
    
    
PROPERTIES
    EvidenceOutlives
CHECK_DEADLOCK FALSE
