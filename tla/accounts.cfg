SPECIFICATION Spec
CONSTANTS
    Launchers = {l1, l2}
    Lines = {c1, c2}
    Admins = {a1}
    Moderators = {m1}
    MaxNumbers = 2
    MaxRequests = 5
    MaxLost = 1
SYMMETRY Alike
INVARIANTS
    OneHolder
    BanStaysWithAccount
CHECK_DEADLOCK FALSE
