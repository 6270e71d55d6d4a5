SPECIFICATION Spec
CONSTANTS
    n1 = n1
    n2 = n2
    c1 = c1
    c2 = c2
    u1 = u1
    Node = {n1, n2}
    User = {u1}
    Client = {c1, c2}
    NoNode = NoNode
    NoUser = NoUser
    SeedUser = {}
    MaxSocks = 3
    MaxRequests = 3
    MaxLosses = 2
    MaxCuts = 0
    MaxCrashes = 0
    Patient = TRUE
SYMMETRY ClientSymmetry
INVARIANTS TypeOK  PresenceExact AccountsAgree
CHECK_DEADLOCK FALSE
