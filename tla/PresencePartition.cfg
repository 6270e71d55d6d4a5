SPECIFICATION Spec
CONSTANTS
    n1 = n1
    n2 = n2
    c1 = c1
    c2 = c2
    u1 = u1
    Node = {n1, n2}
    User = {u1}
    Client = {c1}
    NoNode = NoNode
    NoUser = NoUser
    SeedUser = {u1}
    MaxSocks = 2
    MaxRequests = 1
    MaxLosses = 1
    MaxCuts = 1
    MaxCrashes = 0
    Patient = TRUE
SYMMETRY ClientSymmetry
INVARIANTS SessionsRecorded
CHECK_DEADLOCK FALSE
