SPECIFICATION Spec
CONSTANTS
    s1 = s1
    s2 = s2
    r1 = r1
    Peer = Peer
    Lobby = Lobby
    General = General
    Sock = {s1, s2}
    Extra = {r1}
    MaxOps = 5
    MaxFaults = 1
INVARIANTS TypeOK Reachable DirectoryBacked 
SYMMETRY SocketSymmetry
CHECK_DEADLOCK FALSE
