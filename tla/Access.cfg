SPECIFICATION Spec
CONSTANTS
    Node = {"n1", "n2"}
    User = {"admin", "user"}
    Admin = {"admin"}
    Home <- SplitHome
    Lobby = "Lobby"
    Extra = {"R"}
    MAX_EVENT_LOG = 1
    MaxSteps = 4
    MaxFaults = 1
INVARIANTS TypeOK ClosedRooms ListedByRight ListsAgree HistoriesAgree 
CHECK_DEADLOCK FALSE
