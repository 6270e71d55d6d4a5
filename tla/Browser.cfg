SPECIFICATION FairSpec
CONSTANTS
    Lobby = "Lobby"
    Other = "Other"
    MaxRequests = 3
    MaxChats = 1
    MaxDrops = 2
  
PROPERTY BusyEnds
CHECK_DEADLOCK FALSE
