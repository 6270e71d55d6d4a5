SPECIFICATION FairSpec
CONSTANTS
    Node = {1, 2, 3}
    EventId = {"a"}
    Origin <- LineOrigin
    Peers <- LinePeers
    MAX_EVENT_LOG = 1
    MaxBreaks = 1
    MaxCrashes = 1
    MaxAccepts = 1
PROPERTY EventualDelivery
CHECK_DEADLOCK FALSE
