SPECIFICATION Spec
CONSTANTS
    Node = {1, 2}
    EventId = {"a", "b"}
    Origin <- PairOrigin
    Peers <- PairPeers
    MAX_EVENT_LOG = 1
    MaxBreaks = 1
    MaxCrashes = 1
    MaxAccepts = 2
INVARIANTS TypeOK LogConsistent ReappliedOnlyAfterEviction HelloFirst 
PROPERTY ImplementsBus
CHECK_DEADLOCK FALSE
