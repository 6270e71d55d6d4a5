SPECIFICATION FairSpec
CONSTANTS
    Endpoint = {"a", "b"}
    None = None
    Seed <- OneSeed
    Directories <- SomeDirectories
    Laps = 2
    MaxResumes = 2
    Prompt = FALSE
    MaxFaults = 3
INVARIANTS TypeOK GivesUpLast RingFollowsLink FreshQueue SessionResumed CeilingExact
PROPERTIES  StopReturns
CHECK_DEADLOCK FALSE
