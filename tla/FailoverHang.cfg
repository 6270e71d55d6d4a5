SPECIFICATION FairSpec
CONSTANTS
    Endpoint = {"a", "b"}
    None = None
    Seed <- TwoSeeds
    Directories <- NoDirectories
    Laps = 2
    MaxResumes = 2
    Prompt = TRUE
    MaxFaults = 1
PROPERTY RequestReturns
CHECK_DEADLOCK FALSE
