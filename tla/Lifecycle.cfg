SPECIFICATION FairSpec
CONSTANTS
    Conn = {"t", "w"}
    Kind <- MixedKind
    Fd = {f1, f2}
    None = None
    Reuse = FALSE
    MaxStarts = 1
    MaxFaults = 1
INVARIANTS TypeOK Released ClosedOnce StoppedClean
  
CHECK_DEADLOCK FALSE
