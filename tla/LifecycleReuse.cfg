SPECIFICATION Spec
CONSTANTS
    Conn = {"t", "u"}
    Kind <- TcpKind
    Fd = {f1}
    None = None
    Reuse = TRUE
    MaxStarts = 1
    MaxFaults = 1
INVARIANT Released
CHECK_DEADLOCK FALSE
