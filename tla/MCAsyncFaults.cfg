SPECIFICATION Spec
CONSTANTS
    ClientRequests = {FALSE}
    ServerRequests = {FALSE}
    HandshakeRecords = 1
    MaxSends = 2
    MaxCommits = 2
    Capacity = 1
    HighWater = 1
    ReadAhead = 2
    Faults = {"cancel", "shutdown", "drop"}
INVARIANT NoLossAtEnd
INVARIANT InOrderOnce
CHECK_DEADLOCK FALSE
