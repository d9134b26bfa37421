SPECIFICATION FairSpec
CONSTANTS
    ClientRequests = {FALSE}
    ServerRequests = {FALSE, TRUE}
    HandshakeRecords = 1
    MaxSends = 3
    MaxCommits = 4
    Capacity = 1
    HighWater = 1
    ReadAhead = 1
    Faults = {}
INVARIANT TypeOK
INVARIANT AnswersNeverFill
PROPERTY ImplementsAtomic
PROPERTY AllDelivered
CHECK_DEADLOCK FALSE
