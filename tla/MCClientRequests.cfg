SPECIFICATION FairSpec
CONSTANTS
    ClientRequests = {TRUE}
    ServerRequests = {FALSE}
    HandshakeRecords = 0
    MaxSends = 2
    MaxCommits = 2
PROPERTY ServerAnswered
CHECK_DEADLOCK FALSE
