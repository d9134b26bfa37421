SPECIFICATION FairSpec
CONSTANTS
    ServerRequests = {FALSE, TRUE}
    MaxUpdates = 3
    MaxBreaks = 3
    MaxRestarts = 0
PROPERTY Reconnects
CHECK_DEADLOCK FALSE
