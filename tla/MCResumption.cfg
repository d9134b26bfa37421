\* Breaks and restarts at any point, inside an update too.
SPECIFICATION FairSpec
CONSTANTS
    ServerRequests = {FALSE, TRUE}
    MaxUpdates = 4
    MaxBreaks = 3
    MaxRestarts = 2
INVARIANT TypeOK
INVARIANT ResumedAgreement
INVARIANT NoErrorOnceResumed
PROPERTY RefusedOnlyIfFollowed
PROPERTY ResumesUnlessLost
CHECK_DEADLOCK FALSE
