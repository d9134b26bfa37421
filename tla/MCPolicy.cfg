\* Sides with no policy, a traffic-based one, or both kinds at once.
SPECIFICATION Spec
CONSTANTS
    ClientRequests = {FALSE}
    ServerRequests = {FALSE}
    HandshakeRecords = 0
    MaxSends = 4
    MaxCommits = 3
    Duration = 1
    Threshold = 2
    Parts = {{}, {"traffic"}, {"time", "traffic"}}
    Sizes = {1}
    MaxTime = 2
INVARIANT TypeOK
PROPERTY UsageBounded
PROPERTY FreshKeys
CHECK_DEADLOCK FALSE
