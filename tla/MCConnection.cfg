\* Updates of both sides cross in every order, with application data around them.
SPECIFICATION FairSpec
CONSTANTS
    ClientRequests = {FALSE}
    ServerRequests = {FALSE, TRUE}
    HandshakeRecords = 1
    MaxSends = 3
    MaxCommits = 4
INVARIANT TypeOK
INVARIANT RecordsDecrypt
INVARIANT NoError
INVARIANT NoFork
INVARIANT QuiescentAgreement
INVARIANT IndInv
PROPERTY ServerFollowsClient
PROPERTY KeysMoveForward
PROPERTY ImplementsSecureChannel
PROPERTY ClientAnswered
PROPERTY ServerUpdateTakesEffect
CHECK_DEADLOCK FALSE
