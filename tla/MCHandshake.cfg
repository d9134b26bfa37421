\* Every choice of pre-handshakes, keys and expected servers, with early use.
SPECIFICATION FairSpec
CONSTANTS
    ClientRequests = {FALSE}
    ServerRequests = {TRUE, FALSE}
    MaxSends = 3
    MaxCommits = 3
    Methods = {"none", "psk1", "psk2", "x25519"}
INVARIANT TypeOK
INVARIANT EstablishedTogether
INVARIANT EarlyRecordsOpen
PROPERTY HandsOver
PROPERTY HandshakesEnd
CHECK_DEADLOCK FALSE
