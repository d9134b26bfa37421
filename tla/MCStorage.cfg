\* Sessions of one profile and, on the same server's database, one of its own.
SPECIFICATION FairSpec
CONSTANTS
    Session = {"s1", "s2", "s3"}
    Profile = {"p", "q"}
    Database = {"A", "B", "C"}
    ProfileOf <- MCProfileOf
    ClientDb <- MCClientDb
    ServerDb <- MCServerDb
    NoSession = "none"
    MaxCrashes = 2
INVARIANT TypeOK
INVARIANT NoConflict
INVARIANT OneTracePerCrash
PROPERTY HandshakesEnd
PROPERTY DisplacedNeverWrites
CHECK_DEADLOCK FALSE
