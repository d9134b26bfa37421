SPECIFICATION Spec
CONSTANTS
    Session = {"s1", "s2", "s3"}
    Profile = {"p", "q"}
    Database = {"A", "B", "C"}
    ProfileOf <- MCProfileOf
    ClientDb <- MCClientDb
    ServerDb <- MCServerDb
    NoSession = "none"
    MaxCrashes = 1
INVARIANT DeleteSucceeds
CHECK_DEADLOCK FALSE
