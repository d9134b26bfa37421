\* Messages that fit one record, the largest such included.
SPECIFICATION FairSpec
CONSTANTS
    MaxRecordSize = 4
    Bytes = {0, 1}
    MaxLength = 2
    MaxMessages = 2
INVARIANT ReadsSucceed
INVARIANT MessagesIntact
PROPERTY AllReturned
CHECK_DEADLOCK FALSE
