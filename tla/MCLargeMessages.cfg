\* Messages that need more than one record.
SPECIFICATION Spec
CONSTANTS
    MaxRecordSize = 4
    Bytes = {0, 1}
    MaxLength = 4
    MaxMessages = 1
INVARIANT ReadsSucceed
CHECK_DEADLOCK FALSE
