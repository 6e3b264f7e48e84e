SPECIFICATION Spec
CONSTANTS
    BlockSize = 4
    HeaderSize = 2
    MaxLength = 5
    MaxRecords = 3
    MaxFaults = 1
INVARIANTS TypeOK Genuine NothingElseLost NoFalseAlarm
CHECK_DEADLOCK FALSE
