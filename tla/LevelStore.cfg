SPECIFICATION Spec
CONSTANTS
    MaxWrites = 3
    SyncWrites = {1, 3}
    MemTableSize = 1
    MaxCompactions = 1
    MaxKills = 1
    MaxOutages = 1
    MaxFaults = 1
    MaxReads = 1
    NoFlush = NoFlush
    NoCompaction = NoCompaction
    NoEdit = NoEdit
    NoReader = NoReader
INVARIANTS TypeOK NumbersFresh NeededFilesExist
PROPERTIES StoreSpec EveryWriteReturns
CHECK_DEADLOCK FALSE
