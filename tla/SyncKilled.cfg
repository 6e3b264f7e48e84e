SPECIFICATION FairSpec
CONSTANTS
    Devices = {d1}
    Dates = {1, 2}
    Bodies = {b1}
    MaxKey = 2
    None = None
    Unknown = Unknown
    StoredAtStart = 3
    MaxEdits = 2
    MaxFetches = 1
    MaxDrops = 1
    MaxKills = 1
    WaitEcho = TRUE
    WaitLoad = FALSE
INVARIANTS ServerStaysReadable
PROPERTIES CatchesUp
CHECK_DEADLOCK FALSE
