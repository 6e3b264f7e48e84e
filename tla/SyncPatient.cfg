SPECIFICATION Spec
CONSTANTS
    Devices = {d1}
    Dates = {1, 2}
    Bodies = {b1, b2}
    MaxKey = 2
    None = None
    Unknown = Unknown
    StoredAtStart = 2
    MaxEdits = 2
    MaxFetches = 1
    MaxDrops = 1
    MaxKills = 0
    WaitEcho = TRUE
    WaitLoad = TRUE
SYMMETRY Symmetry
INVARIANTS AcksMatch NeverTraps NothingLostUnasked
PROPERTIES EchoIsSilent
CHECK_DEADLOCK FALSE
