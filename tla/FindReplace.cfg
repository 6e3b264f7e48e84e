SPECIFICATION Spec
CONSTANTS
    Devices = {d1}
    Dates = {1, 2}
    Bodies = {b1, b2}
    MaxKey = 2
    None = None
    Unknown = Unknown
    StoredAtStart = 1
    MaxEdits = 2
    MaxFetches = 0
    MaxDrops = 0
    MaxKills = 0
    WaitEcho = TRUE
    WaitLoad = TRUE
SYMMETRY Symmetry
INVARIANTS OneDreamPerDate
CHECK_DEADLOCK FALSE
