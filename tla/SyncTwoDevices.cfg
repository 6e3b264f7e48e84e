SPECIFICATION Spec
CONSTANTS
    Devices = {d1, d2}
    Dates = {1, 2}
    Bodies = {b1}
    MaxKey = 1
    None = None
    Unknown = Unknown
    StoredAtStart = 1
    MaxEdits = 2
    MaxFetches = 1
    MaxDrops = 0
    MaxKills = 0
    WaitEcho = FALSE
    WaitLoad = FALSE
SYMMETRY Symmetry
INVARIANTS TypeOK Convergence EventPipeline ServerHeard
CHECK_DEADLOCK FALSE
