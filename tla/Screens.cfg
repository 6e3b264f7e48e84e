SPECIFICATION Spec
CONSTANTS
    Dates = {1, 2}
    Bodies = {plain, starred}
    Starred = {starred}
    MaxKey = 1
    None = None
    Unknown = Unknown
    NoDream = NoDream
    MaxEdits = 3
    MaxFetches = 3
    MaxPushes = 1
INVARIANTS TypeOK TableFits NoStaleRow NoRowTrap
CHECK_DEADLOCK FALSE
