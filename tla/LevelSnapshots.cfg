SPECIFICATION Spec
CONSTANTS
    MaxKey = 2
    NumLevels = 4
    MaxMemCompactLevel = 2
    MaxSequence = 4
    MaxSnapshots = 1
    Manual = TRUE
INVARIANTS TypeOK ValuesKept
