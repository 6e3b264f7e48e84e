SPECIFICATION Spec
CONSTANTS
    MaxKey = 3
    NumLevels = 4
    MaxMemCompactLevel = 2
    MaxSequence = 4
    MaxSnapshots = 0
    Manual = FALSE
INVARIANTS ReadsCorrect NewerAbove LevelsDisjoint
CHECK_DEADLOCK FALSE
