SPECIFICATION Spec
CONSTANTS
    Accounts = {a, b}
    Nobody = Nobody
    RulesPerUser = FALSE
    MaxScreens = 5
    MaxRequests = 2
    MaxEdits = 1
    MaxDrops = 0
    WaitAuth = FALSE
    WaitListener = FALSE
    WaitLoad = FALSE
    WaitShown = FALSE
SYMMETRY Symmetry
INVARIANTS TypeOK WellStacked
CHECK_DEADLOCK FALSE
