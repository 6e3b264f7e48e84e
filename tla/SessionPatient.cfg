SPECIFICATION FairSpec
CONSTANTS
    Accounts = {a, b}
    Nobody = Nobody
    RulesPerUser = TRUE
    MaxScreens = 4
    MaxRequests = 2
    MaxEdits = 1
    MaxDrops = 1
    WaitAuth = TRUE
    WaitListener = TRUE
    WaitLoad = TRUE
    WaitShown = TRUE
INVARIANTS OwnDreamsOnly NeverNil NoOrphanData
PROPERTIES SignedOutSeesLogin WithdrawnDataGoes DiaryShown
CHECK_DEADLOCK FALSE
