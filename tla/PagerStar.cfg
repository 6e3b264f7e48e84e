SPECIFICATION Spec
CONSTANTS
    Pager = "star"
    MaxLen = 4
    MaxChanges = 2
    Unasked = Unasked
    NoPage = NoPage
    MayShrink = TRUE
INVARIANTS TypeOK PagesInRange
CHECK_DEADLOCK FALSE
