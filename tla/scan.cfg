SPECIFICATION ScanSpec
CONSTANTS
    Interval = 1
    FloorAge = 2
    StaleAfter = 3
    Backlog = 2
    MaxFindings = 1
    None = None
    MaxTime = 4
    MaxEvents = 4
CHECK_DEADLOCK FALSE
INVARIANTS
    NothingIsLost
PROPERTIES
    NoLineIsToldTwice
