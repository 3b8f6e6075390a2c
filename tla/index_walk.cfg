CONSTANTS
    updater = updater  other = other
    Callers = {updater, other}
    Walker = updater
    Nobody = nobody
    Interval = 1
    MaxAttempts = 2
    MonthDays = 2
    Windows <- MCWindows
SPECIFICATION FairSpec
INVARIANTS
    RetriesCounted
    VisitedInOrder
    NothingMissed
PROPERTIES
    Spaced
    WalkEnds
