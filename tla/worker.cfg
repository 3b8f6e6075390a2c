CONSTANTS
    LastFiling = 5
    Day <- MCDay
    Broken = {3}
    WindowDays = 2
    Lag = 1
    Outage = 1
    LastDay = 4
SPECIFICATION FairSpec
INVARIANTS
    NoGap
    PopulatedOnceScheduling
PROPERTIES
    HandsOver
    EventuallyServed
    BlockedOnlyBehind
