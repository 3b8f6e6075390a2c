CONSTANTS
    LastFiling = 2
    Day <- MCTwoFilings
    Broken = {}
    WindowDays = 2
    Lag = 1
    Outage = 1
    LastDay = 2
SPECIFICATION Spec
PROPERTIES
    CatchesUpAfterBackfill
