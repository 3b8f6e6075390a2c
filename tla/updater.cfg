CONSTANTS
    f1 = f1  f2 = f2  f3 = f3
    j1 = j1  j2 = j2
    Filings <- MCFilings
    Day <- MCDay
    WindowDays = 1
    FirstDay = 1
    LastDay = 3
    Jobs = {j1, j2}
SPECIFICATION FairSpec
INVARIANTS
    TypeOK
    NoGap
PROPERTIES
    EventuallyServed
