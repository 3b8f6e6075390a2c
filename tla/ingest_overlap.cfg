\* Three jobs of the scheduler that meet the same filing.
CONSTANTS
    Filings = {f1}
    Sessions = {s1, s2, s3}
    None = none
SPECIFICATION FairSpec
INVARIANTS
    TypeOK
    RowsOnlyWhenParsed
    LogsTellTheTruth
    UnfailedKeepRows
    LoneNeverConflicts
PROPERTIES
    StatusNeverRegresses
    SessionsFinish
    LoneIsAtomic
