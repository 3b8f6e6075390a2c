CONSTANTS
    ann = ann  bob = bob  cid = cid  acme = acme
    j1 = j1  j2 = j2
    NoTicker = none  NoInsider = none  NoDay = none
    MinValue = 2
    Span = 3
    Transactions <- MCTransactions
    Jobs = {j1, j2}
    MaxCommits = 2
SYMMETRY MCSymmetry
SPECIFICATION ViewsSpec
INVARIANTS
    NoClusterLost
    NoneContained
    NothingStale
PROPERTIES
    ViewsKeepWhatIsStored
