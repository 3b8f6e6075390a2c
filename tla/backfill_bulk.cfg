CONSTANTS
    a = a  b = b  c = c  d = d  e = e  g = g  h = h  l = l
    None = none
    Filings <- MCFilings
    LastQuarter = 3
    Index <- MCIndex
    Late = {l}
    BulkQuarters = {2}
    Dataset <- MCDataset
    BatchSize = 2
SPECIFICATION FairSpec
PROPERTY
    BackfillEnds
