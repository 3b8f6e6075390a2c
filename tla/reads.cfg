CONSTANTS
    f1 = f1  f2 = f2  a = a  b = b  c = c
    None = none
    Filing = {f1, f2}
    Rows <- MCRows
    Key <- MCKey
    FieldValues = {0, 2}
    Filters <- MCFilters
    DefaultLimit = 1
    MaxLimit = 2
    MaxFlight = 2
SPECIFICATION Spec
INVARIANTS
    ParsedComesWithRows
    SummaryCoversFilings
    PagingSkipsNothing
