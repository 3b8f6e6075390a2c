CONSTANTS
    Filings = {f1}
    Sessions = {s1, s2}
    None = none
SPECIFICATION Spec
INVARIANTS
    ParsedKeepsRows
