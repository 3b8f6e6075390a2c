CONSTANTS
    None = none
    Text <- MCText
    Phrases <- MCPhrases
    Date = "date"
    HeadingI = "Table I - Non-Derivative"
    HeadingII = "Table II - Derivative"
    MinCells = 2
    DateAt = 1
    CodeAt = 2
    MaxTokens = 15
    MaxNesting = 2
    MaxCells = 3
SPECIFICATION LegacySpec
INVARIANTS
    Aligned
    InStepAfterRow
    ReadAsWritten
CHECK_DEADLOCK FALSE
