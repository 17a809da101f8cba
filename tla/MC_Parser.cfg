SPECIFICATION FairSpec
CONSTANTS
    ScanText <- Scan
    Words <- MCWords
    MaxDepth = 6
    Length = 4
    Inputs <- MCInputs
INVARIANTS
    TypeOK
    DepthCountsExpressions
    NothingDropped
    OperatorsNest
    TokensCoverText
    NewlinesEndElements
PROPERTY
    StopsButAtStrayClosers
