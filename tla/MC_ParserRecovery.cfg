SPECIFICATION FairSpec
CONSTANTS
    ScanText <- Scan
    Words <- MCWords
    MaxDepth = 6
    Length = 0
    Inputs <- MCUnclosed
PROPERTY
    Returns
