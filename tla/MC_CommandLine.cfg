SPECIFICATION Spec
CONSTANTS
    NONE = NONE
    MaxDisjunctionExpansion = 4
    Language <- MCLanguage
    DefinitionLabels <- MCDefinitions
    HiddenLabels <- MCHidden
    Integers64 <- MCIntegers64
    ExactFloats <- MCExactFloats
    DecodeLimits <- MCDecodeLimits
    Requests <- MCRequests
    Build <- BuildInstance
    Decode <- DecodeValue
    UnifyValues <- UnifyHandles
    IsConcrete <- Validates
    SelectPath <- LookupHandle
    CompileExpression <- ExpressionInScope
    Encode <- EncodeOutcome
INVARIANTS
    TypeOK
    SuccessCoversEverything
    NoFalseRejection
    NoFalseAcceptance
    VetIsSymmetric
    ExportedDataVets
