CONSTANTS
    Programs <- CapturePrograms
    Expressions <- CaptureExpressions
    AmpleDepth = 20
    MaxGeneratedItems = 3
    MaxCompileDepth = 5
    BuiltinNames = {"string"}
    BuiltinImports = {"strings"}
    UnknownField = "absent"
    Top <- TopValue
    Error <- Bottom
    Unify <- UnifyValues
    StructOf <- StructValue
    FieldsOf <- FieldValues
    IsStruct <- StructKind
    IsTrue <- TrueValue
    IsFalse <- FalseValue
    IsError <- BottomKind
    IsIterable <- Iterable
    ItemsOf <- ItemValues
SPECIFICATION FairSpec
INVARIANTS
    LexicalMeaning
