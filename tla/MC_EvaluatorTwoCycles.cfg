CONSTANTS
    FieldCount = 5
    MaxDepth = 30
    MaxIterations = 8
    Programs <- TwoCycles
    Top <- MCTop
    StructuralCycle <- MCStructuralCycle
    UnresolvedCycle <- MCUnresolvedCycle
    IterationLimit <- MCIterationLimit
    DepthLimit <- MCDepthLimit
    OptionalReference <- MCOptionalReference
    Operate <- OperateOn
    CyclicComponents <- CyclicGraphComponents
    Numbers = {4, 5}
SPECIFICATION Spec
INVARIANTS
    MeetOfReachable
