CONSTANTS
    FieldCount = 2
    MaxDepth = 20
    MaxIterations = 5
    Programs <- BoundOnACycle
    Top <- MCTop
    StructuralCycle <- MCStructuralCycle
    UnresolvedCycle <- MCUnresolvedCycle
    IterationLimit <- MCIterationLimit
    DepthLimit <- MCDepthLimit
    OptionalReference <- MCOptionalReference
    Operate <- OperateOn
    CyclicComponents <- CyclicGraphComponents
    Numbers = {0, 1, 2}
SPECIFICATION Spec
INVARIANTS
    MeetOfReachable
