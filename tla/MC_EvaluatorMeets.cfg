CONSTANTS
    FieldCount = 3
    MaxDepth = 8
    MaxIterations = 6
    Programs <- MeetPrograms
    Top <- MCTop
    StructuralCycle <- MCStructuralCycle
    UnresolvedCycle <- MCUnresolvedCycle
    IterationLimit <- MCIterationLimit
    DepthLimit <- MCDepthLimit
    OptionalReference <- MCOptionalReference
    Operate <- OperateOn
    CyclicComponents <- CyclicGraphComponents
    Numbers = {0, 1, 2, 3}
SPECIFICATION FairSpec
INVARIANTS
    DepthBounded
    MeetOfReachable
PROPERTIES
    ConvergedSolves
    CacheStable
    Termination
