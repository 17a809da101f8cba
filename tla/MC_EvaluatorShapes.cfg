CONSTANTS
    FieldCount = 2
    MaxDepth = 20
    MaxIterations = 5
    Programs <- ShapePrograms
    Top <- MCTop
    StructuralCycle <- MCStructuralCycle
    UnresolvedCycle <- MCUnresolvedCycle
    IterationLimit <- MCIterationLimit
    DepthLimit <- MCDepthLimit
    OptionalReference <- MCOptionalReference
    Operate <- OperateOn
    CyclicComponents <- CyclicGraphComponents
    Numbers = {0, 1}
SPECIFICATION Spec
INVARIANTS
    TypeOK
    NoReentry
    OnlyForcedMemberRuns
    NoStaleMember
    QuiescentWhenIdle
