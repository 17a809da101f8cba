CONSTANTS
    N = 4
    Vertices <- MCVertices
SPECIFICATION Spec
INVARIANTS
    ComponentsAreCycles
    DependentsFirst
    AnswerOfFunctions
