SPECIFICATION Spec
CONSTANT Programs <- Hierarchies
INVARIANTS
    DispatchIsMostDerived
    LayoutIsInherited
    TypeTestsFollowDeclarations
    ConstructionIsComplete
CHECK_DEADLOCK FALSE
