SPECIFICATION Spec
CONSTANTS
    Programs <- ProgramsToCompile
INVARIANTS
    TameProgramsCompile
    LoweringIsExact
    HandlersBalanced
CHECK_DEADLOCK FALSE
