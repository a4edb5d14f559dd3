SPECIFICATION Spec
CONSTANTS
    Vectors = {"v", "w"}
    Locals = {"i", "j", "n"}
    Programs <- GrowingBound
    Starts <- Apart
    MaxSteps = 40
INVARIANT RemovalIsNeverARisk
CHECK_DEADLOCK FALSE
