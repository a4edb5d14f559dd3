SPECIFICATION Spec
CONSTANTS
    Vectors = {"v", "w"}
    Locals = {"i", "j", "n"}
    Programs <- LoopPrograms
    Starts <- Memories
    MaxSteps = 40
INVARIANT VersioningIsSafe
CHECK_DEADLOCK FALSE
