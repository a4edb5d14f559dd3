SPECIFICATION Spec
CONSTANT
    Programs <- Bodies1
INVARIANTS
    NarrowingIsSound
    GuardedCastsHold
    CatchBindingsAreObjects
    JumpsFindTheirFrame
    NoFallThrough
CHECK_DEADLOCK FALSE
