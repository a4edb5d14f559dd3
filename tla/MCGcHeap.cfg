SPECIFICATION Spec
CONSTANTS
    big = big
    None = None
    MaxSmall = 2
    Large = {big}
    Types = {"Object", "Array"}
    Boxable = {"Object", "Array"}
    MaxRefs = 1
    MaxFrames = 2
    INITIAL_THRESHOLD = 1
    SmallSize = 1
    LargeSize = 2
    GcInCallbacks = FALSE
INVARIANTS
    TypeOK
    NoDangling
    FreeListExact
    DeferIsNativeDepth
    DebtIsFlagged
PROPERTIES
    CollectionIsExact
    GcIsInvisible
