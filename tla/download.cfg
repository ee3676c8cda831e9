SPECIFICATION FairSpec
CONSTANTS
    Operations <- MCOperations
    Parallelism = 1
    Sizes = {0, 1, 3}
    BufferSize = 2
    Options <- AllOptions
    Faults = {"stream", "disk", "create", "race", "crash", "cancel"}
INVARIANTS CompletedFileIsWhole ForeignFileSurvives PartIsCleanedUp
PROPERTIES EveryOperationEnds
CHECK_DEADLOCK FALSE
