SPECIFICATION Spec
CONSTANTS
    Operations <- MCOperations
    Parallelism = 1
    Sizes = {3}
    BufferSize = 2
    Options <- ReserveAndContinue
    Faults = {"crash"}
INVARIANTS AlwaysWhole
CHECK_DEADLOCK FALSE
