SPECIFICATION Spec
CONSTANTS
    Operations <- MCOperations
    Parallelism = 1
    Sizes = {3}
    BufferSize = 2
    Options <- Continue
    Faults = {"crash"}
INVARIANTS FailsOnlyForAReason
CHECK_DEADLOCK FALSE
