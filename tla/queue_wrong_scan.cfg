SPECIFICATION QueueSpec
CONSTANTS
    Parallelisms = {1}
    UnthrottledLimit = 2
    Calls = {"directory", "cancel", "pause"}
    Faults = {}
    MaxId = 4
    MaxWork = 1
    MaxPauses = 1
INVARIANTS BulkGetsItsOwnScan
CHECK_DEADLOCK FALSE
