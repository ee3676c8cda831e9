SPECIFICATION QueueFairSpec
CONSTANTS
    Parallelisms = {1, 3}
    UnthrottledLimit = 2
    Calls = {"file", "directory", "cancel", "cancelAll", "pause", "disconnect"}
    Faults = {"fail"}
    MaxId = 3
    MaxWork = 1
    MaxPauses = 1
INVARIANTS EveryOperationAccountedFor ReportsInOrder BulkWaitsForScan
PROPERTIES EveryOperationSettles
CHECK_DEADLOCK FALSE
