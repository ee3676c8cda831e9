SPECIFICATION QueueSpec
CONSTANTS
    Parallelisms = {2}
    UnthrottledLimit = 2
    Calls = {"file", "pause"}
    Faults = {}
    MaxId = 2
    MaxWork = 1
    MaxPauses = 1
INVARIANTS CompletedStaysCompleted
CHECK_DEADLOCK FALSE
