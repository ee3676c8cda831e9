SPECIFICATION StrandSpec
CONSTANTS
    NoTask = NoTask  NoClient = NoClient
    Clients = {c1}
    Tasks = {t1}
    Throwing = {}
    ThrowingPermanents = {}
    ClientOps = {}
    BodyOps = {}
    MaxBatch = 1
    MaxPermanents = 2
    MaxModifications = 2
    MaxStarts = 1
    MaxStops = 0
    StrandOps = {"permanent", "final"}
    StrandBodyOps = {}
    StrandUsers = {}
    StrandUserPermanents = {}
CHECK_DEADLOCK FALSE
INVARIANTS FinalTaskRemovesAllPermanentTasks
