SPECIFICATION StrandFairSpec
CONSTANTS
    NoTask = NoTask  NoClient = NoClient
    Clients = {c1}
    Tasks = {t1, t2}
    Throwing = {}
    ThrowingPermanents = {}
    ClientOps = {}
    BodyOps = {}
    MaxBatch = 1
    MaxPermanents = 0
    MaxModifications = 0
    MaxStarts = 1
    MaxStops = 1
    StrandOps = {"push"}
    StrandBodyOps = {"push"}
    StrandUsers = {t1}
    StrandUserPermanents = {}
CHECK_DEADLOCK FALSE
PROPERTIES StopReturns
