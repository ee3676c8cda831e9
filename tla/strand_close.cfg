SPECIFICATION StrandFairSpec
CONSTANTS
    NoTask = NoTask  NoClient = NoClient
    Clients = {c1, c2}
    Tasks = {t1, t2}
    Throwing = {t2}
    ThrowingPermanents = {}
    ClientOps = {"remove"}
    BodyOps = {}
    MaxBatch = 2
    MaxPermanents = 2
    MaxModifications = 0
    MaxStarts = 1
    MaxStops = 1
    StrandOps = {"push", "permanent", "final", "sync"}
    StrandBodyOps = {"push", "permanent", "final"}
    StrandUsers = {t1}
    StrandUserPermanents = {1}
CHECK_DEADLOCK FALSE
INVARIANTS FinalTaskIsLast FinalTaskRemovesUnlessCutOff
PROPERTIES LockIsReleased
