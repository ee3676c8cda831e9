SPECIFICATION StrandSpec
CONSTANTS
    NoTask = NoTask  NoClient = NoClient
    Clients = {c1, c2}
    Tasks = {t1}
    Throwing = {}
    ThrowingPermanents = {}
    ClientOps = {"pushPermanent", "remove"}
    BodyOps = {"remove"}
    MaxBatch = 1
    MaxPermanents = 2
    MaxModifications = 2
    MaxStarts = 2
    MaxStops = 1
    StrandOps = {"permanent", "final"}
    StrandBodyOps = {"final"}
    StrandUsers = {t1}
    StrandUserPermanents = {1}
CHECK_DEADLOCK FALSE
INVARIANTS FinalTaskRemovesUnlessCutOff
