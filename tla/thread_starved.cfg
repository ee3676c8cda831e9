SPECIFICATION FairSpec
CONSTANTS
    c1 = c1  c2 = c2  t1 = t1  t2 = t2  t3 = t3
    NoTask = NoTask
    Clients = {c1}
    Tasks = {t1, t2}
    Throwing = {}
    ThrowingPermanents = {}
    ClientOps = {"push", "pushPermanent", "remove"}
    BodyOps = {}
    MaxBatch = 1
    MaxPermanents = 2
    MaxModifications = 1
    MaxStarts = 1
    MaxStops = 0
CHECK_DEADLOCK FALSE
PROPERTIES AcceptedTaskRuns
