SPECIFICATION Spec
CONSTANTS
    c1 = c1  c2 = c2  t1 = t1  t2 = t2  t3 = t3
    NoTask = NoTask
    Clients = {c1}
    Tasks = {t1}
    Throwing = {}
    ThrowingPermanents = {}
    ClientOps = {"await"}
    BodyOps = {}
    MaxBatch = 1
    MaxPermanents = 0
    MaxModifications = 0
    MaxStarts = 1
    MaxStops = 1
CHECK_DEADLOCK FALSE
PROPERTIES AwaitTellsTheTruth
