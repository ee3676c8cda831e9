SPECIFICATION Spec
CONSTANTS
    c1 = c1  c2 = c2  t1 = t1  t2 = t2  t3 = t3
    NoTask = NoTask
    Clients = {c1, c2}
    Tasks = {t1, t2}
    Throwing = {t2}
    ThrowingPermanents = {2}
    ClientOps = {"push", "await", "pushPermanent", "remove"}
    BodyOps = {"push", "pushPermanent", "remove"}
    MaxBatch = 2
    MaxPermanents = 2
    MaxModifications = 2
    MaxStarts = 2
    MaxStops = 2
CHECK_DEADLOCK FALSE
SYMMETRY MCSymmetry
INVARIANTS RunsInOrder RemovedStaysRemoved AvailabilityIsExact IInv
PROPERTIES ImplementsExecutor
