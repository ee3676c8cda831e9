SPECIFICATION FairSpec
CONSTANTS
    Trees <- AllTrees
    PartOf <- MCPartOf
    BufferSize = 2
    Faults = {"stream", "remove", "create", "cancel"}
CHECK_DEADLOCK FALSE
INVARIANTS ListingIsComplete MirrorsRemote NothingTornIsLeft
PROPERTIES EveryDirectoryEnds
