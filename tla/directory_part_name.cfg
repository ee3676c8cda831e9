SPECIFICATION Spec
CONSTANTS
    Trees <- Clashing
    PartOf <- MCPartOf
    BufferSize = 2
    Faults = {}
CHECK_DEADLOCK FALSE
INVARIANTS MirrorsRemote
