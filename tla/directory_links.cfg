SPECIFICATION Spec
CONSTANTS
    Trees <- Unsupported
    PartOf <- MCPartOf
    BufferSize = 2
    Faults = {}
CHECK_DEADLOCK FALSE
INVARIANTS UnsupportedIsSkipped
