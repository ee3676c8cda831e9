SPECIFICATION FairSpec
CONSTANTS
    c1 = c1
    c2 = c2
    s1 = s1
    f1 = f1
    f2 = f2
    None = None
    Channels = {c1, c2}
    Sftps = {s1}
    Streams = {f1, f2}
    MaxCalls = 4
PROPERTY SessionEnds
CHECK_DEADLOCK FALSE
