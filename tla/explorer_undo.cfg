SPECIFICATION FairSpec
CONSTANTS
    Names <- MCNames
    Dirs <- MCDirs
    Files <- MCFiles
    Typed <- MCTyped
    NewNames = {"f", "g"}
    Gestures = {"navigate"}
    Faults = {}
    MaxClicks = 2
    None = None
CHECK_DEADLOCK FALSE
PROPERTIES NavigationEnds
