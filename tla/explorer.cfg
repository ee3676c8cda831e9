SPECIFICATION Spec
CONSTANTS
    Names <- MCNames
    Dirs <- MCDirs
    Files <- MCFiles
    Typed <- MCTyped
    NewNames = {"f", "g"}
    Gestures = {"navigate", "select", "menu", "new"}
    Faults = {"open", "call", "timeout"}
    MaxClicks = 3
    None = None
CHECK_DEADLOCK FALSE
INVARIANTS ShownListIsCurrent ParentIsNeverDownloaded
