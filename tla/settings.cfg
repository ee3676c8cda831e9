SPECIFICATION Spec
CONSTANTS
    None = None
    Torn = Torn
    IllTyped = IllTyped
    Files <- MCFiles
    Layouts = {"l1", "l2"}
    Clicks = {"save", "delete", "toggle", "open"}
    MaxClicks = 2
    Faults = {"disk", "crash"}
PROPERTIES KeepsItsSettings ChangeTouchesNothingElse
CHECK_DEADLOCK FALSE
