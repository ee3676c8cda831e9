SPECIFICATION CardsSpec
CONSTANTS
    Parallelisms = {1}
    UnthrottledLimit = 2
    Calls = {}
    Faults = {"fail"}
    MaxId = 1
    MaxWork = 1
    MaxPauses = 3
    Clicks = {"pause", "pauseAgain"}
    MaxClicks = 3
INVARIANTS PauseButtonTellsTheTruth
CHECK_DEADLOCK FALSE
