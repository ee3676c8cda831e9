SPECIFICATION CardsFairSpec
CONSTANTS
    Parallelisms = {1}
    UnthrottledLimit = 2
    Calls = {}
    Faults = {"fail"}
    MaxId = 2
    MaxWork = 1
    MaxPauses = 4
    Clicks = {"add", "cancel", "pause", "remove", "load"}
    MaxClicks = 4
INVARIANTS CardsAgreeWithQueue PauseButtonTellsTheTruth
CHECK_DEADLOCK FALSE
