SPECIFICATION FairSpec
CONSTANTS
    t1 = t1
    None = None
    Cancelled = Cancelled
    SecondClicks = FALSE
    Targets = {t1}
    Passwords <- MCPasswords
    Engines <- MCEngines
    MaxConnects = 3
INVARIANTS CacheHoldsAcceptedPasswords
PROPERTIES NoPasswordGoesToAnotherPrompt ConnectsAreAnswered
CHECK_DEADLOCK FALSE
