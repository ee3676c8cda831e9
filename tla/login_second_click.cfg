SPECIFICATION Spec
CONSTANTS
    t1 = t1
    None = None
    Cancelled = Cancelled
    SecondClicks = TRUE
    Targets = {t1}
    Passwords <- MCPasswords
    Engines <- MCEngines
    MaxConnects = 2
PROPERTY NoPasswordGoesToAnotherPrompt
CHECK_DEADLOCK FALSE
