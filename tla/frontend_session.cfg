SPECIFICATION FrontendSpec
CONSTANTS
    Channels = {c1, c2}
    UserCloses = TRUE
    None = None
    MaxSessions = 2
    MaxProcesses = 3
    Slots = 1
    Ptys = {1}
    Stops = {2}
    Nobody = Nobody
CHECK_DEADLOCK FALSE
INVARIANTS RepliesFindTheirEngine ChannelsAgree
PROPERTIES DeathEndsTheSession TabClosesWithItsProcess
