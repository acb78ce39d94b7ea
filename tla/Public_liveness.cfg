CONSTANTS
    a = a
    b = b
    on1 = on1
    on2 = on2
    call1 = call1
    call2 = call2
    None = None
    Projects <- OneProject
    Turns <- TwoTurns
    Calls <- OneCall
    Kinds <- JustOff
    MaxPairings = 1
    MaxSessions = 1
    MaxFaults = 1
SPECIFICATION FairSpec
PROPERTIES UrlsAgree ClientAgrees NoUrlLeftBehind
CHECK_DEADLOCK FALSE
