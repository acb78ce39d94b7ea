CONSTANTS
    a = a
    b = b
    on1 = on1
    on2 = on2
    call1 = call1
    call2 = call2
    None = None
    Projects <- OneProject
    Turns <- TwoTurns
    Calls <- OneCall
    Kinds <- JustOff
    MaxPairings = 1
    MaxSessions = 2
    MaxFaults = 1
SPECIFICATION Spec
INVARIANT NotOnAndReleasing
CHECK_DEADLOCK FALSE
