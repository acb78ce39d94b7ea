CONSTANTS
    a = a
    b = b
    on1 = on1
    on2 = on2
    call1 = call1
    call2 = call2
    None = None
    Projects <- TwoProjects
    Turns <- TwoTurns
    Calls <- OneCall
    Kinds <- AllKinds
    MaxPairings = 2
    MaxSessions = 1
    MaxFaults = 0
SPECIFICATION Spec
INVARIANTS TypeOK NoGhostTurnOn NoTurnOnOutlivesSignOut
PROPERTIES PassKeepsWhatIsOn
SYMMETRY Alike
CHECK_DEADLOCK FALSE
