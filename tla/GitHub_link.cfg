CONSTANTS
    Accounts = {root}
    Logins = {alice, bob}
    Connects = {r1}
    Asks = {r1}
    None = None
    MAX_PASSES = 2
    MaxCodes = 2
    MaxGen = 2
SPECIFICATION Spec
INVARIANTS TypeOK ReadyMeansSignedIn CodeIsPolled
PROPERTIES DisconnectStays OnlyRefusedIsBad AppliedInTheEnd
CHECK_DEADLOCK FALSE
