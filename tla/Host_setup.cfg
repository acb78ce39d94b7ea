SPECIFICATION Spec
CONSTANTS
    MaxRelease = 2
    Released = 1
    NextApi = 2
    MaxFaults = 1
    MaxStops = 1
INVARIANTS TypeOK MarkerIsTrue FallbackIsThere StaysSupported
PROPERTIES JobEnds
CHECK_DEADLOCK FALSE
