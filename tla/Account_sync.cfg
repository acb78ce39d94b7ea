SPECIFICATION Spec
CONSTANTS
    Projects = {p}
    MaxCodes = 2
    MaxVersion = 2
    MaxFaults = 1
INVARIANTS TypeOK IdentityIsOwners NoTokenSpentTwice MappedIsOurs
PROPERTIES OnlyItsCodeSignsIn MappedInTheEnd
CHECK_DEADLOCK FALSE
