SPECIFICATION Spec
CONSTANTS
    MaxItems = 2
    MaxUploads = 2
    Sizes = {0, 3}
    Chunk = 2
    NETWORK_RETRIES = 1
    MaxEvents = 2
INVARIANTS TypeOK WholeFiles DoneIsTrue QueueMoves
PROPERTIES PauseStays NothingLandsWhenDeleted ComesToRest
CHECK_DEADLOCK FALSE
