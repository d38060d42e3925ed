\* One room with a match and its rematch, a buffer of two and batches of one.
CONSTANTS
    Rooms = {r1}
    MaxSequence = 2
    Capacity = 2
    MaxOpen = 1
    BatchSize = 1
    MaxBatches = 2
    IdleTicks = 1
    BackoffBase = 1
    BackoffMax = 2
    MaxSealed = 3
    MaxEvents = 3
SPECIFICATION FairSpec
INVARIANTS TypeOK NothingLostSilently RematchRefersBack
PROPERTIES ReachesPostgres
CHECK_DEADLOCK FALSE
