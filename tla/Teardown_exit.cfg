SPECIFICATION FairSpec
CONSTANTS
    MaxOpen = 3
    MaxDrops = 2
INVARIANTS TypeOK SessionOutlivesThreads LogNamesState
PROPERTIES ExitCompletes RecoveryEnds
CHECK_DEADLOCK FALSE
