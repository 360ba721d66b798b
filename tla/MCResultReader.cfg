CONSTANTS
    client = client
    other = other
    third = third
    Watcher = watcher
    Free = Free
    Actor <- MCActor
    Executor <- client
SPECIFICATION FairSpec
INVARIANTS NoUseAfterFree ClosedReleases
PROPERTIES CloseReturns CancellationStops
CHECK_DEADLOCK FALSE
