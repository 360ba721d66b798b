CONSTANTS
    outer = outer
    nested = nested
    scan = scan
    udf = udf
    lookup = lookup
    Table = Table
    Query <- MCQuery
    Task <- MCTask
    QueryOf <- MCQueryOf
    Kind <- MCKind
    Nested <- MCNested
    HostOf <- MCHostOf
    Slots = 2
SPECIFICATION FairSpec
INVARIANTS CallsOwnHandles HandlesOwned ScansIndependent
PROPERTIES CancelledCallsEnd
CHECK_DEADLOCK FALSE
