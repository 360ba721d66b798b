CONSTANTS
    outer = outer
    nested = nested
    scan = scan
    udf = udf
    lookup = lookup
    Table = Table
    Query <- MCBranchQuery
    Task <- MCBranchTask
    QueryOf <- MCBranchQueryOf
    Kind <- MCBranchKind
    Nested = {}
    HostOf <- MCBranchHostOf
    Slots = 2
SPECIFICATION FairSpec
INVARIANTS BranchesIndependent
CHECK_DEADLOCK FALSE
