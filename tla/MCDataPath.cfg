SPECIFICATION MCSpec
CONSTANTS
    MaxBatches = 3
    End = End
    Fail = Fail
    Nil = Nil
    None = None
    Null = Null
    Error = Error
    Foreign = Foreign
    Minus = Minus
    Plus = Plus
    Dot = Dot
    Space = Space
    InvalidStrings = {7}
    InvalidZones = {"invalid"}
    x = x
    y = y
    first = first
    second = second
    third = third
    Database = {first, second, third}
    Workers = {1, 2}
    MaxRuntimes = 3
    Unset = Unset
    Importer = {first, second}
    Caller = {x, y}
    MaxInput = 2
    MaxCalls = 1
    NoTable = NoTable
    Table = {x, y}
    Branch = {first, second}
    MaxReferences = 2
    MaxChanges = 2
    Unresolved = Unresolved
    Process = {first, second}
    MaxTemps = 2
    NoFile = NoFile
    MaxResult = 3
    MaxRows = 2
    Columns = 2
    MaxInputs = 2
    MaxInputRows = 2
    MaxRefs = 2
    MaxWidth = 2
    MaxLimit = 3
    MaxInt64 = 15
    Multipliers = {1, 3, 10}
    CountValues <- MCCountValues
    MaxColumn = 2
    MaxCounts = 2
    MaxPrecision = 3
    Arguments <- MCArguments
    Unbound = Unbound
    Literals = {0, 1, NoValue}
    NoValue = NoValue
    Filters <- MCFilters
    Names = {x, y}
    SqlStatements <- MCStatements
    ArgumentLists <- MCArgumentLists
    Components = {"insert", "rows", "provider_reader", "import", "runtime", "catalog", "library",
                  "cell", "count", "parameter", "filter", "placeholder"}
INVARIANTS
    NoFalseCompletion
    RowsInOrder
    ReaderDelivers
    RegistrationExact
    OneSharedRuntime
    CatalogConsistent
    LibraryVerified
    NumbersExact
    BoundAsWritten
    ParametersExact
    PushdownConservative
PROPERTIES
    InsertReturns
CHECK_DEADLOCK FALSE
