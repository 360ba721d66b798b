------------------------------ MODULE MCDataPath ------------------------------
(* The components and conversions that data passes through, one in each    *)
(* behaviour: active says which.  Each has variables of its own.           *)
EXTENDS InsertPump, SharedRuntime, Import, CatalogResolve, LibraryCache, Rows, ProviderReader,
        RowsAffected, ParameterValues, Pushdown, Placeholders

CONSTANTS Components, x, y, first, second, third

VARIABLE active

-----------------------------------------------------------------------------
(* The inputs of the conversions.                                          *)

Seqs(S_, n) == UNION {[1 .. k -> S_] : k \in 0 .. n}

MCCountValues == {-16, 1, 15, 20, Null}

\* Placeholders of all kinds, and question marks among characters of two bytes and newlines.
MCStatements ==
    LET placeholders == {[kind |-> k, value |-> None] : k \in {"?", "other"}}
                        \union {Dollar(n) : n \in 0 .. 2}
                        \union [kind : {"name"}, value : {x, y}]
        plain == {[kind |-> k, value |-> None] : k \in {"?", "newline"}}
                 \union {[kind |-> "text", value |-> 2]}
    IN  [kind : {"query", "prepare", "create_function"}, tokens : Seqs(placeholders, 2)]
        \union [kind : {"query"}, tokens : Seqs(plain, 5)]

\* No two arguments have one value.
MCArgumentLists ==
    {[i \in DOMAIN args |-> [name |-> args[i].name, ordinal |-> args[i].ordinal, value |-> i]] :
        args \in Seqs([name : {None, x, y}, ordinal : 0 .. 3], 2)}

MCArguments ==
    [type : {"decimal"},
     value : Seqs({Minus, Plus, Dot, 0, 1, 9}, 4) \union Seqs({Minus, Dot, Space, 1}, 4) \union {Null},
     precision : 0 .. 4, scale : -1 .. 3, zone : {""}]
    \union {v \in [type : (Codes \ {"decimal"}) \union {"nil"}, value : -17 .. 31 \union {Null},
                   precision : {0}, scale : {0}, zone : {"", "Europe/Rome", "invalid"}] :
              /\ v.value \in GoValue(v.type) \union {Null}
              /\ v.type = "timestamp" \/ v.zone = ""}

\* Predicates on their own, negated and combined.
MCPredicates ==
    {e \in [kind : {"compare"}, left : Sides, op : Ops, right : Sides] :
        Column \in {e.left, e.right}}
    \union [kind : {"is_null"}, negated : BOOLEAN]
    \union [kind : {"between"}, negated : BOOLEAN, low : Literals, high : Literals]
    \union [kind : {"in_list"}, negated : BOOLEAN, list : Seqs(Literals, 2)]
MCFilters ==
    LET right == {e \in MCPredicates : e.kind # "compare" \/ e.op = "lt"}
        both == [kind : {"and", "or"}, left : {1}, right : {2}]
    IN  {<<e>> : e \in MCPredicates}
        \union {<<e, [kind |-> "not", expr |-> 1]>> : e \in MCPredicates}
        \union {<<e[1], e[2], e[3]>> : e \in MCPredicates \X right \X both}

-----------------------------------------------------------------------------
IdleQuery == [statement |-> "query", metadata |-> {}, discoverable |-> FALSE, references |-> <<>>]
IdleResult == [sizes |-> <<>>, fails |-> FALSE, bad |-> 0]
IdleScan == [sizes |-> <<>>, ending |-> "eof", projection |-> Nil, limit |-> 0]
IdleCell == [type |-> "null", nullable |-> TRUE, value |-> Null, multiplier |-> 1]
IdleArgument == [type |-> "nil", value |-> Null, precision |-> 0, scale |-> 0, zone |-> ""]
IdleFilter == <<OtherExpr>>
IdleStatement == [kind |-> "query", tokens |-> <<>>]
IdleCounts == [batches |-> <<>>, isCount |-> FALSE, isInteger |-> FALSE, fails |-> FALSE]

MCInit ==
    /\ Init /\ RuntimeInit /\ ImportInit /\ LibraryInit
    /\ active \in Components
    /\ IF active = "catalog" THEN query \in Queries ELSE query = IdleQuery
    /\ IF active = "rows" THEN result \in Results ELSE result = IdleResult
    /\ IF active = "provider_reader" THEN scan \in Scans ELSE scan = IdleScan
    /\ IF active = "cell" THEN cell \in CellInputs ELSE cell = IdleCell
    /\ IF active = "count" THEN counts \in Counts ELSE counts = IdleCounts
    /\ IF active = "parameter" THEN argument \in Arguments ELSE argument = IdleArgument
    /\ IF active = "filter" THEN filter \in Filters ELSE filter = IdleFilter
    /\ CatalogStart /\ RowsStart /\ ReaderStart /\ arrived = Unread /\ CountStart
    /\ bound = Unbound /\ pushed = <<>>
    /\ active # "library" => cached = "missing"
    /\ IF active = "placeholder" THEN sql \in SqlStatements ELSE sql = IdleStatement
    /\ PrepareStart

\* The variables of the components that a step does not concern.
Others(component) ==
    /\ UNCHANGED active
    /\ IF component = "insert" THEN TRUE ELSE UNCHANGED vars
    /\ IF component = "runtime" THEN TRUE ELSE UNCHANGED runtimeVars
    /\ IF component = "import" THEN TRUE ELSE UNCHANGED importVars
    /\ IF component = "catalog" THEN TRUE ELSE UNCHANGED catalogVars
    /\ IF component = "library" THEN TRUE ELSE UNCHANGED libraryVars
    /\ IF component = "rows" THEN TRUE ELSE UNCHANGED rowsVars
    /\ IF component = "provider_reader" THEN TRUE ELSE UNCHANGED readerVars
    /\ IF component = "cell" THEN TRUE ELSE UNCHANGED cellVars
    /\ IF component = "count" THEN TRUE ELSE UNCHANGED countVars
    /\ IF component = "parameter" THEN TRUE ELSE UNCHANGED parameterVars
    /\ IF component = "filter" THEN TRUE ELSE UNCHANGED pushdownVars
    /\ IF component = "placeholder" THEN TRUE ELSE UNCHANGED placeholderVars

MCNext ==
    \/ active = "insert" /\ Next /\ Others("insert")
    \/ active = "runtime" /\ RuntimeNext /\ Others("runtime")
    \/ active = "import" /\ ImportNext /\ Others("import")
    \/ active = "catalog" /\ CatalogNext /\ Others("catalog")
    \/ active = "library" /\ LibraryNext /\ Others("library")
    \/ active = "rows" /\ RowsNext /\ Others("rows")
    \/ active = "provider_reader" /\ ReaderNext /\ Others("provider_reader")
    \/ active = "cell" /\ Convert /\ Others("cell")
    \/ active = "count" /\ CountNext /\ Others("count")
    \/ active = "parameter" /\ Bind /\ Others("parameter")
    \/ active = "filter" /\ Push /\ Others("filter")
    \/ active = "placeholder" /\ PlaceholderNext /\ Others("placeholder")

MCSpec ==
    /\ MCInit
    /\ [][MCNext]_<<active, vars, runtimeVars, importVars, catalogVars, libraryVars,
                    rowsVars, readerVars, cellVars, countVars, parameterVars, pushdownVars,
                    placeholderVars>>
    /\ Fairness

=============================================================================
