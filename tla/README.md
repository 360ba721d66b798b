# datafusion-go: formal model

TLA+ modules for the driver in `src/`: a `database/sql` driver in Go, over cgo, over a Rust
library that embeds DataFusion. The models are translated from the code; TLC checks them on
small instances and TLAPS proves the theorems listed at the end for every value of the constants.

## 1. The system

```
 database/sql pool ── Connector ── Conn ── Stmt / direct query ── ArrowReader ── Rows
                        │           │              │                  │
 Go ────────────────────┼───────────┼──────────────┼──────────────────┼──── cgo (C ABI)
                        │           │              │                  │
 Rust               database   connection      statement      result stream + CancelToken
                   (runtime)  (SessionContext)                        │
                                    └─ Go extensions called back ─────┘
```

| Component (source) | State | Operations | Hard behaviour | What makes it correct |
|---|---|---|---|---|
| Context-aware mutex (`context_mutex.go`) | a channel of capacity one | `Lock(ctx)`, `Unlock` | `select` prefers either ready case; a wait can be cancelled at any moment | the token is neither lost nor duplicated; `Lock` fails only for its own context; a cancelled wait ends |
| Connection and statements (`connection.go`, `statement.go`) | native connection, closed flag, statement table, `Conn.mu`, `Stmt.mu`, `ddlMu` | prepare, query, execute, register, `Close`, `ResetSession` | three locks; a reset connects outside `Conn.mu` while others close or execute | statements belong to the current session, no handle is freed in use or leaked, closing is final, calls return |
| Connector (`datafusion.go`) | database handle, closed flag, `sharedInitialized`, `sharedInitMu`, `ddlMu` | `Connect`, `Close`, DSN parsing | racing first connects, an initializer that hangs, fails or is retried | initialized once, only initialized sessions handed out, no connection leaked, deadlines respected |
| Pool contract (`ResetSession`, `IsValid`, `Connect`) | one session per connection, or one for all | borrow, reset, use, return | the context ends between the pool's look at it and the reset's | a borrower finds an initialized session without another borrower's state |
| Execution and serialization (`execution.go`, `arrow.go`, `extensions.go`) | the mutation lock, handed from the statement to its reader | `runArrowQuery`, `withExtension`, `serializedArrowReader.Close` | the lock outlives the call; a reader is closed by several parties; two kinds of mutation | the lock is held by exactly the mutation in progress, catalogs are never replaced, mutations get their turn |
| Native execution and result reader (`internal/native/native.go`, `rust/src/stream.rs`) | `resultReader.mu`, `closed`, `done`, `cancelToken`, the Rust flag and its waiters | `ExecuteArrow`, `Read`, `Cancel`, `Close`, finalizer | a read blocks with a mutex held; watcher, readers and closers race; lost wake-ups | no freed handle is used, `done` is closed once, cancellation and closing end although DataFusion does not yield |
| Extension activation (`internal/native/native.go`) | `planning` read/write lock, `active` flag | `RegisterGo`, `Prepare`, `ExecuteArrow` | plans started before the first extension carry no callback context | no plan without a callback context sees an extension |
| Go callbacks (`callbacks.go`, `callback_arrow.go`, `rust/src/callbacks.rs`, `go_udf.rs`) | handle registry, owners, 64 slots for blocking calls | call, child, cancel, release | Rust drops owners while Go runs; callbacks make queries; a dropped branch cancels | each handle is released once, after its last call; siblings go on; cancelled calls end |
| Go tables and INSERT (`rust/src/go_provider.rs`, `provider_reader.go`) | scan streams, a channel of capacity two | scan, `write_all`, pump | the Go side returns early, fails or is cancelled while the pump sends | no error is lost, neither side blocks for ever |
| Go catalogs (`rust/src/go_catalog.rs`) | tables and listings of one query | resolve, discover, look up | the remote catalog changes meanwhile; lookups of a metadata query are lazy and concurrent | one answer per table and query, no call that the statement does not need |
| Filter pushdown (`rust/src/pushdown.rs`, `internal/native/expr.go`) | none | classify, serialize, decode | mirrored comparisons, `NULL`, numbers that JSON lacks | a pushed filter holds wherever the filter of the query does |
| SQL metadata and parameters (`rust/src/query.rs`, `rust/src/parameters.rs`, `parameters.go`) | none | placeholders, bindings, values, classification of mutations | mixed, repeated and sparse placeholders; bytes and characters; digits and precision | each placeholder gets its argument, exactly or not at all |
| Rows and results (`rows.go`, `result.go`, `exec.go`) | position in a batch | `Next`, `RowsAffected`, conversions | widths, signs, overflow | values keep their meaning or are refused |
| Arrow registration (`arrow.go`, `rust/src/registration.rs`, `ffi_table_provider.go`) | an import's batches, `finished`; a handle's `done` | open, append, commit, close; register, deregister | failure between two batches; commit and close | all or nothing, once |
| Sessions and runtime (`rust/src/session.rs`) | process-wide table of runtimes, weakly held | open, connect | two opens and a last close at once | equal worker counts share a live runtime |
| C ABI (`rust/src/abi.rs`, `rust/src/error.rs`) | none of its own | entry points | panics and null pointers at the boundary | ownership passes exactly once |
| Native library (`internal/native/library*.go`) | a cache directory that processes share | find, download, verify, install, load | processes race without a lock; partial downloads, crashes, loss of power | what is loaded from the cache has the pinned checksum |
| Errors, generators, scripts, test harness | none | | | not part of the running system |

How they interact: `Connector.Connect` opens a native connection and runs the initializer through
`Conn.ExecContext`. Every query goes `runArrowQuery` → prepare under `Conn.mu` → the mutation lock
(a `contextMutex`, `Conn.ddlMu` or `Connector.ddlMu`) → `Statement.ExecuteArrow`, which starts the
goroutine that watches the context → a `resultReader`, wrapped in a `serializedArrowReader` that
carries the mutation lock. `ResetSession` and `Conn.Close` take `Conn.mu` and then each `Stmt.mu`.
Go extensions are called back from blocking threads of tokio during planning and execution: scans
(`GoTable`, whose provider may use `provider_reader.go`), functions (`GoUdf`), catalog lookups, and
INSERT (`GoSink::write_all`), which pumps its input to the provider. Tables also come in by Arrow
import and by foreign table providers; databases that ask for it share one tokio runtime.

## 2. Modules

| Module | Models | Used by |
|---|---|---|
| `CancellableLock` | abstract: a lock whose waiters may be cancelled | refined by `ContextMutex` |
| `ContextMutex` | `context_mutex.go`, every statement of `Lock` and `Unlock` | run `context_mutex`; theorems in `ContextMutexProofs` |
| `SessionContract` | abstract: the current session of a `Conn`, replaced at once, closed for good | refined by `Connection` |
| `Connection` | one `Conn` of an isolated connector, its statements, its locks | run `connection`; theorems in `ConnectionProofs` |
| `Serialization` | the mutation lock from the call to the last `Close` of its reader, and the list of catalogs it protects | run `serialization`; theorems in `SerializationProofs` |
| `SharedInit` | `Connector.Connect` with a shared session | run `shared_init`; theorems in `ConnectorProofs` |
| `ResultReader` | one execution, its reader and its cancellation across Go and Rust | run `result_reader`; theorems in `ResultReaderProofs` |
| `Pool` | connections between borrowers: connect, reset, use, return | runs `pool`, `pool_fresh`; theorems in `ConnectorProofs` |
| `ExtensionActivation` | the first `RegisterGo` of a database against executions in flight | run `extension_activation`; theorems in `ExtensionActivationProofs` |
| `CallbackBridge` | queries, their tasks and the calls into Go: handles, owners, permits, cancellation | runs `callbacks`, `branches`; theorems in `CallbackBridgeProofs` |
| `InsertPump` | one INSERT: pump, channel, `InputReader`, provider | run `data_path`; theorems in `DataPathProofs` |
| `Rows` | `rows.Next` and `Close` over the batches of a result | run `data_path`; theorems in `DataPathProofs` |
| `ProviderReader` | `provider_reader.go`: projection, limit, reference count | run `data_path`; theorems in `DataPathProofs` |
| `Import` | Arrow imports and a foreign table's handle, in one session | run `data_path`; theorems in `DataPathProofs` |
| `SharedRuntime` | `runtime_from_dsn` | run `data_path`; theorems in `DataPathProofs` |
| `CatalogResolve` | what one query sees of a remote catalog | run `data_path`; theorems in `DataPathProofs` |
| `LibraryCache` | the choice of a native library and the cache it is downloaded to | run `data_path`; theorems in `DataPathProofs` |
| `GoValues`, `Sums` | int64 and what wraps around it; the sum of a sequence | extended by `Cells`, `RowsAffected`, `ParameterValues`, `ProviderReader` |
| `Cells` | one value on its way to `database/sql`, and the scan type of its column | run `data_path`; theorems in `DataPathProofs` |
| `RowsAffected` | `execResult`: the sum of the counts of a result | run `data_path`; theorems in `DataPathProofs` |
| `ParameterValues` | the way of one argument to a DataFusion scalar | run `data_path`; theorems in `DataPathProofs` |
| `Placeholders` | `prepare_query`, the rewriting of a text, binding of arguments to placeholders | run `data_path`; theorems in `DataPathProofs` |
| `Pushdown` | filters through `classify`, JSON and `decodeExpr` | runs `data_path`, `pushdown_nonfinite`; theorems in `DataPathProofs` |

`MCDataPath` extends all modules from `InsertPump` on. They share no state, so a composition would
only multiply their states: each behaviour runs one of them, which `active` names, while the others
stay in one idle state.

### How state and actions correspond to the code

**ContextMutex.** `held` is the number of elements in the channel. `Enter` is the first
`ctx.Err()`, `Send` and `Done` the two cases of the `select`, `Recheck` the second `ctx.Err()`,
`Unlock` the receive, also of a `Lock` that sent and was cancelled. A caller is cancelled at any
moment. The refinement maps the lock's owner to the caller in `"held"`, so a caller between the
send and the recheck is still a waiter of the abstract lock.

**Connection.** `current` is the session behind `Conn.conn` (`NoSession` is nil), `native[s]` the
one behind `Stmt.stmt`, `own[g]` the one behind a goroutine's local handle, `open` the native
connections not yet freed. A step runs from one point where another goroutine may interfere to
the next: taking or releasing a mutex, or a native call outside the mutexes. Thus
`BeginNative`/`LeavePrepare` is `PrepareContext`, with the native call between;
`LeaveQuery`, `LockDdl`, `ExecuteDirect` is a direct query; `BeginExec`, `LockDdl`, `LockExec`,
`StartExec`, `FinishExec` a prepared one, with `Conn.mu` taken before `Stmt.mu` and released
first; `BeginReset`, `Connect`, `Initialize`, `Swap`, `Invalidate`, `EndSwap`, `CloseOld` is
`ResetSession`, and `CloseConn` its failure path and the client's `Close`. Whether a closing
`Conn` owns its connector (`Driver.Open`) is chosen when it matters, which is once. A call that
fails before it changes anything is no step. `ddlMu` is a lock here, as `CancellableLock`
describes it and `ContextMutex` implements it. A registration (`withExtension`) holds it while
it waits for `Conn.mu` (`LockDdl`, `EnterNative`), under which alone it sees `closed`
(`withNative`); `AbandonDdl` and `AbandonExtension` are the returns of a call whose context is done.

**Serialization.** `LockOf` is the choice `runArrowQuery` and `withExtension` both make;
`lock` the holder of each lock; `once` and `closers` the state of the `sync.Once` of the reader
and who has still to call `Close`. `kind` separates `CREATE DATABASE`, any other mutating
statement and a catalog registration. `LookUp` and the insertion (`Register`, `Execute`) are two
steps of the native code; the insertion replaces what is there, so only the lock keeps catalogs.
`Fail` is any error after the lock is taken.

**SharedInit.** `pc` follows `Connect` and `initializeShared`; `handles` is who has a native
connection open; `successes` counts initializers that returned nil.

**ResultReader.** `Steps` are those of `Read`, `Close` and the finalizer; `Watch` the goroutine
of `ExecuteArrow`. The Rust side of a pull is `pull`: at the test on entry (`"start"`), before a
`Notified` future exists (`"register"`), with one and before the flag is read (`"check"`), and
waiting (`"wait"`). `flag` and `Notify` are two steps of `CancelToken::cancel`.

**ExtensionActivation.** `active` and `planning` are the fields of `extensionState`, the lock as its
`writer` and `readers`; `callbacks[g]` is the local of `ExecuteArrow`. `Load`, `RLock`, `Choose`,
`Finish` are `ExecuteArrow` (with the flag loaded twice, as there); `Check`, `Announce`, `Drain`,
`Store`, `Unlock` are `activate`, `Announce` and `Drain` being the two halves of
`sync.RWMutex.Lock`; `Publish` is the native registration. `mu` and `stmtMu` are here only to see
who waits for whom; what they protect is in `Connection`. The mutation lock is left out: it is
taken before every other lock and so closes no circle.

**Pool.** `used[s]` is the set of clients that left something in session `s`, `initialized` the
sessions whose initializer succeeded. `ResetSession` is one step here, refined in `Connection`.
`database/sql` is modelled from what the driver relies on: it checks the context, calls
`ResetSession`, gives up a connection for `driver.ErrBadConn` only.

**CallbackBridge.** A task is a scan stream, an evaluation of a function or a column lookup of
`information_schema`; `pc[t]` is its Rust future, `call[t]` the closure that `blocking_work` spawns,
which outlives the future and leaves its result for it. `refs` are the `Arc<Owner>` clones, as pairs
of who holds one and the handle; `live` the handles valid in Go. `Arcs` is every change of `refs`:
`Owner::drop` of the last clone sends RELEASE in the same step. A task starts with a scan's
`GoExec::execute` (`Create`, whose stream waits to be polled: `Poll`), a function's
`invoke_async_with_args` (`Evaluate`) or `resolve_table` (`Resolve`); scans and evaluations open a child
context, a lookup has none: `ContextOf` is the query's, as in `go_catalog.rs:222`. `Acquire` takes a
permit, `Enter` is the entry of `dispatchCallback`, `Return` its return with an object (`ReturnObject`: a
new handle) or with data. `Continue` is the future's next step, `FinishScan`, `FinishEvaluation` and
`FinishLookup` its ends, `Abandon` the drop of a stream or future, by which `ScanState` or
`CancelOnDrop` cancels. `End` is the end of the query's execution: a result that is closed, at its end,
at an error or early, cancels the query's context and with it those of the tasks not yet over
(`closeLocked` in `native.go:827-854`, `CancelToken::cancel`); an execution that fails has no result to close.
`DropPlan` drops what the plan owned. A nested query is made by a callback of its host task and inherits
its context. `MayReturn` is an assumption on the clients' callbacks, not code of the driver: they close
their queries before they return.

**InsertPump.** `pump` is the spawned task, at its pull or its send; `channel` the bounded channel,
with `Capacity` 2 as in the code; `writer` the blocking thread, `"reading"` inside
`InputReader::next`; `write` the future of `write_all`. `Closed` is a read after the sender is gone
without an end marker, `SendFails` a send after the receiver is. `Drop` is the future dropped at any
await; the thread goes on.

**Rows.** `held` are the batches not yet released, `handedOut` what `database/sql` got; `NextRow` is
one call of `Next`, with its loop over empty batches, `Deliver` its row and `Exhausted` its end.
**ProviderReader.** `Capped` is the slice at the limit, `Slice` with the projection applied; `kept` and
`inputReleases` count what is retained and how often the input was released. **Import.** An importer's `step` follows `importArrowReader`
(schema, batches, commit), `doing` follows `RegisteredTable.Deregister` under its mutex; `table` is
the one name they all use. **SharedRuntime.** `weak` is `SHARED`, `tableMu` its mutex, `runtime[d]`
the strong reference of a database, `built` the options of each runtime ever built; `Retain` and
`Upgrade` are apart because the last user may leave between them. **CatalogResolve.** `snapshot[t]` is the resolved table or the cell of a lazy one
(0: not found), `remote[t]` the catalog's current version; a cell's first caller asks, others wait,
and another takes over if it goes away, as `OnceCell` does; `resolving[t]` is who asks, `branch[b]` what a
branch looks up, `called` the calls made so far. A missing table named twice in two spellings
is resolved twice before planning, although `README.md:447-449` speaks of once: both calls are in the
model, and no answer differs for a table that was found.

**LibraryCache.** `loading[p]` follows a process through `resolveNativeLibraryForExecution`,
`downloadNativeLibrary` and the `dlopen` of `ensureNativeLibraryLoaded`; a failure is final, as
`nativeLoad.err` is. `cached` is the content of the one path all processes install to and load from,
which is looked at three times (`Inspect`, `VerifyCached`, `Load`) with other processes in between.
`temps` holds every temporary file created; a name that `os.CreateTemp` draws is taken never to be
drawn again, so the deferred `os.Remove` after a rename meets no other file. A process may end
anywhere (`Exit`), which leaves its file, and `PowerLoss` may change any file, since nothing is synced.
A `"refused"` path is one that is no regular file or that `trustedNativePath` rejects.

**Cells, RowsAffected, ParameterValues, Pushdown.** Pure code: each has one variable for the input and
one for the outcome. `Convert`, `Bind` and `Push` are one call; `RowsAffected` reads batch by batch
(`ReadCounts`, `ReadEnds`). `MaxInt64` is a constant and overflow is kept: `Wrap` is what Go's
arithmetic does where no guard stops it. A decimal is a sequence of digits and other characters,
trimmed before it is parsed (`Trim`; `NumbersRead` is `parse::<i128>` of each prefix); `InvalidStrings`
and `InvalidZones` stand for Go strings that are not UTF-8, which `bytes_to_string` refuses (a decimal
that is not UTF-8 is refused for the same characters, which are no digits). A filter is a sequence of expressions that refer to
their operands by place, as a tree laid out in postorder, so that its evaluation, its classification
and what JSON makes of it are recursive functions over places; the provider's filter and the query's
are compared by evaluating both in three-valued logic.

**Placeholders.** One step is one token of the loop in `prepare_query`, except that a question mark
takes several: `ReadQuestion` counts it, `Seek` is one character of `SourceCursor::offset`, `Replace`
and `Replaced` are the two offsets found. `rewrite_query` runs over the replacements in the same
order, so its copy is made here as they are found; `Prepared` adds the rest, or refuses a mixture.
`KeepDefinition` is a `PREPARE` or `CREATE FUNCTION`, whose text `prepare` leaves alone. `Execute` is
one execution, from `checkArgCount` to `param_values`; executions share nothing but the metadata. A
byte is its token and its place in the token, so that no two tokens look alike; characters of two
bytes tell byte and character offsets apart.

## 3. Runs

| Run | Instance | Distinct states | Shows |
|---|---|---|---|
| `context_mutex` | 3 callers | 756 | token, refinement, both liveness properties |
| `connection` | 2 goroutines, 2 statements (one mutating), 3 sessions | 120,133 | sessions, statements, handles, refinement of `SessionContract`, no call blocks for ever |
| `serialization` | 2 calls, 2 connections, 1 name, 2 closers, shared and isolated | 44,532 | lock and mutation coincide, catalogs kept, every mutation returns |
| `shared_init` | 3 callers | 8,486 | one initialization, nothing leaked, waits end |
| `result_reader` | 3 goroutines and the watcher, with and without a cancellable context | 7,902 | handles, release, cancellation, closing |
| `extension_activation` | 3 goroutines, 2 connections | 122,599 | no plan without callbacks sees an extension, no circle of waits, no starvation |
| `pool` | 2 clients, 2 connections, shared and isolated | 2,354 | initialized and isolated sessions |
| `pool_fresh` | as `pool` | – | finding 1 below |
| `callbacks` | a query with a scan and a function, a nested query of the scan's provider with a column lookup, 2 permits | 69,347 | calls own their handles, handles their owners, siblings are independent, cancelled calls end |
| `branches` | a query with a scan and a column lookup | – | finding 2 below |
| `data_path` | each of twelve components, bounds below | 761,167 | ordering, completeness and exactness of what passes through |
| `pushdown_nonfinite` | filters over an infinity and NaN | – | finding 3 below |

Bounds. Three callers of a lock are an owner, one that is cancelled while it waits and one that
is not. Two goroutines in `Connection` are enough for every pairing of a call with `Close`, a
reset or an execution, and a goroutine that returned with an open reader still holds `ddlMu`;
two statements make the invalidation loop interruptible; three sessions (`MaxSessions`, the one
bound on a counter) allow two completed resets or two at once, after which connecting fails,
which it may at any time. Two calls are one mutation and its rival; two closers are enough to
close twice. Three goroutines on two connections are a registration that waits, the plan it waits for
and a third call, kept out on the same connection or on another one, where it may be a second
registration. One catalog name is the only case in which two insertions meet. In `SharedInit`,
`successes` stays at one by the invariant and needs no bound; `doneCloses` of `ResultReader` likewise.

`callbacks` has two permits instead of 64, so that a callback and the one it waits for can take all;
its three tasks are one of each kind. In `data_path`, `InsertPump` has up to three batches, one more than
the channel holds; `Rows` three batches of up to two rows, with empty ones between; `ProviderReader`
two batches of up to two rows, every limit up to three (none, inside a batch, at its end, beyond) and
every projection of width two; `Import` two importers with two batches and two users of a handle;
`SharedRuntime` three databases, two worker counts and three runtimes, enough to build one, lose it and
build it again; `LibraryCache` two processes and two temporary files, one more than a process that
races with none would create; `CatalogResolve` two tables, two branches, two references and two changes. Integers
have 5 bits (`MaxInt64` is 15), with inputs at both ends of the range and beyond it; results have two
batches of up to two counts; decimals have up to three digits of precision and four characters, spaces included; one string and one
time zone are not UTF-8;
statements have up to two tokens of any kind, or up to five question marks, newlines and characters of
two bytes, and up to two arguments with ordinals 0 to 3; filters have one
connective over comparisons, `BETWEEN`, `IN` of two literals and `IS NULL`, over the values 0, 1 and
`NULL`, and in `pushdown_nonfinite` infinity and NaN.

Deadlock is checked except in `ResultReader`, `CallbackBridge` and `MCDataPath`, whose executions end,
and `Pool`, whose connector may be closed for good.

Type invariants are proved rather than run.

### Fairness

- Go code that can run does: weak fairness of each goroutine's steps.
- `sync.Mutex` hands a starving waiter the lock, and blocked senders of a channel are served in
  order: strong fairness of the steps that take a lock.
- Nothing is assumed of what the code waits for outside itself, unless the property says so.
  `LockReturns`, `ConnectReturns`: a cancelled wait ends although the owner or the initializer hangs;
  only their second parts have "owners unlock" and "initializers return" as premises.
  `CloseReturns`, `CancellationStops`: DataFusion may never yield a batch; only
  planning and execution, which poll the flag, are assumed to stop once it is set.
  `CancelledCallsEnd`: a callback may hang until its context is done, and then returns (which
  `README.md:480-481` asks of providers); tokio serves waiters for a permit in order (strong fairness of
  `Acquire`) and runs what is ready (weak fairness of the next step of a task or a query,
  `TaskGoesOn`, `QueryGoesOn`); DataFusion drops the futures of a query that ended. The property is one
  `[]<>` for all tasks and queries, which is equivalent to a `~>` for each (what is dropped or over stays
  so) and spares TLC four of five branches.
  `InsertReturns`: the input may never be ready and the provider may hang, but a provider that was
  told of the end or of an error, or whose context was cancelled, returns.
  `CallsReturn` and `MutationsReturn` assume that native calls return and readers are closed, which
  is what the documentation asks of clients, and that no context need be cancelled: the returns of a
  call whose context is done are under no fairness, so that a registration that holds `ddlMu` and
  waits for `Conn.mu` gets out only by taking it.

### Findings

1. `LentSessionIsFresh` does not hold. `ResetSession` (`connection.go:118`) returns `ctx.Err()` for a
   context that is already done. `database/sql` drops a connection for `driver.ErrBadConn` alone, so
   the connection is lent with the previous borrower's isolated session, tables and settings
   included, while `docs/architecture.md:70` says that a failed reset makes the connection unusable.
   The trace has seven steps: connect, use, return, acquire, cancel, refused reset. `ResetIsolates`
   is the part that does hold: whoever saw no reset error finds a fresh session.
2. `BranchesIndependent` does not hold. A lazy lookup of `information_schema.columns`
   (`rust/src/go_catalog.rs:222`) calls Go with the operation of the whole query. `blocking_work` cancels
   that operation when the lookup's future is dropped, and every scan of the query with it, while
   `docs/architecture.md:115-117` says that dropping one branch cannot cancel sibling work.
   `ScansIndependent`, for queries without such lookups, holds: the context of a task not yet over is
   done only if its query is over or was cancelled.
3. `PushdownConservative` does not hold with non-finite literals. `rust/src/pushdown.rs:63-68` passes
   floats to `serde_json`, which writes `null` for an infinity or NaN; `internal/native/expr.go:182-193`
   decodes `null` as 0 without an error. `x < Infinity` reaches the provider as `x < 0`, and rows
   that a provider prunes by it are lost, while `extensions.go:21` calls the predicates
   conservative. With finite literals, in `data_path`, the property holds.

## 4. Theorems

All proofs follow one plan: an inductive invariant (`IInv`, or a name of its own where a module holds
the proofs of several components; lemmas for the initial states and, action by action, for the step),
then each theorem from it.

| Module | Theorem | Statement |
|---|---|---|
| `ContextMutexProofs` | `TypeCorrect`, `TokenCorrect` | `Spec => []TypeOK`, `Spec => []TokenInv` |
| | `Refinement` | `Spec => ImplementsCancellableLock` |
| `ConnectionProofs` | `ConnectionInvariant`, `TypeCorrect` | the inductive invariant, the types |
| | `StatementsFollow`, `HandlesOutliveUse`, `SessionsAreReleased`, `UsableWhileOpen` | `StatementsFollowSession`, `NoUseAfterFree`, `NoSessionLeak`, `UsableUntilClosed` |
| | `Refinement` | `Spec => ImplementsSessionContract` |
| `ConnectorProofs` | `TypeCorrect`, `InitializedOnceCorrect`, `ConnectedInitializedCorrect`, `NoHandleLeakCorrect` | `SharedInit`: the types and the three invariants of the run |
| | `PoolTypeCorrect`, `LentSessionInitializedCorrect`, `ResetIsolatesCorrect` | `Pool`: the types and the two invariants of the run |
| `SerializationProofs` | `TypeCorrect`, `LockFollowsCallCorrect`, `CatalogsKeptCorrect` | the types, the invariant and the action property of the run |
| `ExtensionActivationProofs` | `TypeCorrect`, `PlansHaveCallbacksCorrect` | the types and the invariant of the run |
| `ResultReaderProofs` | `TypeCorrect`, `HandlesOutliveUse`, `ClosingReleases` | the types, `NoUseAfterFree`, `ClosedReleases` |
| `DataPathProofs` | `PumpCorrect`, `TypeCorrect`, `CompletionIsTrue` | `InsertPump`: the inductive invariant, the types, `NoFalseCompletion` |
| | `RuntimeInvariant`, `RuntimeTypeCorrect`, `RuntimesShared` | `SharedRuntime`: likewise, `OneSharedRuntime` |
| | `ImportInvariant`, `ImportTypeCorrect`, `RegistrationIsExact` | `Import`: likewise, `RegistrationExact` |
| | `CatalogInvariant`, `CatalogTypeCorrect`, `CatalogIsConsistent` | `CatalogResolve`: likewise, `CatalogConsistent` |
| | `LibraryInvariant`, `LibraryTypeCorrect`, `LibraryIsVerified` | `LibraryCache`: likewise, `LibraryVerified` |
| | `RowsInvariant`, `RowsTypeCorrect`, `RowsAreInOrder` | `Rows`: likewise, `RowsInOrder` |
| | `ReaderInvariant`, `ReaderTypeCorrect`, `ReaderDeliversCorrect` | `ProviderReader`: likewise, `ReaderDelivers` |
| | `CellsCorrect`, `CountInvariant`, `NumbersAreExact` | `Cells` and `RowsAffected`: `CellExact`, the inductive invariant, `NumbersExact` |
| | `ParameterTypeCorrect`, `ParametersAreExact` | `ParameterValues`: the types, `ParametersExact` |
| | `PushdownInvariant`, `PushdownIsConservative` | `Pushdown`: the inductive invariant, `PushdownConservative` if no literal is non-finite |
| | `PlaceholderInvariant`, `PlaceholdersBoundAsWritten` | `Placeholders`: the inductive invariant, `BoundAsWritten` |
| `CallbackBridgeProofs` | `OwnershipInvariant`, `TypeCorrect`, `HandlesHaveOwners`, `CallsHaveHandles`, `SiblingsAreIndependent` | the inductive invariant, the types, `HandlesOwned`, `CallsOwnHandles`, `ScansIndependent` |

Assumptions: only that the "nobody" values differ from the real ones, in `Serialization` that
a connection and a name exist, in `ExtensionActivation` that a connection
does, in `InsertPump` that `End` and `Fail` are no batches, and in `CallbackBridge` that tasks belong to
queries and a nested query to a task of one that is not nested, the only depth modelled. In
`Connection` a statement and a session exist (`MaxSessions` is any number but 0); in the other modules
the bounds are any natural numbers, and the values that stand for nothing differ from the rest.
`InsertPump` is proved for any number of batches with the code's capacity of two,
`CallbackBridge` for any queries, tasks and permits. Sets of callers, clients, connections, names and closers are
arbitrary, infinite ones included.

In the components that convert data, results, scans, filters, texts and argument lists have any
length, `MaxInt64` and `MaxPrecision` any size. What is assumed: tokens, arguments and filters are
those the parser and `database/sql` can give (a filter refers to earlier expressions only; an argument
has a value; a Go argument holds what its type can), and marks such as `Null`, `None` and `Unbound`
are no values. `PushdownIsConservative` alone has a premise of its own, that no literal is an infinity
or NaN; finding 3 shows that it is needed.

Why the invariants need strengthening. `TokenInv` alone does not say that a caller about to give
the token back was cancelled, which the refinement needs: otherwise the abstract waiter would
leave without a reason (`UndoInv`). `InitializedOnce` needs that the flag, the number of successes
and the place of the lock's holder move together (`LockInv`, `FlagInv`): between the initializer's
return and the flag, `successes` is one and the flag is not set, and only the lock keeps the next
caller out. `ResetIsolates` needs that no client has two connections
(`BorrowInv`), `LentSessionInitialized` that the sessions of all connections the pool keeps are
initialized, free ones included (`OpenInv`). `LockFollowsCall` needs that
the body of a reader's `Close` runs only while the reader exists (`OnceInv`); `CatalogsKept` needs
that a name found free is still free when it is inserted (`InsertInv`), which is preserved because
whoever inserts into that session mutates it, hence holds the same lock, hence is the same call.
`PlansHaveCallbacks` needs that a plan without callbacks is a reader of the planning lock (`PlanInv`),
that there are no readers from the end of the writer's wait on (`DrainInv`), and that nothing is
published before the flag is set (`ActiveInv`).

`ResultReader` needs who may be where: only the holder of `resultReader.mu` pulls or shuts, and only
before `closed` (`OwnersInv`); Cancel uses the token exactly while it holds the token's mutex
(`TokenInv`); and what each phase has released (`ReleasedInv`). `NoFalseCompletion` needs that the batches
given, in the channel and in the pump's hand are those pulled without a gap (`ChannelInOrder`,
`PumpInOrder`), that an end marker is last in the channel and follows the input's end
(`ChannelInOrder`, `EndIsLast`), and that success waits for the pump (`AnswerFollowsWriter`).
`HandlesOwned` and `CallsOwnHandles` need what the next step of a task will find: a registered table and
a live query own their handles (`PlanInv`), a future owns its context and table as long as it may be
polled, and a closure what it uses (`TaskInv`). The lemma `ArcsKeepOwners` is the common core: a step
keeps `live = Held(refs)` if what it gains is valid or new and what is new is gained.

`NoUseAfterFree` of `Connection` needs who holds which lock where (`LocksInv`) and that what a goroutine
works on is still current while it holds them (`JobsInv`); `StatementsFollowSession`, that only listed
statements have native ones and that an invalidation still has on its list all it has not closed
(`StatementsInv`); `NoSessionLeak`, that a session a reset opened is nobody else's (`KeepsInv`) and that
`Conn.conn` becomes nil at the end of a close and not before (`CurrentInv`). The refinement of
`SessionContract` maps each step from these: the swap and the end of a close change the abstract
session, every other step stutters or is a use of the current one.

`ScansIndependent` needs that nothing cancels the context of a scan but the scan's own end, and nothing
that of its query before the query ends (`ScopeInv`). `OneSharedRuntime` needs that the table's mutex is held from the lookup
to the registration (`OpensUnderLock`) and that a shared runtime in use is the one registered, or is
about to be by whoever holds the mutex (`InUseRegistered`); the latter also says that no builder
overwrites a live entry. `RegistrationExact` needs that an importer holds a prefix of its input, all of
it when it commits (`PrefixAppended`), and that a removal without its mark is that of the mutex's holder
(`RemovesUnderLock`, `RemovedIsMarked`). `CatalogConsistent` needs that a table is asked for by one
branch, and before it is answered (`OneAsks`), that an answer is the snapshot's (`AnswersKept`), and
which lists exist in which phase (`LookupsFollowListing`, `CallsForMode`). `LibraryVerified` needs that
processes never share a temporary file (`TempsOwned`), without which what is installed need not be
what was verified (`DownloadKept`).

Data. What a recursive function computes is proved by induction over numbers, which the library
states for operators. `LeastNumber` derives the least element of a set of naturals from the
well-founded inclusion of finite sets, `Induction` and `CourseOfValues` follow for sets, and
`Recursion` builds the function that a recursive definition denotes (for `SumsOf`, `SumsTo`,
`NumbersRead`, `TensOf`, `Eval`, `Classify` and `TextsOf`). Then an invariant adds one element at a time.
`RowsInOrder` needs that the rows handed out are exactly those before the position (`UpToPosition`),
where batches without rows lie between, and that no batch but the current one is held (`OneBatchHeld`).
`ReaderDelivers` needs that what remains of the limit is what was not delivered (`LimitKept`), that
only the last batch can be cut (`BatchesAsAsked`), and that the input is released with the last
reference (`InputFreedOnce`). `NumbersExact` needs that the count so far is the sum of the batches
read (`CountInv`) and that the guard before each addition is exact: no sum in between overflows unless
the code says so. `ParametersExact` has no history; its proof is arithmetic of digits: a text scaled
to its type's places fits its precision exactly if its digits without leading zeros do
(`TooManyDigits`). `PushdownConservative` needs that an expression classified as supported has
supported operands (`PushdownInv` with the grounded places of `WellFormed`).

`BoundAsWritten` needs where the cursor is: its line and column are those of the character it is at,
its offset the length of the text before (`CursorKept`). No two characters have one location
(`LocationsDiffer`), since newlines only accumulate, so the cursor meets the location of a question
mark at that question mark (`Found`), and the error for a location outside the text is never taken.
The copy is the numbered text so far (`CopyKept`), and what was counted are the placeholders of the
tokens read (`CountsKept`). Arguments that are not refused are a permutation: as many bindings as
arguments and none without a value means that the ordinals map the positions onto themselves
(`OneArgumentEach`), so no argument replaced another.

Only model-checked: liveness, which is out of the prover's reach, that is `LockReturns`,
`CallsReturn` (in two runs), `MutationsReturn`, `ConnectReturns`, `CloseReturns`,
`CancellationStops`, `CancelledCallsEnd` and `InsertReturns`; and the three findings, which are
counterexamples. Every invariant that a passing run checks is a theorem. The
inductive invariants were model-checked on the instances above, each on the states of its own
component, before they were proved; of `CellTypeOK` and `PushdownTypeOK`, whose sets TLC cannot
enumerate, there is only the proof.

## 5. Not modelled, and the plan

Not modelled and not planned: logging, wording and wrapping of errors, platform trust checks of the
library file (their outcome is a choice of `LibraryCache`), generators, scripts and the test harness. DataFusion, Arrow, tokio and `database/sql` are
external and appear through what the driver observes of them. `BeginTx`, `Ping`, `NumInput` and
parameter checks change no state. The
zero-copy and one-shot registrations publish in one native call. That a change of the SQL
dialect between prepare and execution leaves a statement with the old classification and
placeholders is not modelled, nor is a handle that removes a table registered in place of its own before
its first call: it knows a name only.

What could follow:

1. Several executions of one prepared statement in `Placeholders`, with a dialect that changes in
   between.
2. The classification of statements as mutations (`rust/src/query.rs`), checked against what each
   statement changes, and DSN normalization.
3. Deeper nesting of queries in `CallbackBridge`, with the connection and mutation locks that a
   callback's query takes.
