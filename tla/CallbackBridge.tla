---------------------------- MODULE CallbackBridge ----------------------------
(***************************************************************************)
(* rust/src/callbacks.rs and its users, internal/native/callbacks.go: how  *)
(* queries call Go objects.  A task is a scan stream, the evaluation of a  *)
(* function, or a lazy column lookup of information_schema.                *)
(*                                                                         *)
(* Go keeps objects in a table of handles (cgo.Handle).  Rust owns a       *)
(* handle through Arc<Owner>, and the last Arc to go sends RELEASE.  A     *)
(* call blocks, so it runs in a closure on a thread of its own, within one *)
(* of Slots permits of the whole process, and outlives the future that     *)
(* waits for it.                                                           *)
(***************************************************************************)
EXTENDS Naturals, FiniteSets

CONSTANTS Query, Task, Table,
          QueryOf,    \* the query a task belongs to
          Kind,       \* "scan", "udf" or "lookup"
          Nested,     \* queries that a callback makes
          HostOf,     \* the task whose callback makes a nested query
          Slots       \* permits for blocking calls, 64 in the code

ASSUME CallbackAssumption ==
    /\ QueryOf \in [Task -> Query]
    /\ Kind \in [Task -> {"scan", "udf", "lookup"}]
    /\ Nested \subseteq Query
    /\ HostOf \in [Nested -> Task]
    /\ \A q \in Nested : QueryOf[HostOf[q]] \notin Nested
    /\ Slots \in Nat \ {0}

VARIABLES table,       \* the registered Go object: "new", "registered" or "gone"
          phase,       \* of a query: "new", "live", "ending" or "ended"
          pc,          \* the future or stream of a task
          call,        \* the closure of a task, or the result it left
          uses,        \* the handles the closure passes to Go
          refs,        \* Rust: <<owner, handle>>, the Arcs
          live,        \* Go: the valid handles
          clientDone,  \* queries whose client cancelled its context
          cancelled    \* Go: contexts cancelled through their handle

vars == <<table, phase, pc, call, uses, refs, live, clientDone, cancelled>>

Root(q) == <<"root", q>>          \* callbackContext of a query
Op(t) == <<"op", t>>              \* child context of one scan or evaluation
Object(t) == <<"reader", t>>      \* open reader of a scan, table of a lookup
Provider == <<"provider", Table>>

Context == {Root(q) : q \in Query} \union {Op(t) : t \in Task}
Handle == Context \union {Object(t) : t \in Task} \union {Provider}

Plan(q) == <<"plan", q>>          \* cancel token, plan and session state
Future(t) == <<"future", t>>      \* ScanState, CancelOnDrop
Closure(t) == <<"closure", t>>
Result(t) == <<"result", t>>      \* what the closure left for the future
Catalog == <<"catalog", Table>>

Owner == {Plan(q) : q \in Query} \union {Future(t) : t \in Task}
           \union {Closure(t) : t \in Task} \union {Result(t) : t \in Task} \union {Catalog}

Places == {"none", "idle", "waiting", "calling", "done"}
Results == {"ok", "end", "failed"}

InGo == {t \in Task : call[t] \in {"queued", "running"}}

HeldBy(owner) == {r \in refs : r[1] = owner}
Held(arcs) == {r[2] : r \in arcs}

\* Go has a context of the task's own, but a column lookup uses the query's.
ContextOf(t) == IF Kind[t] = "lookup" THEN Root(QueryOf[t]) ELSE Op(t)

Target(t) ==
    IF <<Future(t), Object(t)>> \in refs THEN Object(t) ELSE Provider

Opening(t) == Kind[t] # "udf" /\ Provider \in uses[t]

(* ctx.Done() of a context: a child is done when its parent is.            *)
Asked(q) ==
    \/ q \in clientDone
    \/ /\ q \in Nested
       /\ LET t == HostOf[q] IN
          \/ {Op(t), Root(QueryOf[t])} \intersect cancelled # {}
          \/ QueryOf[t] \in clientDone

RootDone(q) == Root(q) \in cancelled \/ Asked(q)

CtxDone(t) == Op(t) \in cancelled \/ RootDone(QueryOf[t])

-----------------------------------------------------------------------------
Init ==
    /\ table = "new"
    /\ phase = [q \in Query |-> "new"]
    /\ pc = [t \in Task |-> "none"]
    /\ call = [t \in Task |-> "none"]
    /\ uses = [t \in Task |-> {}]
    /\ refs = {} /\ live = {}
    /\ clientDone = {} /\ cancelled = {}

(* One step of Rust: Go made handles, Arcs are cloned or moved, some are   *)
(* dropped.  Owner::drop of the last Arc of a handle sends RELEASE, which  *)
(* deletes the handle and cancels a context or releases a reader.          *)
Arcs(made, gain, loss, cancels) ==
    LET kept == (refs \union gain) \ loss
        dropped == Held(refs \union gain) \ Held(kept)
    IN /\ refs' = kept
       /\ live' = (live \union made) \ dropped
       /\ cancelled' = cancelled \union cancels \union (dropped \intersect Context)

KeepArcs == UNCHANGED <<refs, live, cancelled>>

Become(f, t, place) == [f EXCEPT ![t] = place]

-----------------------------------------------------------------------------
(* Registration and queries.                                               *)

\* Rust takes the handle over even if the registration fails.
Register ==
    /\ table = "new"
    /\ \/ /\ table' = "registered"
          /\ Arcs({Provider}, {<<Catalog, Provider>>}, {}, {})
       \/ /\ table' = "gone"
          /\ Arcs({Provider}, {<<Catalog, Provider>>}, {<<Catalog, Provider>>}, {})
    /\ UNCHANGED <<phase, pc, call, uses, clientDone>>

\* Deregistration, or the end of the session: active queries go on.
Deregister ==
    /\ table = "registered"
    /\ table' = "gone"
    /\ Arcs({}, {}, HeldBy(Catalog), {})
    /\ UNCHANGED <<phase, pc, call, uses, clientDone>>

\* newCancelToken attaches a Go context; the plan keeps the tables it names.
Begin(q) ==
    /\ phase[q] = "new" /\ table = "registered"
    /\ q \in Nested => call[HostOf[q]] = "running" /\ ~RootDone(q)
    /\ phase' = Become(phase, q, "live")
    /\ Arcs({Root(q)}, {<<Plan(q), Root(q)>>, <<Plan(q), Provider>>}, {}, {})
    /\ UNCHANGED <<table, pc, call, uses, clientDone>>

CancelContext(q) ==
    /\ phase[q] = "live" /\ q \notin clientDone
    /\ clientDone' = clientDone \union {q}
    /\ UNCHANGED <<table, phase, pc, call, uses>> /\ KeepArcs

\* Nothing polls any more.  A result that is closed, at its end, at an error
\* or by the client, cancels the context of its query (closeLocked,
\* CancelToken::cancel); an execution that fails has no result to close.
End(q) ==
    /\ phase[q] = "live"
    /\ phase' = Become(phase, q, "ending")
    /\ \E cancels \in {{Root(q)}, {}} : Arcs({}, {}, {}, cancels)
    /\ UNCHANGED <<table, pc, call, uses, clientDone>>

DropPlan(q) ==
    /\ phase[q] = "ending"
    /\ \A t \in Task : QueryOf[t] = q => pc[t] \in {"none", "done"}
    /\ phase' = Become(phase, q, "ended")
    /\ Arcs({}, {}, HeldBy(Plan(q)), {})
    /\ UNCHANGED <<table, pc, call, uses, clientDone>>

-----------------------------------------------------------------------------
(* Tasks.                                                                  *)

\* A future starts with clones of the Arcs of the provider and its context.
Start(t, place, made) ==
    /\ pc[t] = "none" /\ phase[QueryOf[t]] = "live"
    /\ pc' = Become(pc, t, place)
    /\ Arcs(made, {<<Future(t), Provider>>, <<Future(t), ContextOf(t)>>}, {}, {})
    /\ UNCHANGED <<table, phase, call, uses, clientDone>>

\* A scan opens a child context; its stream waits to be polled.
Create(t) == Kind[t] = "scan" /\ Start(t, "idle", {Op(t)})

\* An evaluation opens one too, and goes on to its call.
Evaluate(t) == Kind[t] = "udf" /\ Start(t, "waiting", {Op(t)})

\* A lookup goes on to its call with the context of the query.
Resolve(t) == Kind[t] = "lookup" /\ Start(t, "waiting", {})

\* A poll of the stream arms the guard and asks for a permit.
Poll(t) ==
    /\ pc[t] = "idle" /\ phase[QueryOf[t]] = "live"
    /\ pc' = Become(pc, t, "waiting")
    /\ UNCHANGED <<table, phase, call, uses, clientDone>> /\ KeepArcs

Acquire_MutantBorrows(t) ==
    /\ pc[t] = "waiting" /\ Cardinality(InGo) < Slots
    /\ pc' = Become(pc, t, "calling")
    /\ call' = Become(call, t, "queued")
    /\ uses' = Become(uses, t, {ContextOf(t), Target(t)})
    /\ UNCHANGED <<table, phase, clientDone>> /\ KeepArcs

\* The closure takes the permit and clones of both Arcs with it.
Acquire(t) ==
    /\ pc[t] = "waiting" /\ Cardinality(InGo) < Slots
    /\ pc' = Become(pc, t, "calling")
    /\ call' = Become(call, t, "queued")
    /\ uses' = Become(uses, t, {ContextOf(t), Target(t)})
    /\ Arcs({}, {<<Closure(t), h>> : h \in {ContextOf(t), Target(t)}}, {}, {})
    /\ UNCHANGED <<table, phase, clientDone>>

Enter(t) ==
    /\ call[t] = "queued"
    /\ call' = Become(call, t, "running")
    /\ UNCHANGED <<table, phase, pc, uses, clientDone>> /\ KeepArcs

\* Of the client's callbacks it is assumed that they close the queries they
\* made before they return.
MayReturn(t) ==
    /\ call[t] = "running"
    /\ \A q \in Nested : HostOf[q] = t => phase[q] \in {"new", "ended"}

\* The closure of blocking_call or batch_call ends, in success or with an
\* error; without a future its result is dropped as well.
Leave(t, result, made, loss) ==
    /\ call' = Become(call, t, IF pc[t] = "calling" THEN result ELSE "none")
    /\ uses' = Become(uses, t, {})
    /\ Arcs(made, {<<Result(t), h>> : h \in made}, HeldBy(Closure(t)) \union loss, {})
    /\ UNCHANGED <<table, phase, pc, clientDone>>

\* Go stores the reader or the table it opened under a new handle.
ReturnObject_Mutant(t) ==
    /\ MayReturn(t) /\ Opening(t)
    /\ Leave(t, "ok", {Object(t)}, {})

ReturnObject(t) ==
    /\ MayReturn(t) /\ Opening(t)
    /\ Leave(t, "ok", {Object(t)}, IF pc[t] = "calling" THEN {} ELSE {<<Result(t), Object(t)>>})

\* A batch, an array or a schema; the end; an error or a panic.
ReturnData(t, result) ==
    /\ MayReturn(t)
    /\ result = "ok" => ~Opening(t)
    /\ Leave(t, result, {}, {})

ArcsOf(t) == HeldBy(Future(t)) \union HeldBy(Result(t))

\* The guard is disarmed and the stream goes on.
Continue(t) ==
    /\ pc[t] = "calling" /\ call[t] = "ok" /\ Kind[t] # "udf"
    /\ Kind[t] = "lookup" => HeldBy(Result(t)) # {}
    /\ pc' = Become(pc, t, IF Kind[t] = "lookup" THEN "waiting" ELSE "idle")
    /\ call' = Become(call, t, "none")
    /\ Arcs({}, {<<Future(t), h>> : h \in Held(HeldBy(Result(t)))}, HeldBy(Result(t)), {})
    /\ UNCHANGED <<table, phase, uses, clientDone>>

\* A future ends with the outcome of its call and drops what it has.
Settle(t, kept, cancels) ==
    /\ pc[t] = "calling" /\ call[t] \in Results
    /\ pc' = Become(pc, t, "done")
    /\ call' = Become(call, t, "none")
    /\ Arcs({}, kept, ArcsOf(t), cancels)
    /\ UNCHANGED <<table, phase, uses, clientDone>>

\* The end of the reader, an error, or a batch of the wrong schema.
FinishScan(t) == Kind[t] = "scan" /\ Settle(t, {}, {Op(t)})

\* An array, or an error, of the wrong type or length included.
FinishEvaluation(t) == Kind[t] = "udf" /\ Settle(t, {}, {})

\* The table that was found stays with the plan, and its context with it.
\* A closure that panics leaves the guard armed, which cancels.
FinishLookup(t) ==
    /\ Kind[t] = "lookup"
    /\ LET found == {h \in Held(HeldBy(Future(t))) : call[t] = "ok"}
           armed == {h \in {ContextOf(t)} : call[t] = "failed"}
       IN  \E cancels \in {{}, armed} : Settle(t, {<<Plan(QueryOf[t]), h>> : h \in found}, cancels)

Finish(t) == FinishScan(t) \/ FinishEvaluation(t) \/ FinishLookup(t)

Abandon_MutantQuiet(t) ==
    /\ pc[t] \in {"idle", "waiting", "calling"}
    /\ pc' = Become(pc, t, "done")
    /\ call' = IF call[t] \in Results THEN Become(call, t, "none") ELSE call
    /\ Arcs({}, {}, ArcsOf(t), {})
    /\ UNCHANGED <<table, phase, uses, clientDone>>

Abandon_MutantWide(t) ==
    /\ pc[t] \in {"idle", "waiting", "calling"}
    /\ pc' = Become(pc, t, "done")
    /\ call' = IF call[t] \in Results THEN Become(call, t, "none") ELSE call
    /\ Arcs({}, {}, ArcsOf(t), {Root(QueryOf[t])})
    /\ UNCHANGED <<table, phase, uses, clientDone>>

\* DataFusion drops the future or the stream: a limit is reached, another
\* branch failed, the query is over.  A call in progress is only cancelled.
Abandon(t) ==
    /\ pc[t] \in {"idle", "waiting", "calling"}
    /\ pc' = Become(pc, t, "done")
    /\ call' = IF call[t] \in Results THEN Become(call, t, "none") ELSE call
    /\ Arcs({}, {}, ArcsOf(t), {ContextOf(t)})
    /\ UNCHANGED <<table, phase, uses, clientDone>>

-----------------------------------------------------------------------------
Return(t) == ReturnObject(t) \/ \E result \in Results : ReturnData(t, result)

QueryStep(q) == Begin(q) \/ CancelContext(q) \/ End(q) \/ DropPlan(q)

TaskStep(t) ==
    \/ Create(t) \/ Evaluate(t) \/ Resolve(t) \/ Poll(t)
    \/ Acquire(t) \/ Enter(t) \/ Return(t) \/ Continue(t) \/ Finish(t) \/ Abandon(t)

Next ==
    \/ Register \/ Deregister
    \/ \E q \in Query : QueryStep(q)
    \/ \E t \in Task : TaskStep(t)

Spec == Init /\ [][Next]_vars

(* What a task or a query must do next, when nothing but scheduling can    *)
(* hold it up: tokio runs what is ready, a reader of a done context closes *)
(* (module ResultReader), and callbacks honour their context.  A callback  *)
(* that is not cancelled may hang.                                         *)
TaskGoesOn(t) ==
    \/ Enter(t) \/ Continue(t) \/ Finish(t)
    \/ CtxDone(t) /\ Return(t)
    \/ phase[QueryOf[t]] = "ending" /\ Abandon(t)

QueryGoesOn(q) == (Asked(q) /\ End(q)) \/ DropPlan(q)

\* tokio serves waiters for a permit in order.
FairSpec ==
    /\ Spec
    /\ \A t \in Task : SF_vars(Acquire(t)) /\ WF_vars(TaskGoesOn(t))
    /\ \A q \in Query : WF_vars(QueryGoesOn(q))

-----------------------------------------------------------------------------
TypeOK ==
    /\ table \in {"new", "registered", "gone"}
    /\ phase \in [Query -> {"new", "live", "ending", "ended"}]
    /\ pc \in [Task -> Places]
    /\ call \in [Task -> {"none", "queued", "running"} \union Results]
    /\ uses \in [Task -> SUBSET Handle]
    /\ refs \subseteq Owner \X Handle
    /\ live \subseteq Handle /\ cancelled \subseteq Context
    /\ clientDone \subseteq Query

(* "Cancellation never frees a handle under an in-flight callback"         *)
(* (callbacks.rs:121-123): what a call passes to Go is valid, queued or    *)
(* running, whatever was dropped, deregistered or cancelled since.         *)
CallsOwnHandles == \A t \in Task : uses[t] \subseteq live

(* Every valid handle has an owner and every owner a valid handle, and no  *)
(* one owns anything for a task or a query that is over, a late result     *)
(* included: no handle leaks and none is deleted twice.                    *)
HandlesOwned ==
    /\ live = Held(refs)
    /\ \A t \in Task :
        /\ pc[t] \in {"none", "done"} => ArcsOf(t) = {}
        /\ call[t] \notin {"queued", "running"} => HeldBy(Closure(t)) = {}
    /\ \A q \in Query : phase[q] \in {"new", "ended"} => HeldBy(Plan(q)) = {}

(* The Go context of a scan or an evaluation is done only when the task    *)
(* itself is over, or its query is or was cancelled, not because a sibling *)
(* was dropped (docs/architecture.md:116-117).                             *)
Independent(t) ==
    pc[t] \in {"idle", "waiting", "calling"} /\ CtxDone(t) =>
        Asked(QueryOf[t]) \/ phase[QueryOf[t]] = "ending"

\* Of queries without column lookups, which use the context of the query.
ScansIndependent ==
    \A t \in Task :
        (\A s \in Task : QueryOf[s] = QueryOf[t] => Kind[s] # "lookup") => Independent(t)

\* Of every query: one with a column lookup refutes it.
BranchesIndependent == \A t \in Task : Independent(t)

\* No call is left of a future that was dropped, or of a cancelled query.
NoneLeft ==
    /\ \A t \in Task : pc[t] = "done" => call[t] = "none"
    /\ \A q \in Query :
        Asked(q) /\ phase[q] # "new" =>
            phase[q] = "ended" /\ \A t \in Task : QueryOf[t] = q => call[t] = "none"

(* A call whose future was dropped ends and gives its permit back, and a   *)
(* cancelled query ends with all its calls, even when callbacks that wait  *)
(* for nested queries hold every permit.  What is dropped, cancelled or    *)
(* over stays so, and there are finitely many tasks and queries: this says *)
(* the same as one P ~> Q for each of them.                                *)
CancelledCallsEnd == []<>NoneLeft
=============================================================================
