------------------------------ MODULE Connection ------------------------------
(***************************************************************************)
(* connection.go, statement.go: one Conn of an isolated connector, its     *)
(* prepared statements and the goroutines that use them.  Conn.mu guards   *)
(* the native connection handle and the statement table, Stmt.mu a native  *)
(* statement, and Conn.ddlMu (a contextMutex) serializes mutations until   *)
(* their result is closed.  ResetSession replaces the native session.      *)
(*                                                                         *)
(* A step is what runs between two points where another goroutine can      *)
(* interfere: taking a mutex, releasing it, or a native call made without  *)
(* one.  A call that fails before it changes anything is not a step.       *)
(***************************************************************************)
EXTENDS Integers

CONSTANTS Goroutine,
          Stmt,           \* statements, each with its SQL text
          Serializing,    \* those whose SQL mutates the session
          MaxSessions,    \* bound: native sessions opened during a run
          Free            \* the holder of a free mutex

NoSession == 0
Session == 1 .. MaxSessions

ASSUME ConnectionAssumption ==
    /\ Stmt # {} /\ Serializing \subseteq Stmt
    /\ MaxSessions \in Nat \ {0}
    /\ Free \notin Goroutine

VARIABLES connectorClosed,  \* Connector.closed
          closed,           \* Conn.closed
          current,          \* the session of Conn.conn, NoSession when it is nil
          mu,               \* holder of Conn.mu
          ddlMu,            \* holder of Conn.ddlMu, through its reader if need be
          listed,           \* Conn.statements
          prepared,         \* the Stmt objects that exist
          native,           \* the session of Stmt.stmt, NoSession when it is nil
          stmtClosed,       \* the statements with Stmt.closed set
          stmtMu,           \* holder of each Stmt.mu
          open,             \* sessions whose native connection is not freed
          opened            \* number of sessions opened so far

VARIABLES pc,    \* where each goroutine is
          job,   \* the call it is in
          stm,   \* the statement it works on
          own,   \* the session its local native handle belongs to
          todo   \* statements it has still to invalidate

conn == <<connectorClosed, closed, current, open, opened>>
stmts == <<listed, prepared, native, stmtClosed>>
locals == <<job, stm, own, todo>>
vars == <<conn, stmts, mu, ddlMu, stmtMu, pc, locals>>

Places == {"idle", "native", "wantDdl", "wantNative", "direct", "wantExec",
           "wantStmt", "exec", "reader", "closeStmt", "invalidate",
           "closeConnector", "connect", "init", "swap", "closeOld", "failed"}

Jobs == {"prepare", "query", "call", "extension", "stmt", "close", "reset"}

SomeStmt == CHOOSE s \in Stmt : TRUE

Init ==
    /\ connectorClosed = FALSE /\ closed = FALSE
    /\ current = 1 /\ open = {1} /\ opened = 1
    /\ mu = Free /\ ddlMu = Free
    /\ listed = {} /\ prepared = {} /\ stmtClosed = {}
    /\ native = [s \in Stmt |-> NoSession]
    /\ stmtMu = [s \in Stmt |-> Free]
    /\ pc = [g \in Goroutine |-> "idle"]
    /\ job = [g \in Goroutine |-> "call"]
    /\ stm = [g \in Goroutine |-> SomeStmt]
    /\ own = [g \in Goroutine |-> NoSession]
    /\ todo = [g \in Goroutine |-> {}]

Goto(g, place) == pc' = [pc EXCEPT ![g] = place]

\* Go to a place with new locals.
Set(g, place, j, s, o, t) ==
    /\ Goto(g, place)
    /\ job' = [job EXCEPT ![g] = j]
    /\ stm' = [stm EXCEPT ![g] = s]
    /\ own' = [own EXCEPT ![g] = o]
    /\ todo' = [todo EXCEPT ![g] = t]

Return(g) == Set(g, "idle", "call", SomeStmt, NoSession, {})

Lock(g) == mu = Free /\ mu' = g
Unlock == mu' = Free
ReleaseDdl(g) == ddlMu' = IF ddlMu = g THEN Free ELSE ddlMu
-----------------------------------------------------------------------------
(* Calls on the native connection handle, made under Conn.mu: Prepare, the *)
(* first half of a direct query, registrations ("call"), and withExtension *)
(* which takes ddlMu before.                                               *)

BeginNative(g, j) ==
    /\ pc[g] = "idle"
    /\ Lock(g)
    /\ ~closed /\ current # NoSession
    /\ Set(g, "native", j, SomeStmt, current, {})
    /\ UNCHANGED <<conn, stmts, ddlMu, stmtMu>>

BeginExtension(g) ==
    /\ pc[g] = "idle"
    /\ Set(g, "wantDdl", "extension", SomeStmt, NoSession, {})
    /\ UNCHANGED <<conn, stmts, mu, ddlMu, stmtMu>>

\* The context is looked at once more before withNative; if it is done, the
\* registration gives up without Conn.mu.
AbandonExtension(g) ==
    /\ pc[g] = "wantNative"
    /\ ReleaseDdl(g) /\ Return(g)
    /\ UNCHANGED <<conn, stmts, mu, stmtMu>>

\* withNative waits for Conn.mu with the mutation lock held, and learns only
\* then that the connection is closed.
EnterNative(g) ==
    /\ pc[g] = "wantNative"
    /\ mu = Free
    /\ IF closed \/ current = NoSession
       THEN ReleaseDdl(g) /\ Return(g) /\ UNCHANGED mu
       ELSE /\ Lock(g)
            /\ Set(g, "native", "extension", SomeStmt, current, {})
            /\ UNCHANGED ddlMu
    /\ UNCHANGED <<conn, stmts, stmtMu>>

LeavePrepare_Mutant(g) ==
    /\ pc[g] = "native" /\ job[g] = "prepare"
    /\ \E s \in Stmt \ prepared :
          /\ prepared' = prepared \union {s}
          /\ native' = [native EXCEPT ![s] = own[g]]
    /\ Unlock /\ Return(g)
    /\ UNCHANGED <<conn, listed, stmtClosed, ddlMu, stmtMu>>

\* PrepareContext enters the new statement into the table before it unlocks.
LeavePrepare(g) ==
    /\ pc[g] = "native" /\ job[g] = "prepare"
    /\ \/ UNCHANGED stmts
       \/ \E s \in Stmt \ prepared :
            /\ prepared' = prepared \union {s}
            /\ listed' = listed \union {s}
            /\ native' = [native EXCEPT ![s] = own[g]]
            /\ UNCHANGED stmtClosed
    /\ Unlock /\ Return(g)
    /\ UNCHANGED <<conn, ddlMu, stmtMu>>

\* A direct query keeps its temporary statement, and with it the session,
\* after Conn.mu is released.
LeaveQuery(g) ==
    /\ pc[g] = "native" /\ job[g] = "query"
    /\ Unlock
    /\ \/ Return(g)
       \/ \E place \in {"wantDdl", "direct"} : Goto(g, place) /\ UNCHANGED locals
    /\ UNCHANGED <<conn, stmts, ddlMu, stmtMu>>

LeaveCall(g) ==
    /\ pc[g] = "native" /\ job[g] \in {"call", "extension"}
    /\ Unlock /\ ReleaseDdl(g) /\ Return(g)
    /\ UNCHANGED <<conn, stmts, stmtMu>>

-----------------------------------------------------------------------------
(* Execution.  The mutation lock is waited for with no other lock held.    *)

\* Stmt.prepareOperation reads closed and serializes under Stmt.mu.
BeginExec(g, s) ==
    /\ pc[g] = "idle"
    /\ s \in prepared /\ stmtMu[s] = Free
    /\ Set(g, IF s \in Serializing \ stmtClosed THEN "wantDdl" ELSE "wantExec",
           "stmt", s, NoSession, {})
    /\ UNCHANGED <<conn, stmts, mu, ddlMu, stmtMu>>

LockDdl(g) ==
    /\ pc[g] = "wantDdl"
    /\ ddlMu = Free /\ ddlMu' = g
    /\ Goto(g, CASE job[g] = "query" -> "direct"
                 [] job[g] = "stmt" -> "wantExec"
                 [] OTHER -> "wantNative")
    /\ UNCHANGED <<conn, stmts, mu, stmtMu, locals>>

\* The context ends the wait; a direct query closes its temporary statement.
AbandonDdl(g) ==
    /\ pc[g] = "wantDdl"
    /\ Return(g)
    /\ UNCHANGED <<conn, stmts, mu, ddlMu, stmtMu>>

EndExecution_Mutant(g) ==
    \/ Goto(g, "reader") /\ UNCHANGED <<ddlMu, locals>>
    \/ Return(g) /\ UNCHANGED ddlMu

\* On success the reader owns the mutation lock, on failure it is released.
EndExecution(g) ==
    \/ Goto(g, "reader") /\ UNCHANGED <<ddlMu, locals>>
    \/ ReleaseDdl(g) /\ Return(g)

ExecuteDirect(g) ==
    /\ pc[g] = "direct"
    /\ EndExecution(g)
    /\ UNCHANGED <<conn, stmts, mu, stmtMu>>

\* Stmt.executeArrow: Conn.mu, then Stmt.mu; Conn.mu is released before the
\* native call, Stmt.mu after it.
LockExec(g) ==
    /\ pc[g] = "wantExec"
    /\ Lock(g)
    /\ Goto(g, "wantStmt")
    /\ UNCHANGED <<conn, stmts, ddlMu, stmtMu, locals>>

StartExec(g) ==
    LET s == stm[g]
        handle == IF native[s] = NoSession THEN current ELSE native[s] IN
    /\ pc[g] = "wantStmt"
    /\ stmtMu[s] = Free
    /\ Unlock
    /\ \/ /\ s \in stmtClosed \/ closed \/ native[s] = NoSession  \* or it cannot reprepare
          /\ ReleaseDdl(g) /\ Return(g)
          /\ UNCHANGED <<stmts, stmtMu>>
       \/ /\ s \notin stmtClosed /\ ~closed
          /\ native' = [native EXCEPT ![s] = handle]
          /\ stmtMu' = [stmtMu EXCEPT ![s] = g]
          /\ Set(g, "exec", "stmt", s, handle, {})
          /\ UNCHANGED <<listed, prepared, stmtClosed, ddlMu>>
    /\ UNCHANGED conn

FinishExec(g) ==
    /\ pc[g] = "exec"
    /\ stmtMu' = [stmtMu EXCEPT ![stm[g]] = Free]
    /\ EndExecution(g)
    /\ UNCHANGED <<conn, stmts, mu>>

CloseReader(g) ==
    /\ pc[g] = "reader"
    /\ ReleaseDdl(g) /\ Return(g)
    /\ UNCHANGED <<conn, stmts, mu, stmtMu>>

-----------------------------------------------------------------------------
(* Stmt.Close, Conn.Close, Connector.Close.                                *)

BeginCloseStmt(g, s) ==
    /\ pc[g] = "idle"
    /\ s \in prepared
    /\ Lock(g)
    /\ Set(g, "closeStmt", "stmt", s, NoSession, {})
    /\ UNCHANGED <<conn, stmts, ddlMu, stmtMu>>

EndCloseStmt_Mutant(g) ==
    /\ pc[g] = "closeStmt" /\ stmtMu[stm[g]] = Free
    /\ stmtClosed' = stmtClosed \union {stm[g]}
    /\ native' = [native EXCEPT ![stm[g]] = NoSession]
    /\ Unlock /\ Return(g)
    /\ UNCHANGED <<conn, listed, prepared, ddlMu, stmtMu>>

EndCloseStmt(g) ==
    /\ pc[g] = "closeStmt"
    /\ stmtMu[stm[g]] = Free
    /\ stmtClosed' = stmtClosed \union {stm[g]}
    /\ native' = [native EXCEPT ![stm[g]] = NoSession]
    /\ listed' = listed \ {stm[g]}
    /\ Unlock /\ Return(g)
    /\ UNCHANGED <<conn, prepared, ddlMu, stmtMu>>

\* The statements to close with the session, whoever executes them.
ToInvalidate_Mutant == {s \in listed : stmtMu[s] = Free}

ToInvalidate == listed

\* Called by the client, or by a ResetSession that failed.
CloseConn(g) ==
    /\ pc[g] = "failed" \/ (pc[g] = "idle" /\ ~closed)
    /\ mu = Free
    /\ IF closed
       THEN Return(g) /\ UNCHANGED <<closed, mu>>
       ELSE closed' = TRUE /\ Lock(g)
            /\ Set(g, "invalidate", "close", SomeStmt, NoSession, ToInvalidate)
    /\ UNCHANGED <<connectorClosed, current, open, opened, stmts, ddlMu, stmtMu>>

Invalidate_Mutant(g, s) ==
    /\ pc[g] = "invalidate" /\ s \in todo[g]
    /\ native' = [native EXCEPT ![s] = NoSession]
    /\ todo' = [todo EXCEPT ![g] = @ \ {s}]
    /\ UNCHANGED <<conn, listed, prepared, stmtClosed, mu, ddlMu, stmtMu, pc, job, stm, own>>

\* invalidateStatementsLocked, one statement of the table at a time.
Invalidate(g, s) ==
    /\ pc[g] = "invalidate"
    /\ s \in todo[g]
    /\ stmtMu[s] = Free
    /\ native' = [native EXCEPT ![s] = NoSession]
    /\ todo' = [todo EXCEPT ![g] = @ \ {s}]
    /\ UNCHANGED <<conn, listed, prepared, stmtClosed, mu, ddlMu, stmtMu, pc, job, stm, own>>

\* A Conn of Driver.Open goes on to close its connector, a pooled one does
\* not; EndClose happens once in the life of a Conn, so either may be chosen.
EndClose(g) ==
    /\ pc[g] = "invalidate" /\ job[g] = "close" /\ todo[g] = {}
    /\ open' = open \ {current}
    /\ current' = NoSession
    /\ Unlock
    /\ (Goto(g, "closeConnector") /\ UNCHANGED locals) \/ Return(g)
    /\ UNCHANGED <<connectorClosed, closed, opened, stmts, ddlMu, stmtMu>>

CloseConnector(g) ==
    /\ pc[g] = "closeConnector" \/ (pc[g] = "idle" /\ ~connectorClosed)
    /\ connectorClosed' = TRUE
    /\ Return(g)
    /\ UNCHANGED <<closed, current, open, opened, stmts, mu, ddlMu, stmtMu>>
-----------------------------------------------------------------------------
(* ResetSession of an isolated connector.                                  *)

BeginReset(g) ==
    /\ pc[g] = "idle"
    /\ mu = Free
    /\ ~closed /\ current # NoSession
    /\ Set(g, "connect", "reset", SomeStmt, NoSession, {})
    /\ UNCHANGED <<conn, stmts, mu, ddlMu, stmtMu>>

\* connectNative: fails on a closed connector, a cancelled context or a
\* native error.
Connect(g) ==
    /\ pc[g] = "connect"
    /\ \/ /\ ~connectorClosed /\ opened < MaxSessions
          /\ opened' = opened + 1
          /\ open' = open \union {opened + 1}
          /\ Set(g, "init", "reset", SomeStmt, opened + 1, {})
       \/ Goto(g, "failed") /\ UNCHANGED <<open, opened, locals>>
    /\ UNCHANGED <<connectorClosed, closed, current, stmts, mu, ddlMu, stmtMu>>

Initialize_Mutant(g) ==
    /\ pc[g] = "init"
    /\ Goto(g, "swap") \/ Goto(g, "failed")
    /\ UNCHANGED <<conn, stmts, mu, ddlMu, stmtMu, locals>>

\* The initializer runs on the replacement; if it fails the replacement and
\* then the connection are closed.
Initialize(g) ==
    /\ pc[g] = "init"
    /\ \/ Goto(g, "swap") /\ UNCHANGED <<open, locals>>
       \/ /\ open' = open \ {own[g]}
          /\ Set(g, "failed", "reset", SomeStmt, NoSession, {})
    /\ UNCHANGED <<connectorClosed, closed, current, opened, stmts, mu, ddlMu, stmtMu>>

Swap_Mutant(g) ==
    /\ pc[g] = "swap"
    /\ Lock(g)
    /\ Set(g, "invalidate", "reset", SomeStmt, own[g], ToInvalidate)
    /\ UNCHANGED <<conn, stmts, ddlMu, stmtMu>>

\* The connection may have been closed while the replacement was prepared.
Swap(g) ==
    /\ pc[g] = "swap"
    /\ mu = Free
    /\ IF closed \/ current = NoSession
       THEN open' = open \ {own[g]} /\ Return(g) /\ UNCHANGED mu
       ELSE Lock(g) /\ Set(g, "invalidate", "reset", SomeStmt, own[g], ToInvalidate)
                    /\ UNCHANGED open
    /\ UNCHANGED <<connectorClosed, closed, current, opened, stmts, ddlMu, stmtMu>>

EndSwap(g) ==
    /\ pc[g] = "invalidate" /\ job[g] = "reset" /\ todo[g] = {}
    /\ current' = own[g]
    /\ Set(g, "closeOld", "reset", SomeStmt, current, {})
    /\ Unlock
    /\ UNCHANGED <<connectorClosed, closed, open, opened, stmts, ddlMu, stmtMu>>

CloseOld(g) ==
    /\ pc[g] = "closeOld"
    /\ open' = open \ {own[g]}
    /\ Return(g)
    /\ UNCHANGED <<connectorClosed, closed, current, opened, stmts, mu, ddlMu, stmtMu>>

-----------------------------------------------------------------------------
Begin(g) ==
    \/ \E j \in {"prepare", "query", "call"} : BeginNative(g, j)
    \/ BeginExtension(g)
    \/ \E s \in Stmt : BeginExec(g, s) \/ BeginCloseStmt(g, s)
    \/ BeginReset(g)
    \/ pc[g] = "idle" /\ (CloseConn(g) \/ CloseConnector(g))

\* What a goroutine does once it is inside a call, unless its context is done.
Continue(g) ==
    \/ EnterNative(g) \/ LeavePrepare(g) \/ LeaveQuery(g) \/ LeaveCall(g)
    \/ LockDdl(g) \/ ExecuteDirect(g) \/ CloseReader(g)
    \/ LockExec(g) \/ StartExec(g) \/ FinishExec(g)
    \/ EndCloseStmt(g) \/ EndClose(g)
    \/ \E s \in Stmt : Invalidate(g, s)
    \/ pc[g] # "idle" /\ (CloseConn(g) \/ CloseConnector(g))
    \/ Connect(g) \/ Initialize(g) \/ Swap(g) \/ EndSwap(g) \/ CloseOld(g)

\* A context that is done ends a call; nobody has to cancel one.
Abandon(g) == AbandonDdl(g) \/ AbandonExtension(g)

Next == \E g \in Goroutine : Begin(g) \/ Continue(g) \/ Abandon(g)

Spec == Init /\ [][Next]_vars

(* Go mutexes do not starve a waiter, native calls and initializers        *)
(* return, and readers are closed.  No context has to be cancelled.        *)
FairSpec == Spec /\ \A g \in Goroutine : SF_vars(Continue(g))
-----------------------------------------------------------------------------
TypeOK ==
    /\ connectorClosed \in BOOLEAN /\ closed \in BOOLEAN
    /\ current \in Session \union {NoSession}
    /\ mu \in Goroutine \union {Free} /\ ddlMu \in Goroutine \union {Free}
    /\ prepared \subseteq Stmt /\ stmtClosed \subseteq prepared
    /\ listed \subseteq prepared \ stmtClosed
    /\ native \in [Stmt -> Session \union {NoSession}]
    /\ stmtMu \in [Stmt -> Goroutine \union {Free}]
    /\ open \subseteq Session /\ opened \in Session
    /\ pc \in [Goroutine -> Places]
    /\ job \in [Goroutine -> Jobs]
    /\ stm \in [Goroutine -> Stmt]
    /\ own \in [Goroutine -> Session \union {NoSession}]
    /\ todo \in [Goroutine -> SUBSET Stmt]

\* Goroutines that hold a replacement session no one else can see yet.
Replacing(g) == pc[g] \in {"init", "swap"} \/ (pc[g] = "invalidate" /\ job[g] = "reset")

(* Whenever Conn.mu is free, a native statement belongs to the session of  *)
(* Conn.conn: no cached statement survives a reset on the old session, and *)
(* none outlives a closed Conn (invalidateStatementsLocked and the         *)
(* reprepare of executeArrow, statement.go:88-96).  A closed statement is  *)
(* never in Conn's table again.                                            *)
StatementsFollowSession ==
    /\ mu = Free => \A s \in Stmt : native[s] \in {NoSession, current}
    /\ listed \intersect stmtClosed = {}

(* A native handle in use is not freed: the connection handle under        *)
(* Conn.mu (connection.go:250-251), a statement executed under Stmt.mu.    *)
NoUseAfterFree ==
    \A g \in Goroutine :
        /\ pc[g] = "native" => own[g] \in open
        /\ pc[g] = "exec" => native[stm[g]] = own[g] /\ own[g] # NoSession

(* The native connections not freed are that of Conn.conn and those a      *)
(* ResetSession in progress is about to install or to close: no failure    *)
(* path of a reset, and no race with Close, leaks a session.               *)
NoSessionLeak ==
    open = ({current} \ {NoSession})
           \union {own[g] : g \in {h \in Goroutine : Replacing(h) \/ pc[h] = "closeOld"}}

(* Conn.conn is nil in a closed Conn and only there: PrepareContext and    *)
(* the reprepare of a statement test closed alone, and a ResetSession that *)
(* finishes after Close does not give the Conn a session again.            *)
UsableUntilClosed ==
    IF closed THEN mu = Free => current = NoSession ELSE current \in open

(* No goroutine waits for ever on Conn.mu, Stmt.mu and ddlMu               *)
(* (docs/architecture.md:61-64), a registration that waits for Conn.mu with*)
(* ddlMu held included: every call returns, with readers closed and no     *)
(* context cancelled.                                                      *)
CallsReturn == \A g \in Goroutine : pc[g] # "idle" ~> pc[g] = "idle"

-----------------------------------------------------------------------------
(* The abstract connection.                                                *)

Bound(g) == pc[g] \in {"direct", "exec", "reader"} \/ (pc[g] = "wantDdl" /\ job[g] = "query")

CurrentSession == IF closed THEN NoSession ELSE current

Retired == (1 .. opened) \ ({current} \union {own[g] : g \in {h \in Goroutine : Replacing(h)}})

BoundTo == [g \in Goroutine |-> IF Bound(g) THEN own[g] ELSE NoSession]

Contract == INSTANCE SessionContract
    WITH session <- CurrentSession, retired <- Retired, bound <- BoundTo

(* Work binds to the session that is current at that moment, a reset       *)
(* installs a session never current before, in one step, and closing is    *)
(* final even against a concurrent ResetSession.                           *)
ImplementsSessionContract == Contract!ContractSpec
=============================================================================
