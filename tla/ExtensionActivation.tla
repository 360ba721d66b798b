-------------------------- MODULE ExtensionActivation --------------------------
(***************************************************************************)
(* internal/native/native.go: the first registration of a Go extension in  *)
(* a database.  Until then an execution carries no callback context, and   *)
(* holds extensionState.planning for reading while it plans; RegisterGo    *)
(* waits for such plans, sets the flag and only then publishes.  It waits  *)
(* with Conn.mu held, and a prepared execution takes the read lock with    *)
(* Stmt.mu held, so those mutexes, of every connection of the database,    *)
(* are here too.  The mutation lock is not: it is taken before all others. *)
(*                                                                         *)
(* A sync.RWMutex lets no new reader in once a writer waits.               *)
(***************************************************************************)
CONSTANTS Goroutine,
          Conn,    \* the connections, each with one prepared statement
          Free     \* the holder of a free mutex

ASSUME ActivationAssumption == Free \notin Goroutine /\ Conn # {}

VARIABLES active,     \* extensionState.active
          writer,     \* who waits for or holds planning for writing
          readers,    \* who holds planning for reading
          published,  \* some extension is registered
          mu, stmtMu, \* holders of each Conn.mu and of its Stmt.mu
          pc, job, conn,
          callbacks   \* whether the execution's token has a callback context

vars == <<active, writer, readers, published, mu, stmtMu, pc, job, conn, callbacks>>
planning == <<active, writer, readers, published>>
mutexes == <<mu, stmtMu>>
locals == <<job, conn, callbacks>>

Jobs == {"direct", "prepared", "register", "close"}
Places == {"idle", "conn", "stmt", "load", "rlock", "choose", "plan",
           "check", "lock", "drain", "store", "unlock", "publish"}

SomeConn == CHOOSE k \in Conn : TRUE

Init ==
    /\ active = FALSE /\ published = FALSE
    /\ writer = Free /\ readers = {}
    /\ mu = [k \in Conn |-> Free] /\ stmtMu = [k \in Conn |-> Free]
    /\ pc = [g \in Goroutine |-> "idle"]
    /\ job = [g \in Goroutine |-> "direct"]
    /\ conn = [g \in Goroutine |-> SomeConn]
    /\ callbacks = [g \in Goroutine |-> FALSE]

Goto(g, place) == pc' = [pc EXCEPT ![g] = place]

Set(g, place, j, k, b) ==
    /\ Goto(g, place)
    /\ job' = [job EXCEPT ![g] = j]
    /\ conn' = [conn EXCEPT ![g] = k]
    /\ callbacks' = [callbacks EXCEPT ![g] = b]

Return(g) == Set(g, "idle", "direct", SomeConn, FALSE)

Begin(g, j, k) ==
    /\ pc[g] = "idle"
    /\ Set(g, "conn", j, k, FALSE)
    /\ UNCHANGED <<planning, mutexes>>

-----------------------------------------------------------------------------
(* Conn.mu and Stmt.mu, by withNative, executeArrow and Close.             *)

\* A direct query executes its temporary statement with no mutex held.  Any
\* call may fail here: closed handle, SQL or extension name refused.
LockConn(g) ==
    /\ pc[g] = "conn"
    /\ mu[conn[g]] = Free
    /\ \/ /\ job[g] = "direct"
          /\ Set(g, "load", "direct", SomeConn, FALSE) /\ UNCHANGED mu
       \/ /\ job[g] # "direct"
          /\ mu' = [mu EXCEPT ![conn[g]] = g]
          /\ Goto(g, IF job[g] = "register" THEN "check" ELSE "stmt")
          /\ UNCHANGED locals
       \/ Return(g) /\ UNCHANGED mu
    /\ UNCHANGED <<planning, stmtMu>>

\* A prepared execution keeps Stmt.mu, unless it cannot be prepared again;
\* Close and ResetSession only pass by.
LockStmt(g) ==
    /\ pc[g] = "stmt"
    /\ stmtMu[conn[g]] = Free
    /\ mu' = [mu EXCEPT ![conn[g]] = Free]
    /\ \/ /\ job[g] = "prepared"
          /\ stmtMu' = [stmtMu EXCEPT ![conn[g]] = g]
          /\ Goto(g, "load") /\ UNCHANGED locals
       \/ /\ job[g] \in {"prepared", "close"}
          /\ Return(g) /\ UNCHANGED stmtMu
    /\ UNCHANGED planning

-----------------------------------------------------------------------------
(* ExecuteArrow.                                                           *)

Load(g) ==
    /\ pc[g] = "load"
    /\ Goto(g, IF active THEN "choose" ELSE "rlock")
    /\ UNCHANGED <<planning, mutexes, locals>>

RLock_Mutant(g) ==
    /\ pc[g] = "rlock"
    /\ writer = Free \/ \E h \in Goroutine : writer = h /\ pc[h] = "drain"
    /\ readers' = readers \union {g}
    /\ Goto(g, "choose")
    /\ UNCHANGED <<active, writer, published, mutexes, locals>>

RLock(g) ==
    /\ pc[g] = "rlock"
    /\ writer = Free
    /\ readers' = readers \union {g}
    /\ Goto(g, "choose")
    /\ UNCHANGED <<active, writer, published, mutexes, locals>>

Choose_Mutant(g) ==
    /\ pc[g] = "choose"
    /\ callbacks' = [callbacks EXCEPT ![g] = g \notin readers]
    /\ Goto(g, "plan")
    /\ UNCHANGED <<planning, mutexes, job, conn>>

\* The flag is loaded again: the lock may have been waited for.
Choose(g) ==
    /\ pc[g] = "choose"
    /\ callbacks' = [callbacks EXCEPT ![g] = active]
    /\ Goto(g, "plan")
    /\ UNCHANGED <<planning, mutexes, job, conn>>

\* The plan is made and its execution started, or any of it failed: the
\* context or the arguments ("load"), the token ("choose"), the plan.
Finish(g) ==
    /\ pc[g] \in {"load", "choose", "plan"}
    /\ readers' = readers \ {g}
    /\ stmtMu' = [k \in Conn |-> IF stmtMu[k] = g THEN Free ELSE stmtMu[k]]
    /\ Return(g)
    /\ UNCHANGED <<active, writer, published, mu>>

-----------------------------------------------------------------------------
(* RegisterGo.                                                             *)

Check(g) ==
    /\ pc[g] = "check"
    /\ Goto(g, IF active THEN "publish" ELSE "lock")
    /\ UNCHANGED <<planning, mutexes, locals>>

Announce(g) ==
    /\ pc[g] = "lock"
    /\ writer = Free /\ writer' = g
    /\ Goto(g, "drain")
    /\ UNCHANGED <<active, readers, published, mutexes, locals>>

Drain(g) ==
    /\ pc[g] = "drain"
    /\ readers = {}
    /\ Goto(g, "store")
    /\ UNCHANGED <<planning, mutexes, locals>>

Store(g) ==
    /\ pc[g] = "store"
    /\ active' = TRUE
    /\ Goto(g, "unlock")
    /\ UNCHANGED <<writer, readers, published, mutexes, locals>>

Unlock(g) ==
    /\ pc[g] = "unlock"
    /\ writer' = Free
    /\ Goto(g, "publish")
    /\ UNCHANGED <<active, readers, published, mutexes, locals>>

\* dfgo_connection_register_go, which may refuse.
Publish(g) ==
    /\ pc[g] = "publish"
    /\ published' \in {published, TRUE}
    /\ mu' = [mu EXCEPT ![conn[g]] = Free]
    /\ Return(g)
    /\ UNCHANGED <<active, writer, readers, stmtMu>>

-----------------------------------------------------------------------------
Continue(g) ==
    \/ LockConn(g) \/ LockStmt(g)
    \/ Load(g) \/ RLock(g) \/ Choose(g) \/ Finish(g)
    \/ Check(g) \/ Announce(g) \/ Drain(g) \/ Store(g) \/ Unlock(g) \/ Publish(g)

Next == \E g \in Goroutine :
    \/ \E j \in Jobs, k \in Conn : Begin(g, j, k)
    \/ Continue(g)

Spec == Init /\ [][Next]_vars

(* Native calls return, plans without callbacks included, and Go's mutexes *)
(* starve no one.                                                          *)
FairSpec == Spec /\ \A g \in Goroutine : SF_vars(Continue(g))

-----------------------------------------------------------------------------
TypeOK ==
    /\ active \in BOOLEAN /\ published \in BOOLEAN
    /\ writer \in {Free} \union {g \in Goroutine : pc[g] \in {"drain", "store", "unlock"}}
    /\ readers \subseteq {g \in Goroutine : pc[g] \in {"choose", "plan"}}
    /\ mu \in [Conn -> Goroutine \union {Free}]
    /\ stmtMu \in [Conn -> Goroutine \union {Free}]
    /\ pc \in [Goroutine -> Places]
    /\ job \in [Goroutine -> Jobs]
    /\ conn \in [Goroutine -> Conn]
    /\ callbacks \in [Goroutine -> BOOLEAN]

(* No plan without a callback context is under way once an extension is    *)
(* published: it could resolve a Go table and have no context to call it   *)
(* with (native.go:153-155, docs/architecture.md:109-110).                 *)
PlansHaveCallbacks ==
    published => \A g \in Goroutine : pc[g] = "plan" => callbacks[g]

(* A registration that waits for plans with Conn.mu held, the executions   *)
(* it keeps out with Stmt.mu held, and Close or ResetSession which needs   *)
(* both, never wait in a circle; and plans that keep arriving do not       *)
(* starve a registration.                                                  *)
CallsReturn == \A g \in Goroutine : pc[g] # "idle" ~> pc[g] = "idle"
=============================================================================
