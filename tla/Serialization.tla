----------------------------- MODULE Serialization -----------------------------
(***************************************************************************)
(* execution.go, arrow.go, extensions.go: how calls that change a session  *)
(* are serialized.  A mutating statement and the registration of a Go      *)
(* extension take the same lock: Connector.ddlMu when connections share    *)
(* one session, Conn.ddlMu when each has its own.  A registration frees it *)
(* when it returns; a statement hands it to its result reader, and the     *)
(* first Close of the reader, by whoever makes it, frees it.               *)
(*                                                                         *)
(* What is followed in the session is its list of catalogs: CREATE         *)
(* DATABASE ("create") and RegisterCatalog ("extension") both look the     *)
(* name up and then insert it, replacing an entry that appeared between    *)
(* the two.  Any other mutation is a "statement".                          *)
(***************************************************************************)
CONSTANTS Call,       \* the concurrent calls, each with a context of its own
          Conn,       \* the connections of one connector
          Name,       \* catalog names
          Closer,     \* who may close a reader: client, Rows, finalizer
          Connector,  \* stands for the lock and the session all Conns share
          Free,       \* the holder of a free lock
          Nobody      \* the creator of a catalog that does not exist

ASSUME SerializationAssumption ==
    /\ Connector \notin Conn /\ Free \notin Call /\ Nobody \notin Call
    /\ Conn # {} /\ Name # {}

Scope == Conn \union {Connector}

VARIABLES sharedSession,  \* the connector option, fixed
          lock,           \* holder of the mutation lock of each scope
          catalog,        \* who created each catalog, in each session
          cancelled,      \* the calls whose context is done
          pc, target,     \* place of each call; the connection and name it is for
          kind,           \* what each call does
          once,           \* the sync.Once of the call's reader
          closers         \* those who have not called Close on that reader yet

vars == <<sharedSession, lock, catalog, cancelled, pc, target, kind, once, closers>>
reader == <<once, closers>>

Kinds == {"create", "statement", "extension"}
Places == {"idle", "want", "lookup", "insert", "reader"}

\* The session of a connection.
SessionOf(c) == IF sharedSession THEN Connector ELSE target[c].conn

\* runArrowQuery, with lockSerializedStatement, and withExtension choose the
\* same lock.
LockOf_Mutant(c) ==
    IF sharedSession /\ kind[c] # "extension" THEN Connector ELSE target[c].conn

LockOf(c) == IF sharedSession THEN Connector ELSE target[c].conn

Target == [conn : Conn, name : Name]
NoTarget == CHOOSE t \in Target : TRUE

Init ==
    /\ sharedSession \in BOOLEAN
    /\ lock = [l \in Scope |-> Free]
    /\ catalog = [l \in Scope |-> [n \in Name |-> Nobody]]
    /\ cancelled = {}
    /\ pc = [c \in Call |-> "idle"]
    /\ target = [c \in Call |-> NoTarget]
    /\ kind = [c \in Call |-> "statement"]
    /\ once = [c \in Call |-> "unused"]
    /\ closers = [c \in Call |-> {}]

Goto(c, place) == pc' = [pc EXCEPT ![c] = place]

\* The call is over: what it kept is forgotten.
Return(c) ==
    /\ Goto(c, "idle")
    /\ target' = [target EXCEPT ![c] = NoTarget]
    /\ kind' = [kind EXCEPT ![c] = "statement"]
    /\ cancelled' = cancelled \ {c}
    /\ once' = [once EXCEPT ![c] = "unused"]
    /\ closers' = [closers EXCEPT ![c] = {}]

\* Unlock receives from the channel: it frees the lock whoever holds it.
Unlock(l) == lock' = [lock EXCEPT ![l] = Free]

Begin(c, t, k) ==
    /\ pc[c] = "idle"
    /\ target' = [target EXCEPT ![c] = t]
    /\ kind' = [kind EXCEPT ![c] = k]
    /\ Goto(c, "want")
    /\ UNCHANGED <<sharedSession, lock, catalog, cancelled, reader>>

Cancel(c) ==
    /\ pc[c] # "idle" /\ c \notin cancelled
    /\ cancelled' = cancelled \union {c}
    /\ UNCHANGED <<sharedSession, lock, catalog, pc, target, kind, reader>>

\* contextMutex.Lock, as CancellableLock describes it.
Lock(c) ==
    /\ pc[c] = "want"
    /\ c \notin cancelled
    /\ lock[LockOf(c)] = Free
    /\ lock' = [lock EXCEPT ![LockOf(c)] = c]
    /\ Goto(c, "lookup")
    /\ UNCHANGED <<sharedSession, catalog, cancelled, target, kind, reader>>

GiveUp(c) ==
    /\ pc[c] = "want" /\ c \in cancelled
    /\ Return(c)
    /\ UNCHANGED <<sharedSession, lock, catalog>>

\* The name is looked up.  A call that fails here or later (a cancelled
\* context, a closed connection, a name in use) frees the lock.
LookUp(c) ==
    /\ pc[c] = "lookup"
    /\ c \notin cancelled
    /\ kind[c] = "statement" \/ catalog[SessionOf(c)][target[c].name] = Nobody
    /\ Goto(c, "insert")
    /\ UNCHANGED <<sharedSession, lock, catalog, cancelled, target, kind, reader>>

Fail_Mutant(c) ==
    /\ pc[c] \in {"lookup", "insert"}
    /\ Return(c)
    /\ UNCHANGED <<sharedSession, lock, catalog>>

Fail(c) ==
    /\ pc[c] \in {"lookup", "insert"}
    /\ Unlock(LockOf(c))
    /\ Return(c)
    /\ UNCHANGED <<sharedSession, catalog>>

Inserted(c) == catalog' = [catalog EXCEPT ![SessionOf(c)][target[c].name] = c]

\* withExtension frees the lock when it returns.
Register(c) ==
    /\ pc[c] = "insert" /\ kind[c] = "extension"
    /\ Inserted(c)
    /\ Unlock(LockOf(c))
    /\ Return(c)
    /\ UNCHANGED sharedSession

\* runArrowQuery wraps the result in a serializedArrowReader.
Execute(c) ==
    /\ pc[c] = "insert" /\ kind[c] # "extension"
    /\ IF kind[c] = "create" THEN Inserted(c) ELSE UNCHANGED catalog
    /\ closers' = [closers EXCEPT ![c] = Closer]
    /\ Goto(c, "reader")
    /\ UNCHANGED <<sharedSession, lock, cancelled, target, kind, once>>

Close_Mutant(c, k) ==
    /\ pc[c] = "reader"
    /\ k \in closers[c]
    /\ closers' = [closers EXCEPT ![c] = @ \ {k}]
    /\ once' = [once EXCEPT ![c] = "running"]
    /\ UNCHANGED <<sharedSession, lock, catalog, cancelled, pc, target, kind>>

\* once.Do: the first Close runs the body, the others only return.
Close(c, k) ==
    /\ pc[c] = "reader"
    /\ k \in closers[c]
    /\ closers' = [closers EXCEPT ![c] = @ \ {k}]
    /\ once' = [once EXCEPT ![c] = IF @ = "unused" THEN "running" ELSE @]
    /\ UNCHANGED <<sharedSession, lock, catalog, cancelled, pc, target, kind>>

\* The body, once the inner reader is closed.
ReleaseLock(c) ==
    /\ once[c] = "running"
    /\ Unlock(LockOf(c))
    /\ once' = [once EXCEPT ![c] = "done"]
    /\ UNCHANGED <<sharedSession, catalog, cancelled, pc, target, kind, closers>>

\* The closed reader is dropped, perhaps before everyone closed it.
Drop(c) ==
    /\ pc[c] = "reader" /\ once[c] = "done"
    /\ Return(c)
    /\ UNCHANGED <<sharedSession, lock, catalog>>

Run(c) ==
    \/ GiveUp(c) \/ LookUp(c) \/ Fail(c) \/ Register(c) \/ Execute(c)
    \/ ReleaseLock(c) \/ Drop(c) \/ \E k \in Closer : Close(c, k)

Next == \E c \in Call :
    \/ \E t \in Target, k \in Kinds : Begin(c, t, k)
    \/ Cancel(c) \/ Lock(c) \/ Run(c)

Spec == Init /\ [][Next]_vars

(* Native calls return and readers are closed; a blocked sender of the     *)
(* lock's channel is served in order of arrival.                           *)
FairSpec == Spec /\ \A c \in Call : WF_vars(Run(c)) /\ SF_vars(Lock(c))

-----------------------------------------------------------------------------
TypeOK ==
    /\ sharedSession \in BOOLEAN
    /\ lock \in [Scope -> Call \union {Free}]
    /\ catalog \in [Scope -> [Name -> Call \union {Nobody}]]
    /\ \A k \in Conn : sharedSession => catalog[k] = [n \in Name |-> Nobody]
    /\ cancelled \subseteq Call
    /\ pc \in [Call -> Places]
    /\ target \in [Call -> Target]
    /\ kind \in [Call -> Kinds]
    /\ once \in [Call -> {"unused", "running", "done"}]
    /\ closers \in [Call -> SUBSET Closer]

\* From the lock on, until the registration returns or the reader's body ends.
Mutating(c) == pc[c] \in {"lookup", "insert"} \/ (pc[c] = "reader" /\ once[c] # "done")

(* The lock of a session is held by exactly the call that is mutating it   *)
(* or whose result is open: a failure frees it, a second Close of a reader *)
(* (rows.go, database/sql, the finalizer) never frees the lock of a later  *)
(* statement (arrow.go:252-258, docs/architecture.md:62-64).               *)
LockFollowsCall ==
    /\ \A c \in Call : Mutating(c) => lock[LockOf(c)] = c
    /\ \A l \in Scope : lock[l] # Free => Mutating(lock[l]) /\ LockOf(lock[l]) = l

(* A catalog is never replaced, whichever connections create it at the     *)
(* same time: the duplicate check and the publication are one operation    *)
(* (extensions.go:222-224).                                                *)
CatalogsKept ==
    [][\A l \in Scope, n \in Name :
          catalog[l][n] # Nobody => catalog'[l][n] = catalog[l][n]]_catalog

(* Every mutation gets its turn once open results are closed.              *)
MutationsReturn == \A c \in Call : pc[c] # "idle" ~> pc[c] = "idle"
=============================================================================
