--------------------------------- MODULE Pool ---------------------------------
(***************************************************************************)
(* connection.go, datafusion.go: the life of the driver's connections in   *)
(* the pool of database/sql.  A connection that comes back is offered      *)
(* again; before it is lent the pool calls ResetSession, gives up a        *)
(* connection whose reset returned driver.ErrBadConn, and lends it after   *)
(* any other answer.  The context was live when the pool last looked at    *)
(* it, but may be cancelled by the time ResetSession runs.                 *)
(*                                                                         *)
(* The pool is not part of the repository; it is modelled from what the    *)
(* driver relies on.  A connection is used by one client at a time here,   *)
(* so ResetSession is one step: module Connection has its inner steps.     *)
(***************************************************************************)
CONSTANTS Client,     \* those who borrow a connection, one at a time
          Conn,       \* the places of the pool
          Connector,  \* stands for the one session of a shared connector
          Nobody      \* the borrower of a connection that is not lent

ASSUME PoolAssumption == Connector \notin Conn /\ Nobody \notin Client

VARIABLES sharedSession,    \* the connector option, fixed
          connectorClosed,  \* Connector.closed
          place,            \* of each connection: "absent", "free", "reset", "lent"
          borrower,         \* who has it, or waits for its reset
          ctxDone,          \* the borrowers whose acquiring context is done
          unreset,          \* those whose ResetSession returned the context's error
          used,             \* clients that left state in each session
          initialized       \* the sessions the initializer succeeded on

poolVars == <<sharedSession, connectorClosed, place, borrower, ctxDone, unreset, used, initialized>>

Session == Conn \union {Connector}

\* The session behind a connection: all share one, or each has its own.
SessionOf(k) == IF sharedSession THEN Connector ELSE k

PoolInit ==
    /\ sharedSession \in BOOLEAN
    /\ connectorClosed = FALSE
    /\ place = [k \in Conn |-> "absent"]
    /\ borrower = [k \in Conn |-> Nobody]
    /\ ctxDone = {} /\ unreset = {}
    /\ used = [s \in Session |-> {}]
    /\ initialized = {}

Move(k, where, c) ==
    /\ place' = [place EXCEPT ![k] = where]
    /\ borrower' = [borrower EXCEPT ![k] = c]

Borrowing(c) == \E k \in Conn : borrower[k] = c

\* Connector.Connect: a new session is initialized, the shared one if no
\* earlier Connect has done it.  One that fails leaves nothing behind.
Connect(c, k) ==
    /\ ~Borrowing(c)
    /\ place[k] = "absent" /\ ~connectorClosed
    /\ used' = IF sharedSession THEN used ELSE [used EXCEPT ![k] = {}]
    /\ initialized' = initialized \union {SessionOf(k)}
    /\ Move(k, "lent", c)
    /\ UNCHANGED <<sharedSession, connectorClosed, ctxDone, unreset>>

\* The pool takes a free connection for a caller whose context is live.
Acquire(c, k) ==
    /\ ~Borrowing(c)
    /\ place[k] = "free"
    /\ Move(k, "reset", c)
    /\ UNCHANGED <<sharedSession, connectorClosed, ctxDone, unreset, used, initialized>>

Cancel(c) ==
    /\ \E k \in Conn : place[k] = "reset" /\ borrower[k] = c
    /\ ctxDone' = ctxDone \union {c}
    /\ UNCHANGED <<sharedSession, connectorClosed, place, borrower, unreset, used, initialized>>

\* ResetSession looks at the context first and returns its error; the pool
\* only recognizes driver.ErrBadConn.
ResetCancelled(k) ==
    /\ place[k] = "reset"
    /\ borrower[k] \in ctxDone
    /\ Move(k, "lent", borrower[k])
    /\ unreset' = unreset \union {borrower[k]}
    /\ UNCHANGED <<sharedSession, connectorClosed, ctxDone, used, initialized>>

ResetSucceeds_Mutant(k) ==
    /\ place[k] = "reset"
    /\ borrower[k] \notin ctxDone
    /\ ~connectorClosed
    /\ Move(k, "lent", borrower[k])
    /\ UNCHANGED <<sharedSession, connectorClosed, ctxDone, unreset, used, initialized>>

\* A shared session is kept; an isolated one is replaced by an initialized
\* session.
ResetSucceeds(k) ==
    /\ place[k] = "reset"
    /\ borrower[k] \notin ctxDone
    /\ ~connectorClosed
    /\ used' = IF sharedSession THEN used ELSE [used EXCEPT ![k] = {}]
    /\ initialized' = initialized \union {SessionOf(k)}
    /\ Move(k, "lent", borrower[k])
    /\ UNCHANGED <<sharedSession, connectorClosed, ctxDone, unreset>>

ResetFails_MutantNotBadConn(k) ==
    /\ place[k] = "reset"
    /\ sharedSession => connectorClosed /\ borrower[k] \notin ctxDone
    /\ Move(k, "lent", borrower[k])
    /\ initialized' = IF sharedSession THEN initialized ELSE initialized \ {k}
    /\ UNCHANGED <<sharedSession, connectorClosed, ctxDone, unreset, used>>

\* driver.ErrBadConn: the connector is closed or, for an isolated session,
\* connectNative or the initializer failed, perhaps because the context
\* ended after the first look.  The connection closes.
ResetFails(k) ==
    /\ place[k] = "reset"
    /\ sharedSession => connectorClosed /\ borrower[k] \notin ctxDone
    /\ Move(k, "absent", Nobody)
    /\ ctxDone' = ctxDone \ {borrower[k]}
    /\ initialized' = IF sharedSession THEN initialized ELSE initialized \ {k}
    /\ UNCHANGED <<sharedSession, connectorClosed, unreset, used>>

\* A statement of the borrower changes the session.
Use(k) ==
    /\ place[k] = "lent"
    /\ used' = [used EXCEPT ![SessionOf(k)] = @ \union {borrower[k]}]
    /\ UNCHANGED <<sharedSession, connectorClosed, place, borrower, ctxDone, unreset, initialized>>

\* The pool keeps a connection that IsValid, or closes it for its own reasons.
Return(k) ==
    /\ place[k] = "lent"
    /\ ctxDone' = ctxDone \ {borrower[k]}
    /\ unreset' = unreset \ {borrower[k]}
    /\ \/ Move(k, "free", Nobody) /\ UNCHANGED initialized
       \/ /\ Move(k, "absent", Nobody)
          /\ initialized' = IF sharedSession THEN initialized ELSE initialized \ {k}
    /\ UNCHANGED <<sharedSession, connectorClosed, used>>

CloseConnector ==
    /\ ~connectorClosed
    /\ connectorClosed' = TRUE
    /\ UNCHANGED <<sharedSession, place, borrower, ctxDone, unreset, used, initialized>>

PoolNext ==
    \/ \E c \in Client : Cancel(c) \/ \E k \in Conn : Connect(c, k) \/ Acquire(c, k)
    \/ \E k \in Conn : ResetCancelled(k) \/ ResetSucceeds(k) \/ ResetFails(k) \/ Use(k) \/ Return(k)
    \/ CloseConnector

PoolSpec == PoolInit /\ [][PoolNext]_poolVars
-----------------------------------------------------------------------------
PoolTypeOK ==
    /\ sharedSession \in BOOLEAN /\ connectorClosed \in BOOLEAN
    /\ place \in [Conn -> {"absent", "free", "reset", "lent"}]
    /\ borrower \in [Conn -> Client \union {Nobody}]
    /\ ctxDone \subseteq Client /\ unreset \subseteq Client
    /\ used \in [Session -> SUBSET Client]
    /\ initialized \subseteq Session
    /\ \A k \in Conn : place[k] = "absent" => k \notin initialized

(* A client never works on a session whose initializer failed or did not   *)
(* run, after a failed reset by an earlier client and after a Connect      *)
(* alike (connection.go:144-155, docs/architecture.md:66-71).              *)
LentSessionInitialized == \A k \in Conn : place[k] = "lent" => SessionOf(k) \in initialized

(* A client for whom ResetSession returned nil finds nothing another       *)
(* client left in its isolated session, whatever was cancelled, failed or  *)
(* closed before.                                                          *)
ResetIsolates ==
    ~sharedSession =>
        \A k \in Conn : place[k] = "lent" /\ borrower[k] \notin unreset
                           => used[k] \subseteq {borrower[k]}

(* "The driver resets isolated sessions" on reuse (README.md:159), and a   *)
(* failed reset "makes the connection unusable" (docs/architecture.md:70): *)
(* no client finds another one's state in an isolated session.             *)
LentSessionIsFresh ==
    ~sharedSession => \A k \in Conn : place[k] = "lent" => used[k] \subseteq {borrower[k]}
=============================================================================
