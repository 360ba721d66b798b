--------------------------- MODULE CancellableLock ---------------------------
(***************************************************************************)
(* What contextMutex promises its callers: a lock with at most one owner,  *)
(* whose requests end with ownership while their context is live, or with  *)
(* an error and no ownership once it is cancelled.                         *)
(***************************************************************************)
CONSTANTS Caller,   \* the goroutines that use the lock
          NoOwner   \* the owner of a free lock

VARIABLES owner,      \* the caller between a successful Lock and its Unlock
          waiting,    \* the callers whose Lock has not returned
          cancelled   \* the callers whose context is done

lockVars == <<owner, waiting, cancelled>>

LockInit == owner = NoOwner /\ waiting = {} /\ cancelled = {}

\* The context belongs to one request: it may be replaced between requests.
ContextChange(c) ==
    /\ cancelled' \in {cancelled \ {c}, cancelled \union {c}}
    /\ c \in waiting \union {owner} => cancelled \subseteq cancelled'
    /\ UNCHANGED <<owner, waiting>>

Request(c) ==
    /\ owner # c
    /\ c \notin waiting \union cancelled
    /\ waiting' = waiting \union {c}
    /\ UNCHANGED <<owner, cancelled>>

Grant(c) ==
    /\ owner = NoOwner
    /\ c \in waiting \ cancelled
    /\ owner' = c
    /\ waiting' = waiting \ {c}
    /\ UNCHANGED cancelled

GiveUp(c) ==
    /\ c \in waiting \intersect cancelled
    /\ waiting' = waiting \ {c}
    /\ UNCHANGED <<owner, cancelled>>

Release(c) ==
    /\ owner = c
    /\ owner' = NoOwner
    /\ UNCHANGED <<waiting, cancelled>>

LockNext == \E c \in Caller :
    ContextChange(c) \/ Request(c) \/ Grant(c) \/ GiveUp(c) \/ Release(c)

LockSpec == LockInit /\ [][LockNext]_lockVars
=============================================================================
