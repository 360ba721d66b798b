----------------------------- MODULE ContextMutex -----------------------------
(***************************************************************************)
(* context_mutex.go: a mutex made of a channel of capacity one, whose wait *)
(* also listens to the caller's context.  A send into the channel takes    *)
(* the lock, a receive frees it.  When both the send and the context are   *)
(* ready, Go's select takes either; a Lock that has sent looks at its      *)
(* context once more and gives the token back if it was cancelled.         *)
(***************************************************************************)
EXTENDS Naturals

CONSTANTS Caller, NoOwner

ASSUME OwnerAssumption == NoOwner \notin Caller

VARIABLES held,       \* number of elements in the channel
          cancelled,  \* the callers whose context is done
          pc          \* where each caller is in Lock and Unlock

vars == <<held, cancelled, pc>>

Places == {"idle", "entry", "select", "recheck", "undo", "held"}

\* make(chan struct{}, 1)
Capacity == 1

Goto(c, place) == pc' = [pc EXCEPT ![c] = place]

Init == held = 0 /\ cancelled = {} /\ pc = [c \in Caller |-> "idle"]

\* Each Lock brings a context of its own, which may be cancelled already.
Call(c) ==
    /\ pc[c] = "idle"
    /\ cancelled' \in {cancelled \ {c}, cancelled \union {c}}
    /\ Goto(c, "entry")
    /\ UNCHANGED held

Cancel(c) ==
    /\ pc[c] # "idle"
    /\ c \notin cancelled
    /\ cancelled' = cancelled \union {c}
    /\ UNCHANGED <<held, pc>>

\* Lock's first test of ctx.Err(), then the select.
Enter(c) ==
    /\ pc[c] = "entry"
    /\ Goto(c, IF c \in cancelled THEN "idle" ELSE "select")
    /\ UNCHANGED <<held, cancelled>>

Send(c) ==
    /\ pc[c] = "select"
    /\ held < Capacity
    /\ held' = held + 1
    /\ Goto(c, "recheck")
    /\ UNCHANGED cancelled

Done_Mutant(c) == FALSE /\ UNCHANGED vars

Done(c) ==
    /\ pc[c] = "select"
    /\ c \in cancelled
    /\ Goto(c, "idle")
    /\ UNCHANGED <<held, cancelled>>

Recheck_MutantKeepsToken(c) ==
    /\ pc[c] = "recheck"
    /\ Goto(c, IF c \in cancelled THEN "idle" ELSE "held")
    /\ UNCHANGED <<held, cancelled>>

Recheck_MutantIgnoresContext(c) ==
    /\ pc[c] = "recheck"
    /\ Goto(c, "held")
    /\ UNCHANGED <<held, cancelled>>

\* The context is looked at again: select may prefer the send.
Recheck(c) ==
    /\ pc[c] = "recheck"
    /\ Goto(c, IF c \in cancelled THEN "undo" ELSE "held")
    /\ UNCHANGED <<held, cancelled>>

\* Unlock receives from the channel, whoever filled it, and would block on an
\* empty one.
Unlock(c) ==
    /\ pc[c] \in {"undo", "held"}
    /\ held > 0
    /\ held' = held - 1
    /\ Goto(c, "idle")
    /\ UNCHANGED cancelled

Lock(c) == Enter(c) \/ Send(c) \/ Done(c) \/ Recheck(c)

Next == \E c \in Caller : Call(c) \/ Cancel(c) \/ Lock(c) \/ Unlock(c)

Spec == Init /\ [][Next]_vars

-----------------------------------------------------------------------------
(* Fairness.  A goroutine inside Lock runs; a blocked sender of a channel  *)
(* is served in order of arrival, so one that could send infinitely often  *)
(* does.  Nothing makes an owner call Unlock.                              *)

FairSpec ==
    /\ Spec
    /\ \A c \in Caller :
          /\ WF_vars(Enter(c) \/ Done(c) \/ Recheck(c))
          /\ WF_vars(pc[c] = "undo" /\ Unlock(c))
          /\ SF_vars(Send(c))

-----------------------------------------------------------------------------
TypeOK ==
    /\ held \in 0 .. 1
    /\ cancelled \subseteq Caller
    /\ pc \in [Caller -> Places]

\* The callers the element in the channel can belong to.
Holders == {c \in Caller : pc[c] \in {"recheck", "undo", "held"}}

(* The channel is full exactly while one Lock has sent and not yet given   *)
(* back: the cancelled-after-send path (context_mutex.go:20-23) neither    *)
(* keeps the token nor frees someone else's.                               *)
TokenInv ==
    /\ \A c, d \in Holders : c = d
    /\ held = 1 <=> Holders # {}

(* A cancelled wait ends (context_mutex.go:26) even if the owner never     *)
(* unlocks, and if owners unlock, every Lock returns, whoever is cancelled *)
(* in between.                                                             *)
LockReturns ==
    /\ \A c \in Caller : pc[c] = "select" /\ c \in cancelled ~> pc[c] = "idle"
    /\ (\A c \in Caller : []<>(pc[c] # "held"))
        => \A c \in Caller : pc[c] = "entry" ~> pc[c] \in {"idle", "held"}

-----------------------------------------------------------------------------
(* The promise: ownership starts when Lock returns nil.                    *)

Owner == IF \E c \in Caller : pc[c] = "held"
         THEN CHOOSE c \in Caller : pc[c] = "held"
         ELSE NoOwner

Waiting == {c \in Caller : pc[c] \in {"select", "recheck", "undo"}}

Promise == INSTANCE CancellableLock WITH owner <- Owner, waiting <- Waiting

ImplementsCancellableLock == Promise!LockSpec
=============================================================================
