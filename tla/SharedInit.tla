------------------------------ MODULE SharedInit ------------------------------
(***************************************************************************)
(* datafusion.go, Connector.Connect with a shared session: every caller    *)
(* opens a native connection to the one session, then makes sure that the  *)
(* initializer has succeeded once.  sharedInitMu, a contextMutex, is held  *)
(* while the initializer runs; a failed initializer leaves the flag unset  *)
(* and the next caller runs it again.                                      *)
(***************************************************************************)
EXTENDS Naturals

CONSTANTS Caller,      \* goroutines that call Connect, one call at a time
          Free         \* the holder of the free sharedInitMu

ASSUME SharedInitAssumption == Free \notin Caller

VARIABLES closed,             \* Connector.closed
          sharedInitialized,  \* Connector.sharedInitialized
          sharedInitMu,       \* its holder
          successes,          \* initializer runs that returned nil (history)
          handles,            \* callers whose native connection is open
          cancelled,          \* callers whose context is done
          pc

vars == <<closed, sharedInitialized, sharedInitMu, successes, handles, cancelled, pc>>

Places == {"idle", "open", "entry", "want", "locked", "init", "mark", "fail", "connected"}

Init ==
    /\ closed = FALSE /\ sharedInitialized = FALSE
    /\ sharedInitMu = Free
    /\ successes = 0
    /\ handles = {} /\ cancelled = {}
    /\ pc = [g \in Caller |-> "idle"]

Goto(g, place) == pc' = [pc EXCEPT ![g] = place]

Call(g) ==
    /\ pc[g] = "idle"
    /\ Goto(g, "open")
    /\ UNCHANGED <<closed, sharedInitialized, sharedInitMu, successes, handles, cancelled>>

CancelContext(g) ==
    /\ pc[g] \notin {"idle", "connected"} /\ g \notin cancelled
    /\ cancelled' = cancelled \union {g}
    /\ UNCHANGED <<closed, sharedInitialized, sharedInitMu, successes, handles, pc>>

\* connectNative; the native call may fail by itself.
ConnectNative(g) ==
    /\ pc[g] = "open"
    /\ \/ /\ g \notin cancelled /\ ~closed
          /\ handles' = handles \union {g}
          /\ Goto(g, "entry")
          /\ UNCHANGED cancelled
       \/ Goto(g, "idle") /\ cancelled' = cancelled \ {g} /\ UNCHANGED handles
    /\ UNCHANGED <<closed, sharedInitialized, sharedInitMu, successes>>

Enter(g) ==
    /\ pc[g] = "entry"
    /\ Goto(g, IF g \in cancelled THEN "fail" ELSE "want")
    /\ UNCHANGED <<closed, sharedInitialized, sharedInitMu, successes, handles, cancelled>>

\* sharedInitMu.Lock(ctx), as CancellableLock describes it.
Lock(g) ==
    /\ pc[g] = "want"
    /\ g \notin cancelled
    /\ sharedInitMu = Free /\ sharedInitMu' = g
    /\ Goto(g, "locked")
    /\ UNCHANGED <<closed, sharedInitialized, successes, handles, cancelled>>

GiveUp_MutantLeaksConn(g) ==
    /\ pc[g] = "want" /\ g \in cancelled
    /\ Goto(g, "idle")
    /\ UNCHANGED <<closed, sharedInitialized, sharedInitMu, successes, handles, cancelled>>

GiveUp_MutantWaits(g) == FALSE /\ UNCHANGED vars

GiveUp(g) ==
    /\ pc[g] = "want" /\ g \in cancelled
    /\ Goto(g, "fail")
    /\ UNCHANGED <<closed, sharedInitialized, sharedInitMu, successes, handles, cancelled>>

Check_MutantNoFlag(g) ==
    /\ pc[g] = "locked"
    /\ IF g \notin cancelled /\ ~closed
       THEN Goto(g, "init") /\ UNCHANGED sharedInitMu
       ELSE Goto(g, "fail") /\ sharedInitMu' = Free
    /\ UNCHANGED <<closed, sharedInitialized, successes, handles, cancelled>>

\* The initializer runs unless an earlier one succeeded, the context is done
\* or the connector is closed.
Check(g) ==
    /\ pc[g] = "locked"
    /\ IF ~sharedInitialized /\ g \notin cancelled /\ ~closed
       THEN Goto(g, "init") /\ UNCHANGED sharedInitMu
       ELSE /\ Goto(g, IF sharedInitialized THEN "connected" ELSE "fail")
            /\ sharedInitMu' = Free
    /\ UNCHANGED <<closed, sharedInitialized, successes, handles, cancelled>>

Initialize_MutantIgnoresError(g) ==
    /\ pc[g] = "init"
    /\ Goto(g, "mark")
    /\ successes' \in {successes, successes + 1}
    /\ UNCHANGED <<closed, sharedInitialized, sharedInitMu, handles, cancelled>>

\* The client's callback; it may take for ever.
Initialize(g) ==
    /\ pc[g] = "init"
    /\ \/ Goto(g, "mark") /\ successes' = successes + 1 /\ UNCHANGED sharedInitMu
       \/ Goto(g, "fail") /\ sharedInitMu' = Free /\ UNCHANGED successes
    /\ UNCHANGED <<closed, sharedInitialized, handles, cancelled>>

Mark(g) ==
    /\ pc[g] = "mark"
    /\ sharedInitialized' = TRUE
    /\ sharedInitMu' = Free
    /\ Goto(g, "connected")
    /\ UNCHANGED <<closed, successes, handles, cancelled>>

\* Conn.Close, after a failed initialization or by the client.
Disconnect(g) ==
    /\ pc[g] \in {"fail", "connected"}
    /\ handles' = handles \ {g}
    /\ cancelled' = cancelled \ {g}
    /\ Goto(g, "idle")
    /\ UNCHANGED <<closed, sharedInitialized, sharedInitMu, successes>>

Close ==
    /\ ~closed
    /\ closed' = TRUE
    /\ UNCHANGED <<sharedInitialized, sharedInitMu, successes, handles, cancelled, pc>>

\* What a caller inside Connect does without the initializer's help.
Proceed(g) ==
    \/ ConnectNative(g) \/ Enter(g) \/ GiveUp(g) \/ Check(g) \/ Mark(g)
    \/ pc[g] = "fail" /\ Disconnect(g)

Next ==
    \/ \E g \in Caller : \/ Call(g) \/ CancelContext(g) \/ Lock(g) \/ Initialize(g) \/ Proceed(g)
                         \/ pc[g] = "connected" /\ Disconnect(g)
    \/ Close

Spec == Init /\ [][Next]_vars

(* The driver's own code runs and waiting senders are served in order;     *)
(* nothing is assumed of the initializer.                                  *)
FairSpec == Spec /\ \A g \in Caller : WF_vars(Proceed(g)) /\ SF_vars(Lock(g))

-----------------------------------------------------------------------------
TypeOK ==
    /\ closed \in BOOLEAN /\ sharedInitialized \in BOOLEAN
    /\ sharedInitMu \in {Free} \union {g \in Caller : pc[g] \in {"locked", "init", "mark"}}
    /\ successes \in Nat
    /\ handles \subseteq Caller /\ cancelled \subseteq Caller
    /\ pc \in [Caller -> Places]

(* The shared session is initialized at most once, whatever callers race,  *)
(* fail, give up or retry (README.md:223), and never while another         *)
(* caller's initializer runs.                                              *)
InitializedOnce ==
    /\ successes <= 1
    /\ \A g, h \in Caller : pc[g] \in {"init", "mark"} /\ pc[h] \in {"init", "mark"} => g = h

(* Connect hands out only connections to an initialized session, those     *)
(* that waited for another caller's initializer included.                  *)
ConnectedInitialized == \A g \in Caller : pc[g] = "connected" => successes = 1

(* Every Connect that failed has closed its native connection.             *)
NoHandleLeak == handles = {g \in Caller : pc[g] \notin {"idle", "open"}}

(* A caller whose context ends returns although the initializer it waits   *)
(* for hangs (TestSharedInitializationWaitHonorsContext), and every        *)
(* Connect returns if initializers do.                                     *)
ConnectReturns ==
    /\ \A g \in Caller : pc[g] = "want" /\ g \in cancelled ~> pc[g] = "idle"
    /\ (\A g \in Caller : []<>(pc[g] # "init"))
        => \A g \in Caller : pc[g] = "open" ~> pc[g] \in {"idle", "connected"}
=============================================================================
