----------------------------- MODULE ResultReader -----------------------------
(***************************************************************************)
(* internal/native/native.go, rust/src/stream.rs: one execution of a       *)
(* statement, from ExecuteArrow to the end of its resultReader, with the   *)
(* goroutine that watches the context and the Rust CancelToken.            *)
(*                                                                         *)
(* resultReader.mu is held across a native pull, which blocks as long as   *)
(* DataFusion has no batch; cancellation therefore goes around it, through *)
(* cancelToken, whose own mutex guards only the pointer to the Rust token. *)
(***************************************************************************)
EXTENDS Naturals

CONSTANTS Actor,     \* goroutines that Read or Close; the finalizer is one
          Executor,  \* the one of them that called ExecuteArrow
          Watcher,   \* the goroutine ExecuteArrow starts
          Free       \* the holder of a free mutex

ASSUME ResultReaderAssumption ==
    Executor \in Actor /\ Watcher \notin Actor /\ Free \notin Actor \union {Watcher}

VARIABLES ctxDone,     \* the context of the execution is done
          phase,       \* ExecuteArrow: "executing", "result" or "failed"
          mu,          \* holder of resultReader.mu
          closed,      \* resultReader.closed
          resultLive,  \* native result, stream and array are not released
          doneCloses,  \* how often the channel "done" was closed
          tokenMu,     \* holder of cancelToken.mu
          tokenLive,   \* cancelToken.ptr is not nil
          flag,        \* Rust: CancelToken.cancelled
          pull,        \* Rust: where StreamingReader.next is
          notified,    \* Rust: the registered Notified future has fired
          pc

vars == <<ctxDone, phase, mu, closed, resultLive, doneCloses, tokenMu, tokenLive,
          flag, pull, notified, pc>>
handles == <<resultLive, tokenLive>>
rust == <<flag, pull, notified>>

Goroutine == Actor \union {Watcher}

Places == {"idle", "execute", "read", "lock", "pull", "cancel", "swap", "notify",
           "lockClose", "shut", "closeToken", "watch", "exited"}

Init ==
    /\ ctxDone = FALSE /\ phase = "executing"
    /\ mu = Free /\ closed = FALSE
    /\ resultLive = FALSE /\ doneCloses = 0
    /\ tokenMu = Free /\ tokenLive = TRUE
    /\ flag = FALSE /\ pull = "none" /\ notified = FALSE
    /\ pc \in {[g \in Goroutine |->
                   CASE g = Executor -> "execute" [] g = Watcher -> w [] OTHER -> "idle"]
                 : w \in {"watch", "exited"}}   \* no watcher without ctx.Done()

Goto(g, place) == pc' = [pc EXCEPT ![g] = place]

\* Only a context with a Done channel, hence a watcher, is ever done.
CancelContext ==
    /\ ~ctxDone
    /\ pc[Watcher] = "watch"
    /\ ctxDone' = TRUE
    /\ UNCHANGED <<phase, mu, closed, doneCloses, tokenMu, handles, rust, pc>>

-----------------------------------------------------------------------------
(* ExecuteArrow: planning and execution stop at an await point once the    *)
(* flag is set; every failure closes "done" and then the token.            *)

ExecuteSucceeds ==
    /\ pc[Executor] = "execute"
    /\ phase' = "result"
    /\ resultLive' = TRUE
    /\ Goto(Executor, "idle")
    /\ UNCHANGED <<ctxDone, mu, closed, doneCloses, tokenMu, tokenLive, rust>>

ExecuteFails ==
    /\ pc[Executor] = "execute"
    /\ phase' = "failed"
    /\ doneCloses' = doneCloses + 1
    /\ Goto(Executor, "closeToken")
    /\ UNCHANGED <<ctxDone, mu, closed, tokenMu, handles, rust>>

-----------------------------------------------------------------------------
(* cancelToken.Cancel, by the watcher or on the way to closing.            *)

\* The watcher's select takes either case when both are ready.
Watch ==
    /\ pc[Watcher] = "watch"
    /\ \/ ctxDone /\ Goto(Watcher, "cancel")
       \/ doneCloses > 0 /\ Goto(Watcher, "exited")
    /\ UNCHANGED <<ctxDone, phase, mu, closed, doneCloses, tokenMu, handles, rust>>

AfterCancel(g) == IF g = Watcher THEN "exited" ELSE "lockClose"

LockToken_Mutant(g) ==
    /\ pc[g] = "cancel"
    /\ tokenMu = Free /\ mu = Free
    /\ IF tokenLive THEN tokenMu' = g /\ Goto(g, "swap")
                    ELSE UNCHANGED tokenMu /\ Goto(g, AfterCancel(g))
    /\ UNCHANGED <<ctxDone, phase, mu, closed, doneCloses, handles, rust>>

LockToken(g) ==
    /\ pc[g] = "cancel"
    /\ tokenMu = Free
    /\ IF tokenLive THEN tokenMu' = g /\ Goto(g, "swap")
                    ELSE UNCHANGED tokenMu /\ Goto(g, AfterCancel(g))
    /\ UNCHANGED <<ctxDone, phase, mu, closed, doneCloses, handles, rust>>

\* CancelToken::cancel: the first call sets the flag, then notifies.
SwapFlag(g) ==
    /\ pc[g] = "swap"
    /\ flag' = TRUE
    /\ Goto(g, "notify")
    /\ UNCHANGED <<ctxDone, phase, mu, closed, doneCloses, tokenMu, handles, pull, notified>>

Notify(g) ==
    /\ pc[g] = "notify"
    /\ notified' = (notified \/ pull \in {"check", "wait"})
    /\ tokenMu' = Free
    /\ Goto(g, AfterCancel(g))
    /\ UNCHANGED <<ctxDone, phase, mu, closed, doneCloses, handles, flag, pull>>

-----------------------------------------------------------------------------
(* Read and Close.                                                         *)

BeginRead(g) ==
    /\ pc[g] = "idle" /\ phase = "result"
    /\ Goto(g, "read")
    /\ UNCHANGED <<ctxDone, phase, mu, closed, doneCloses, tokenMu, handles, rust>>

BeginClose(g) ==
    /\ pc[g] = "idle" /\ phase = "result"
    /\ Goto(g, "cancel")
    /\ UNCHANGED <<ctxDone, phase, mu, closed, doneCloses, tokenMu, handles, rust>>

\* A done context makes Read cancel and close.
ReadContext(g) ==
    /\ pc[g] = "read"
    /\ Goto(g, IF ctxDone THEN "cancel" ELSE "lock")
    /\ UNCHANGED <<ctxDone, phase, mu, closed, doneCloses, tokenMu, handles, rust>>

LockRead(g) ==
    /\ pc[g] = "lock"
    /\ mu = Free
    /\ IF closed
       THEN Goto(g, "idle") /\ UNCHANGED <<mu, pull>>
       ELSE mu' = g /\ pull' = "start" /\ Goto(g, "pull")
    /\ UNCHANGED <<ctxDone, phase, closed, doneCloses, tokenMu, handles, flag, notified>>

Poll_Mutant(g) ==
    /\ pc[g] = "pull"
    /\ \/ pull \in {"start", "check"} /\ ~flag /\ pull' = "register" /\ UNCHANGED notified
       \/ pull = "register" /\ pull' = "wait" /\ notified' = FALSE
       \/ pull = "wait" /\ notified /\ pull' = "check" /\ UNCHANGED notified
    /\ UNCHANGED <<ctxDone, phase, mu, closed, doneCloses, tokenMu, handles, flag, pc>>

\* StreamingReader::next.  The future for a notification is created before
\* the flag is read, and fires for any notification after that.
Poll(g) ==
    /\ pc[g] = "pull"
    /\ \/ /\ pull = "start" /\ ~flag
          /\ pull' = "register"
          /\ UNCHANGED notified
       \/ /\ pull = "register" \/ (pull = "wait" /\ notified)
          /\ pull' = "check"
          /\ notified' = FALSE
       \/ /\ pull = "check" /\ ~flag
          /\ pull' = "wait"
          /\ UNCHANGED notified
    /\ UNCHANGED <<ctxDone, phase, mu, closed, doneCloses, tokenMu, handles, flag, pc>>

EndPull == pull' = "none" /\ notified' = FALSE

\* The flag ends the pull with an error, and the reader closes.
PullCancelled(g) ==
    /\ pc[g] = "pull" /\ pull \in {"start", "check"} /\ flag
    /\ EndPull
    /\ Goto(g, "shut")
    /\ UNCHANGED <<ctxDone, phase, mu, closed, doneCloses, tokenMu, handles, flag>>

\* DataFusion yields a batch, or its end, an error or a panic.  It need not.
PullYields(g) ==
    /\ pc[g] = "pull" /\ pull \in {"register", "check", "wait"}
    /\ EndPull
    /\ \/ Goto(g, "idle") /\ mu' = Free
       \/ Goto(g, "shut") /\ UNCHANGED mu
    /\ UNCHANGED <<ctxDone, phase, closed, doneCloses, tokenMu, handles, flag>>

LockClose(g) ==
    /\ pc[g] = "lockClose"
    /\ mu = Free
    /\ IF closed THEN Goto(g, "idle") /\ UNCHANGED mu
                 ELSE mu' = g /\ Goto(g, "shut")
    /\ UNCHANGED <<ctxDone, phase, closed, doneCloses, tokenMu, handles, rust>>

\* closeLocked, up to token.Close.
Shut(g) ==
    /\ pc[g] = "shut"
    /\ closed' = TRUE
    /\ doneCloses' = doneCloses + 1
    /\ flag' = TRUE
    /\ resultLive' = FALSE
    /\ Goto(g, "closeToken")
    /\ UNCHANGED <<ctxDone, phase, mu, tokenMu, tokenLive, pull, notified>>

CloseToken_MutantUnlocked(g) ==
    /\ pc[g] = "closeToken"
    /\ tokenLive' = FALSE
    /\ mu' = IF mu = g THEN Free ELSE mu
    /\ Goto(g, "idle")
    /\ UNCHANGED <<ctxDone, phase, closed, doneCloses, tokenMu, resultLive, rust>>

CloseToken_MutantKeepsToken(g) ==
    /\ pc[g] = "closeToken" /\ tokenMu = Free
    /\ mu' = IF mu = g THEN Free ELSE mu
    /\ Goto(g, "idle")
    /\ UNCHANGED <<ctxDone, phase, closed, doneCloses, tokenMu, handles, rust>>

CloseToken(g) ==
    /\ pc[g] = "closeToken"
    /\ tokenMu = Free
    /\ tokenLive' = FALSE
    /\ mu' = IF mu = g THEN Free ELSE mu
    /\ Goto(g, "idle")
    /\ UNCHANGED <<ctxDone, phase, closed, doneCloses, tokenMu, resultLive, rust>>

-----------------------------------------------------------------------------
\* Cancellation inside Cancel, on behalf of g.
CancelSteps(g) == LockToken(g) \/ SwapFlag(g) \/ Notify(g)

\* What g does in Read and Close without DataFusion's help.
Steps(g) ==
    \/ CancelSteps(g) \/ ReadContext(g) \/ LockRead(g) \/ Poll(g) \/ PullCancelled(g)
    \/ LockClose(g) \/ Shut(g) \/ CloseToken(g)

Next ==
    \/ CancelContext \/ ExecuteSucceeds \/ ExecuteFails
    \/ Watch \/ CancelSteps(Watcher)
    \/ \E g \in Actor : BeginRead(g) \/ BeginClose(g) \/ Steps(g) \/ PullYields(g)

Spec == Init /\ [][Next]_vars

(* Goroutines run, and Go mutexes do not starve a waiter.  DataFusion may  *)
(* never yield: only a set flag makes planning or execution stop.          *)
FairSpec ==
    /\ Spec
    /\ SF_vars(Watch \/ CancelSteps(Watcher))
    /\ \A g \in Actor : SF_vars(Steps(g))
    /\ WF_vars(flag /\ (ExecuteFails \/ ExecuteSucceeds))

-----------------------------------------------------------------------------
TypeOK ==
    /\ ctxDone \in BOOLEAN /\ closed \in BOOLEAN
    /\ phase \in {"executing", "result", "failed"}
    /\ mu \in {Free} \union {g \in Actor : pc[g] \in {"pull", "shut", "closeToken"}}
    /\ tokenMu \in Goroutine \union {Free}
    /\ resultLive \in BOOLEAN /\ tokenLive \in BOOLEAN
    /\ doneCloses \in Nat
    /\ flag \in BOOLEAN /\ notified \in BOOLEAN
    /\ pull \in {"none", "start", "register", "check", "wait"}
    /\ pc \in [Goroutine -> Places]

(* No native call is made with a freed handle: a pull has the stream,      *)
(* Cancel and an execution have the token, however the watcher, readers,   *)
(* closers and the finalizer interleave.                                   *)
NoUseAfterFree ==
    /\ \A g \in Actor : pc[g] = "pull" => resultLive
    /\ \A g \in Goroutine : pc[g] \in {"swap", "notify"} => tokenLive
    /\ phase = "executing" => tokenLive

(* The channel "done" is closed at most once: a second close would panic.  *)
(* When no one is inside closeLocked, a closed reader has released the     *)
(* result and the token, and has told the watcher to stop.                 *)
ClosedReleases ==
    /\ doneCloses <= 1
    /\ closed /\ mu = Free => ~resultLive /\ ~tokenLive /\ doneCloses = 1

(* Close returns even if DataFusion never yields: cancellation does not    *)
(* wait for the mutex a blocked Read holds (native.go:760-762).            *)
CloseReturns == \A g \in Actor : pc[g] = "cancel" ~> pc[g] = "idle"

(* A done context ends a blocked Read and a blocked execution, and the     *)
(* watcher does not outlive the reader or the failed execution.            *)
CancellationStops ==
    /\ \A g \in Actor : ctxDone /\ pc[g] = "pull" ~> pc[g] = "idle"
    /\ ctxDone /\ phase = "executing" ~> phase # "executing"
    /\ doneCloses > 0 ~> pc[Watcher] = "exited"
=============================================================================
