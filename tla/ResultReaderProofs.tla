-------------------------- MODULE ResultReaderProofs --------------------------
(* The safety of ResultReader for any number of readers and closers.       *)
EXTENDS ResultReader, TLAPS

\* Where goroutines can be, and who holds resultReader.mu.
OwnersInv ==
    /\ \A g \in Actor :
        /\ pc[g] \in {"pull", "shut"} => phase = "result" /\ mu = g /\ ~closed
        /\ pc[g] = "closeToken" => \/ phase = "result" /\ mu = g /\ closed
                                   \/ phase = "failed" /\ g = Executor
        /\ pc[g] = "execute" => g = Executor
        /\ phase = "executing" => pc[g] = IF g = Executor THEN "execute" ELSE "idle"
        /\ phase # "executing" => pc[g] # "execute"
        /\ phase = "failed" => pc[g] \in {"idle", "closeToken"}
        /\ pc[g] \notin {"watch", "exited"}
    /\ pc[Watcher] \in {"watch", "cancel", "swap", "notify", "exited"}

\* Cancel holds cancelToken.mu while it uses the token.
TokenInv ==
    /\ \A g \in Goroutine : pc[g] \in {"swap", "notify"} <=> tokenMu = g
    /\ tokenMu # Free => tokenLive

\* What each phase has released.
ReleasedInv ==
    /\ phase # "result" => mu = Free /\ ~closed /\ ~resultLive
    /\ phase = "executing" => tokenLive /\ doneCloses = 0
    /\ phase = "failed" => doneCloses = 1
    /\ phase = "result" /\ closed => ~resultLive /\ doneCloses = 1 /\ (mu = Free => ~tokenLive)
    /\ phase = "result" /\ ~closed => resultLive /\ tokenLive /\ doneCloses = 0

IInv == TypeOK /\ OwnersInv /\ TokenInv /\ ReleasedInv

LEMMA InitInv == Init => IInv
  <1> SUFFICES ASSUME Init PROVE IInv
    OBVIOUS
  <1> USE ResultReaderAssumption DEF Init, Goroutine
  <1>1. /\ pc \in [Goroutine -> Places]
        /\ pc[Executor] = "execute" /\ pc[Watcher] \in {"watch", "exited"}
        /\ \A g \in Actor \ {Executor} : pc[g] = "idle"
    BY DEF Places
  <1> QED
    BY <1>1 DEF IInv, TypeOK, OwnersInv, TokenInv, ReleasedInv

(* A step keeps IInv.  A goroutine moves by itself; what it may do to the   *)
(* others is in the mutexes it takes and the handles it releases.          *)
LEMMA StepInv == IInv /\ [Next]_vars => IInv'
  <1> SUFFICES ASSUME IInv, [Next]_vars PROVE IInv'
    OBVIOUS
  <1> USE ResultReaderAssumption
      DEF IInv, TypeOK, OwnersInv, TokenInv, ReleasedInv, Goto, handles, rust, Goroutine, Places
  <1>1. CASE CancelContext
    BY <1>1 DEF CancelContext
  <1>2. CASE ExecuteSucceeds
    BY <1>2 DEF ExecuteSucceeds
  <1>3. CASE ExecuteFails
    BY <1>3 DEF ExecuteFails
  <1>4. CASE Watch
    BY <1>4 DEF Watch
  <1>5. ASSUME NEW g \in Goroutine, LockToken(g) PROVE IInv'
    BY <1>5 DEF LockToken, AfterCancel
  <1>6. ASSUME NEW g \in Goroutine, SwapFlag(g) PROVE IInv'
    BY <1>6 DEF SwapFlag, AfterCancel
  <1>7. ASSUME NEW g \in Goroutine, Notify(g) PROVE IInv'
    BY <1>7 DEF Notify, AfterCancel
  <1>8. ASSUME NEW g \in Actor, BeginRead(g) PROVE IInv'
    BY <1>8 DEF BeginRead
  <1>9. ASSUME NEW g \in Actor, BeginClose(g) PROVE IInv'
    BY <1>9 DEF BeginClose
  <1>10. ASSUME NEW g \in Actor, ReadContext(g) PROVE IInv'
    BY <1>10 DEF ReadContext
  <1>11. ASSUME NEW g \in Actor, LockRead(g) PROVE IInv'
    BY <1>11 DEF LockRead
  <1>12. ASSUME NEW g \in Actor, Poll(g) PROVE IInv'
    BY <1>12, ZenonT(60) DEF Poll
  <1>13. ASSUME NEW g \in Actor, PullCancelled(g) PROVE IInv'
    BY <1>13 DEF PullCancelled, EndPull
  <1>14. ASSUME NEW g \in Actor, PullYields(g) PROVE IInv'
    <2>1. CASE Goto(g, "idle") /\ mu' = Free
      BY <1>14, <2>1 DEF PullYields, EndPull
    <2>2. CASE Goto(g, "shut") /\ UNCHANGED mu
      BY <1>14, <2>2 DEF PullYields, EndPull
    <2> QED
      BY <1>14, <2>1, <2>2 DEF PullYields
  <1>15. ASSUME NEW g \in Actor, LockClose(g) PROVE IInv'
    BY <1>15 DEF LockClose
  <1>16. ASSUME NEW g \in Actor, Shut(g) PROVE IInv'
    <2>1. doneCloses' \in Nat /\ doneCloses' = 1
      BY <1>16, SMT DEF Shut
    <2> QED
      BY <1>16, <2>1, ZenonT(60) DEF Shut
  <1>17. ASSUME NEW g \in Actor, CloseToken(g) PROVE IInv'
    BY <1>17, ZenonT(60) DEF CloseToken
  <1>18. CASE UNCHANGED vars
    BY <1>18 DEF vars
  <1> QED
    BY <1>1, <1>2, <1>3, <1>4, <1>5, <1>6, <1>7, <1>8, <1>9, <1>10, <1>11, <1>12, <1>13, <1>14, <1>15, <1>16, <1>17, <1>18
       DEF Next, Steps, CancelSteps

THEOREM ReaderInvariant == Spec => []IInv
  <1> QED
    BY InitInv, StepInv, PTL DEF Spec

\* The type invariant: in particular, only a reader or closer holds mu.
THEOREM TypeCorrect == Spec => []TypeOK
  <1>1. IInv => TypeOK
    BY DEF IInv
  <1> QED
    BY <1>1, ReaderInvariant, PTL

(* Native handles outlive their use, whoever reads, closes and cancels     *)
(* (resultReader.closeLocked and cancelToken in native.go).                *)
THEOREM HandlesOutliveUse == Spec => []NoUseAfterFree
  <1>1. IInv => NoUseAfterFree
    BY ResultReaderAssumption
       DEF IInv, OwnersInv, TokenInv, ReleasedInv, NoUseAfterFree, Goroutine
  <1> QED
    BY <1>1, ReaderInvariant, PTL

(* The reader closes its channel once, and closing releases everything     *)
(* (resultReader.closeLocked).                                             *)
THEOREM ClosingReleases == Spec => []ClosedReleases
  <1>1. IInv => ClosedReleases
    <2>1. IInv => doneCloses \in {0, 1}
      BY DEF IInv, TypeOK, ReleasedInv
    <2>2. \A n \in {0, 1} : n <= 1
      BY SMT
    <2> QED
      BY <2>1, <2>2 DEF IInv, TypeOK, ReleasedInv, ClosedReleases
  <1> QED
    BY <1>1, ReaderInvariant, PTL
=============================================================================
