----------------------- MODULE ExtensionActivationProofs -----------------------
(***************************************************************************)
(* No plan lacks a callback context once an extension is published, for    *)
(* any goroutines and connections.  The property rests on the read lock:   *)
(* a plan without a context holds it (PlanInv), so none is left when the   *)
(* writer is past its wait (DrainInv), which is before the flag is set     *)
(* and the extension published (ActiveInv).                                *)
(***************************************************************************)
EXTENDS ExtensionActivation, TLAPS

WriterInv == \A g \in Goroutine : pc[g] \in {"drain", "store", "unlock"} => writer = g

DrainInv == \A g \in Goroutine : pc[g] \in {"store", "unlock"} => readers = {}

ActiveInv == published \/ (\E g \in Goroutine : pc[g] \in {"unlock", "publish"}) => active

PlanInv == \A g \in Goroutine :
    /\ pc[g] = "choose" => active \/ g \in readers
    /\ pc[g] = "plan" => callbacks[g] \/ (g \in readers /\ ~active)

IInv == TypeOK /\ WriterInv /\ DrainInv /\ ActiveInv /\ PlanInv

USE ActivationAssumption DEF Places, Jobs

\* No call is in progress and every mutex is free.
LEMMA InitInv == Init => IInv
<1> SUFFICES ASSUME Init PROVE IInv
  OBVIOUS
<1>1. SomeConn \in Conn
  BY DEF SomeConn
<1>2. TypeOK
  BY <1>1 DEF Init, TypeOK
<1>3. WriterInv /\ DrainInv /\ ActiveInv /\ PlanInv
  BY DEF Init, WriterInv, DrainInv, ActiveInv, PlanInv
<1> QED
  BY <1>2, <1>3 DEF IInv

\* Steps on Conn.mu and Stmt.mu, and those that only read the flag.
LEMMA OutsideStep ==
    ASSUME IInv, NEW g \in Goroutine,
           \/ \E j \in Jobs, k \in Conn : Begin(g, j, k)
           \/ LockConn(g) \/ LockStmt(g) \/ Load(g) \/ Check(g)
    PROVE  IInv'
<1> USE DEF IInv, Goto, Set, Return
<1> SomeConn \in Conn
  BY DEF SomeConn
<1>1. UNCHANGED planning
  BY DEF Begin, LockConn, LockStmt, Load, Check
<1>2. TypeOK'
  <2>1. ASSUME NEW j \in Jobs, NEW k \in Conn, Begin(g, j, k) PROVE TypeOK'
    BY <2>1 DEF TypeOK, Begin, planning, mutexes
  <2>2. CASE LockConn(g)
    <3>1. mu' \in [Conn -> Goroutine \union {Free}] /\ stmtMu' = stmtMu
      BY <2>2 DEF TypeOK, LockConn
    <3>2. UNCHANGED planning
      BY <1>1
    <3>3. /\ pc' \in [Goroutine -> Places]
          /\ pc[g] = "conn"
          /\ \A h \in Goroutine \ {g} : pc'[h] = pc[h]
      BY <2>2 DEF TypeOK, LockConn
    <3>4. job' \in [Goroutine -> Jobs] /\ conn' \in [Goroutine -> Conn]
      BY <2>2 DEF TypeOK, LockConn, locals
    <3>5. callbacks' \in [Goroutine -> BOOLEAN]
      <4>1. UNCHANGED callbacks \/ callbacks' = [callbacks EXCEPT ![g] = FALSE]
        BY <2>2 DEF LockConn, locals
      <4> QED
        BY <4>1 DEF TypeOK
    <3> QED
      BY <3>1, <3>2, <3>3, <3>4, <3>5 DEF TypeOK, planning
  <2>3. CASE LockStmt(g)
    <3>1. /\ mu' \in [Conn -> Goroutine \union {Free}]
          /\ stmtMu' \in [Conn -> Goroutine \union {Free}]
      BY <2>3 DEF TypeOK, LockStmt
    <3>2. /\ pc' \in [Goroutine -> Places]
          /\ pc[g] = "stmt"
          /\ \A h \in Goroutine \ {g} : pc'[h] = pc[h]
      BY <2>3 DEF TypeOK, LockStmt
    <3>3. job' \in [Goroutine -> Jobs] /\ conn' \in [Goroutine -> Conn]
      BY <2>3 DEF TypeOK, LockStmt, locals
    <3>4. callbacks' \in [Goroutine -> BOOLEAN]
      <4>1. UNCHANGED callbacks \/ callbacks' = [callbacks EXCEPT ![g] = FALSE]
        BY <2>3 DEF LockStmt, locals
      <4> QED
        BY <4>1 DEF TypeOK
    <3> QED
      BY <1>1, <3>1, <3>2, <3>3, <3>4 DEF TypeOK, planning
  <2>4. CASE Load(g) \/ Check(g)
    BY <2>4 DEF TypeOK, Load, Check, planning, mutexes, locals
  <2> QED
    BY <2>1, <2>2, <2>3, <2>4
<1>3. \A h \in Goroutine :
        /\ pc'[h] \in {"drain", "store", "unlock"} => pc'[h] = pc[h]
        /\ pc'[h] = "publish" => pc[h] = "publish" \/ active
        /\ pc'[h] = "choose" => pc[h] = "choose" \/ active
        /\ pc'[h] = "plan" => pc[h] = "plan" /\ callbacks'[h] = callbacks[h]
  BY DEF TypeOK, Begin, LockConn, LockStmt, Load, Check, locals
<1>4. WriterInv' /\ DrainInv' /\ ActiveInv' /\ PlanInv'
  BY <1>1, <1>3 DEF planning, WriterInv, DrainInv, ActiveInv, PlanInv
<1> QED
  BY <1>2, <1>4

\* A reader enters only while no writer waits.
LEMMA RLockStep == ASSUME IInv, NEW g \in Goroutine, RLock(g) PROVE IInv'
<1> USE DEF IInv, RLock, Goto, mutexes, locals
<1>1. TypeOK' /\ WriterInv' /\ ActiveInv' /\ PlanInv'
  BY DEF TypeOK, WriterInv, ActiveInv, PlanInv
<1>2. DrainInv'
  BY DEF TypeOK, WriterInv, DrainInv
<1> QED
  BY <1>1, <1>2

\* The flag is loaded under the lock, or was set before.
LEMMA ChooseStep == ASSUME IInv, NEW g \in Goroutine, Choose(g) PROVE IInv'
<1> USE DEF IInv, Choose, Goto, planning, mutexes
<1>1. TypeOK' /\ WriterInv' /\ DrainInv' /\ ActiveInv'
  BY DEF TypeOK, WriterInv, DrainInv, ActiveInv
<1>2. PlanInv'
  BY DEF TypeOK, PlanInv
<1> QED
  BY <1>1, <1>2

\* The read lock is held to the end of the plan.
LEMMA FinishStep == ASSUME IInv, NEW g \in Goroutine, Finish(g) PROVE IInv'
<1> USE DEF IInv, Finish, Return, Set, Goto
<1> SomeConn \in Conn
  BY DEF SomeConn
<1>1. TypeOK'
  BY DEF TypeOK
<1>2. WriterInv' /\ DrainInv' /\ ActiveInv' /\ PlanInv'
  BY DEF TypeOK, WriterInv, DrainInv, ActiveInv, PlanInv
<1> QED
  BY <1>1, <1>2

\* Once the readers are gone, each plan in progress has its callbacks.
LEMMA ActivateStep ==
    ASSUME IInv, NEW g \in Goroutine,
           Announce(g) \/ Drain(g) \/ Store(g) \/ Unlock(g)
    PROVE  IInv'
<1> USE DEF IInv, Goto, mutexes, locals, planning
<1>1. CASE Announce(g)
  BY <1>1 DEF Announce, TypeOK, WriterInv, DrainInv, ActiveInv, PlanInv
<1>2. CASE Drain(g)
  BY <1>2 DEF Drain, TypeOK, WriterInv, DrainInv, ActiveInv, PlanInv
<1>3. CASE Store(g)
  <2>1. TypeOK' /\ WriterInv' /\ DrainInv' /\ ActiveInv'
    BY <1>3 DEF Store, TypeOK, WriterInv, DrainInv, ActiveInv
  <2>2. readers = {}
    BY <1>3 DEF Store, DrainInv
  <2>3. PlanInv'
    BY <1>3, <2>2 DEF Store, TypeOK, PlanInv
  <2> QED
    BY <2>1, <2>3
<1>4. CASE Unlock(g)
  <2>1. \A h \in Goroutine \ {g} : pc[h] \notin {"drain", "store", "unlock"}
    BY <1>4 DEF Unlock, WriterInv
  <2>2. TypeOK' /\ ActiveInv' /\ PlanInv'
    BY <1>4, <2>1 DEF Unlock, TypeOK, ActiveInv, PlanInv
  <2>3. WriterInv' /\ DrainInv'
    BY <1>4, <2>1 DEF Unlock, TypeOK, WriterInv, DrainInv
  <2> QED
    BY <2>2, <2>3
<1> QED
  BY <1>1, <1>2, <1>3, <1>4

\* The extension becomes visible.
LEMMA PublishStep == ASSUME IInv, NEW g \in Goroutine, Publish(g) PROVE IInv'
<1> USE DEF IInv, Publish, Return, Set, Goto
<1> SomeConn \in Conn
  BY DEF SomeConn
<1>1. TypeOK'
  BY DEF TypeOK
<1>2. WriterInv' /\ DrainInv' /\ ActiveInv' /\ PlanInv'
  BY DEF TypeOK, WriterInv, DrainInv, ActiveInv, PlanInv
<1> QED
  BY <1>1, <1>2

\* IInv is inductive.
LEMMA NextInv == IInv /\ [Next]_vars => IInv'
<1> SUFFICES ASSUME IInv, [Next]_vars PROVE IInv'
  OBVIOUS
<1>1. CASE UNCHANGED vars
  BY <1>1 DEF vars, IInv, TypeOK, WriterInv, DrainInv, ActiveInv, PlanInv
<1>2. ASSUME NEW g \in Goroutine,
             \/ \E j \in Jobs, k \in Conn : Begin(g, j, k)
             \/ Continue(g)
      PROVE  IInv'
  <2>1. CASE \/ \E j \in Jobs, k \in Conn : Begin(g, j, k)
             \/ LockConn(g) \/ LockStmt(g) \/ Load(g) \/ Check(g)
    BY <2>1, OutsideStep
  <2>2. CASE RLock(g)
    BY <2>2, RLockStep
  <2>3. CASE Choose(g)
    BY <2>3, ChooseStep
  <2>4. CASE Finish(g)
    BY <2>4, FinishStep
  <2>5. CASE Announce(g) \/ Drain(g) \/ Store(g) \/ Unlock(g)
    BY <2>5, ActivateStep
  <2>6. CASE Publish(g)
    BY <2>6, PublishStep
  <2> QED
    BY <1>2, <2>1, <2>2, <2>3, <2>4, <2>5, <2>6 DEF Continue
<1> QED
  BY <1>1, <1>2 DEF Next

\* The invariant of every behaviour of native.go's activation.
LEMMA Invariance == Spec => []IInv
BY InitInv, NextInv, PTL DEF Spec

\* Every variable of the activation protocol keeps its type; only a plan is a
\* reader, and only an activation is the writer (native.go:156-168, 479-485).
THEOREM TypeCorrect == Spec => []TypeOK
<1>1. IInv => TypeOK
  BY DEF IInv
<1> QED
  BY <1>1, Invariance, PTL

\* No execution that RegisterGo did not wait for plans without a callback
\* context (native.go:153-155).
THEOREM PlansHaveCallbacksCorrect == Spec => []PlansHaveCallbacks
<1>1. IInv => PlansHaveCallbacks
  BY DEF IInv, ActiveInv, PlanInv, PlansHaveCallbacks
<1> QED
  BY <1>1, Invariance, PTL
=============================================================================
