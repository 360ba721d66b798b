---------------------------- MODULE ConnectorProofs ----------------------------
(***************************************************************************)
(* The safety of the connector: of Connect with a shared session (module   *)
(* SharedInit), for any callers, and of the connections it hands to the    *)
(* pool (module Pool), for any clients and any size of the pool.           *)
(***************************************************************************)
EXTENDS SharedInit, Pool, TLAPS

-----------------------------------------------------------------------------
(* The pool.  BorrowInv is what the pool itself guarantees; OpenInv        *)
(* strengthens LentSessionInitialized to every connection the pool keeps.  *)

BorrowInv ==
    /\ \A k \in Conn : borrower[k] = Nobody <=> place[k] \in {"absent", "free"}
    /\ \A k, l \in Conn : borrower[k] = borrower[l] /\ borrower[k] # Nobody => k = l

OpenInv ==
    /\ \A k \in Conn : place[k] # "absent" => SessionOf(k) \in initialized
    /\ sharedSession => initialized \subseteq {Connector}

PoolInv == PoolTypeOK /\ BorrowInv /\ OpenInv /\ ResetIsolates

\* Nothing is open or lent.
LEMMA PoolInitInv == PoolInit => PoolInv
<1> SUFFICES ASSUME PoolInit PROVE PoolInv
  OBVIOUS
<1>1. \A k \in Conn : place[k] = "absent" /\ borrower[k] = Nobody
  BY DEF PoolInit
<1>2. PoolTypeOK
  BY DEF PoolInit, PoolTypeOK
<1>3. BorrowInv /\ OpenInv /\ ResetIsolates
  BY <1>1 DEF PoolInit, BorrowInv, OpenInv, ResetIsolates
<1> QED
  BY <1>2, <1>3 DEF PoolInv

\* Who has which connection: the moves of the pool.
LEMMA BorrowStep ==
    ASSUME PoolInv, [PoolNext]_poolVars
    PROVE  PoolTypeOK' /\ BorrowInv'
<1> USE PoolAssumption DEF PoolInv, PoolTypeOK, BorrowInv, OpenInv, Move, Session, SessionOf
<1>1. ASSUME NEW c \in Client, NEW k \in Conn, Connect(c, k) PROVE PoolTypeOK' /\ BorrowInv'
  <2>1. PoolTypeOK' BY <1>1 DEF Connect
  <2>2. BorrowInv' BY <1>1 DEF Connect, Borrowing
  <2> QED BY <2>1, <2>2
<1>2. ASSUME NEW c \in Client, NEW k \in Conn, Acquire(c, k) PROVE PoolTypeOK' /\ BorrowInv'
  <2>1. PoolTypeOK' BY <1>2 DEF Acquire
  <2>2. BorrowInv' BY <1>2 DEF Acquire, Borrowing
  <2> QED BY <2>1, <2>2
<1>3. ASSUME NEW c \in Client, Cancel(c) PROVE PoolTypeOK' /\ BorrowInv'
  BY <1>3 DEF Cancel
<1>4. ASSUME NEW k \in Conn, ResetCancelled(k) \/ ResetSucceeds(k) PROVE PoolTypeOK' /\ BorrowInv'
  <2>1. borrower[k] \in Client BY <1>4 DEF ResetCancelled, ResetSucceeds
  <2>2. PoolTypeOK' BY <1>4, <2>1 DEF ResetCancelled, ResetSucceeds
  <2>3. BorrowInv' BY <1>4, <2>1 DEF ResetCancelled, ResetSucceeds
  <2> QED BY <2>2, <2>3
<1>5. ASSUME NEW k \in Conn, ResetFails(k) PROVE PoolTypeOK' /\ BorrowInv'
  <2>1. PoolTypeOK' BY <1>5 DEF ResetFails
  <2>2. BorrowInv' BY <1>5 DEF ResetFails
  <2> QED BY <2>1, <2>2
<1>6. ASSUME NEW k \in Conn, Use(k) PROVE PoolTypeOK' /\ BorrowInv'
  <2>1. borrower[k] \in Client BY <1>6 DEF Use
  <2> QED BY <1>6, <2>1 DEF Use
<1>7. ASSUME NEW k \in Conn, Return(k) PROVE PoolTypeOK' /\ BorrowInv'
  <2>1. PoolTypeOK' BY <1>7 DEF Return
  <2>2. BorrowInv' BY <1>7 DEF Return
  <2> QED BY <2>1, <2>2
<1>8. CASE CloseConnector \/ UNCHANGED poolVars
  BY <1>8 DEF CloseConnector, poolVars
<1> QED
  BY <1>1, <1>2, <1>3, <1>4, <1>5, <1>6, <1>7, <1>8 DEF PoolNext

\* A session loses its initialization only together with its connection.
LEMMA OpenStep ==
    ASSUME PoolInv, [PoolNext]_poolVars
    PROVE  OpenInv'
<1> USE PoolAssumption DEF PoolInv, PoolTypeOK, OpenInv, Move, Session, SessionOf
<1>1. ASSUME NEW c \in Client, NEW k \in Conn, Connect(c, k) \/ Acquire(c, k) PROVE OpenInv'
  BY <1>1 DEF Connect, Acquire
<1>2. ASSUME NEW c \in Client, Cancel(c) PROVE OpenInv'
  BY <1>2 DEF Cancel
<1>3. ASSUME NEW k \in Conn, ResetCancelled(k) \/ ResetSucceeds(k) \/ Use(k) PROVE OpenInv'
  BY <1>3 DEF ResetCancelled, ResetSucceeds, Use
<1>4. ASSUME NEW k \in Conn, ResetFails(k) \/ Return(k) PROVE OpenInv'
  BY <1>4 DEF ResetFails, Return
<1>5. CASE CloseConnector \/ UNCHANGED poolVars
  BY <1>5 DEF CloseConnector, poolVars
<1> QED
  BY <1>1, <1>2, <1>3, <1>4, <1>5 DEF PoolNext

\* A borrower's mark appears only in the session lent to it, and unreset
\* forgets a client only when it gives its one connection back.
LEMMA IsolationStep ==
    ASSUME PoolInv, [PoolNext]_poolVars
    PROVE  ResetIsolates'
<1> USE PoolAssumption DEF PoolInv, PoolTypeOK, BorrowInv, ResetIsolates, Move, Session, SessionOf
<1>1. ASSUME NEW c \in Client, NEW k \in Conn, Connect(c, k) \/ Acquire(c, k)
      PROVE  ResetIsolates'
  BY <1>1 DEF Connect, Acquire
<1>2. ASSUME NEW c \in Client, Cancel(c) PROVE ResetIsolates'
  BY <1>2 DEF Cancel
<1>3. ASSUME NEW k \in Conn, ResetCancelled(k) \/ ResetSucceeds(k) PROVE ResetIsolates'
  BY <1>3 DEF ResetCancelled, ResetSucceeds
<1>4. ASSUME NEW k \in Conn, ResetFails(k) PROVE ResetIsolates'
  BY <1>4 DEF ResetFails
<1>5. ASSUME NEW k \in Conn, Use(k) PROVE ResetIsolates'
  BY <1>5 DEF Use
<1>6. ASSUME NEW k \in Conn, Return(k) PROVE ResetIsolates'
  BY <1>6 DEF Return
<1>7. CASE CloseConnector \/ UNCHANGED poolVars
  BY <1>7 DEF CloseConnector, poolVars
<1> QED
  BY <1>1, <1>2, <1>3, <1>4, <1>5, <1>6, <1>7 DEF PoolNext

\* PoolInv is an inductive invariant.
THEOREM PoolInvariance == PoolSpec => []PoolInv
<1>1. PoolInv /\ [PoolNext]_poolVars => PoolInv'
  BY BorrowStep, OpenStep, IsolationStep DEF PoolInv
<1> QED
  BY PoolInitInv, <1>1, PTL DEF PoolSpec

\* Variables keep their types, and a connection given up leaves no session.
THEOREM PoolTypeCorrect == PoolSpec => []PoolTypeOK
  BY PoolInvariance, PTL DEF PoolInv

\* Connect and ResetSession lend initialized sessions only.
THEOREM LentSessionInitializedCorrect == PoolSpec => []LentSessionInitialized
<1>1. PoolInv => LentSessionInitialized
  BY DEF PoolInv, OpenInv, LentSessionInitialized
<1> QED
  BY <1>1, PoolInvariance, PTL

\* After a ResetSession that returned nil no other client's state is left.
THEOREM ResetIsolatesCorrect == PoolSpec => []ResetIsolates
  BY PoolInvariance, PTL DEF PoolInv

-----------------------------------------------------------------------------
(* Connect.  InitializedOnce is not inductive: LockInv says that the       *)
(* holder of sharedInitMu is the only caller past the lock, and FlagInv    *)
(* what sharedInitialized tells of the initializer runs of the past.       *)

Inside == {"locked", "init", "mark"}

LockInv == \A g \in Caller : pc[g] \in Inside <=> sharedInitMu = g

FlagInv ==
    /\ successes = IF sharedInitialized \/ \E g \in Caller : pc[g] = "mark" THEN 1 ELSE 0
    /\ \A g \in Caller : pc[g] \in {"init", "mark"} => ~sharedInitialized
    /\ \A g \in Caller : pc[g] = "connected" => sharedInitialized

IInv == TypeOK /\ LockInv /\ FlagInv /\ NoHandleLeak

USE DEF Places, Inside

\* No caller is inside Connect.
LEMMA InitInv == Init => IInv
<1> SUFFICES ASSUME Init PROVE IInv
  OBVIOUS
<1>1. \A g \in Caller : pc[g] = "idle"
  BY DEF Init
<1>2. TypeOK /\ LockInv
  BY <1>1, SharedInitAssumption DEF Init, TypeOK, LockInv
<1>3. FlagInv
  BY <1>1 DEF Init, FlagInv
<1>4. NoHandleLeak
  BY <1>1 DEF Init, NoHandleLeak
<1> QED
  BY <1>2, <1>3, <1>4 DEF IInv

\* Connect, Disconnect and the wait touch neither the lock nor the flag.
LEMMA OutsideStep ==
    ASSUME IInv, NEW g \in Caller,
           Call(g) \/ CancelContext(g) \/ ConnectNative(g) \/ Enter(g) \/ GiveUp(g) \/ Disconnect(g)
    PROVE  IInv'
<1> USE SharedInitAssumption DEF IInv, Goto
<1>1. TypeOK'
  BY DEF TypeOK, Call, CancelContext, ConnectNative, Enter, GiveUp, Disconnect
<1>2. LockInv'
  BY DEF TypeOK, LockInv, Call, CancelContext, ConnectNative, Enter, GiveUp, Disconnect
<1>3. \A h \in Caller : /\ pc'[h] = "mark" <=> pc[h] = "mark"
                        /\ pc'[h] = "init" <=> pc[h] = "init"
                        /\ pc'[h] = "connected" => pc[h] = "connected"
  BY DEF TypeOK, Call, CancelContext, ConnectNative, Enter, GiveUp, Disconnect
<1>4. UNCHANGED <<sharedInitialized, successes>>
  BY DEF Call, CancelContext, ConnectNative, Enter, GiveUp, Disconnect
<1>5. FlagInv'
  BY <1>3, <1>4 DEF FlagInv
<1>6. NoHandleLeak'
  BY DEF TypeOK, NoHandleLeak, Call, CancelContext, ConnectNative, Enter, GiveUp, Disconnect
<1> QED
  BY <1>1, <1>2, <1>5, <1>6

\* Lock leaves the flag alone.
LEMMA LockStep == ASSUME IInv, NEW g \in Caller, Lock(g) PROVE IInv'
<1> USE SharedInitAssumption DEF IInv, Goto, Lock
<1>1. TypeOK' /\ NoHandleLeak'
  BY DEF TypeOK, LockInv, NoHandleLeak
<1>2. LockInv'
  BY DEF TypeOK, LockInv
<1>3. FlagInv'
  BY DEF TypeOK, FlagInv
<1> QED
  BY <1>1, <1>2, <1>3

\* A caller that need not or must not initialize frees the lock.
LEMMA CheckStep == ASSUME IInv, NEW g \in Caller, Check(g) PROVE IInv'
<1> USE SharedInitAssumption DEF IInv, Goto, Check
<1>1. TypeOK' /\ NoHandleLeak'
  BY DEF TypeOK, LockInv, NoHandleLeak
<1>2. LockInv'
  BY DEF TypeOK, LockInv
<1>3. FlagInv'
  BY DEF TypeOK, FlagInv
<1> QED
  BY <1>1, <1>2, <1>3

\* The caller is alone inside, so no other run has succeeded since it looked
\* at the flag.
LEMMA InitializeStep == ASSUME IInv, NEW g \in Caller, Initialize(g) PROVE IInv'
<1> USE SharedInitAssumption DEF IInv, Goto, Initialize
<1>1. TypeOK' /\ NoHandleLeak'
  BY DEF TypeOK, LockInv, NoHandleLeak
<1>2. LockInv'
  BY DEF TypeOK, LockInv
<1>3. successes = 0 /\ \A h \in Caller : pc[h] # "mark"
  BY DEF TypeOK, LockInv, FlagInv
<1>4. FlagInv'
  BY <1>3 DEF TypeOK, FlagInv
<1> QED
  BY <1>1, <1>2, <1>4

\* A run that succeeded becomes the flag, and the lock is free again.
LEMMA MarkStep == ASSUME IInv, NEW g \in Caller, Mark(g) PROVE IInv'
<1> USE SharedInitAssumption DEF IInv, Goto, Mark
<1>1. TypeOK' /\ NoHandleLeak'
  BY DEF TypeOK, LockInv, NoHandleLeak
<1>2. LockInv'
  BY DEF TypeOK, LockInv
<1>3. \A h \in Caller : pc'[h] \notin {"init", "mark"}
  BY DEF TypeOK, LockInv
<1>4. FlagInv'
  BY <1>3 DEF TypeOK, FlagInv
<1> QED
  BY <1>1, <1>2, <1>4

\* IInv is preserved by every step.
LEMMA NextStep == IInv /\ [Next]_vars => IInv'
<1> SUFFICES ASSUME IInv, [Next]_vars PROVE IInv'
  OBVIOUS
<1>1. CASE Close
  BY <1>1 DEF Close, IInv, TypeOK, LockInv, FlagInv, NoHandleLeak
<1>2. CASE UNCHANGED vars
  BY <1>2 DEF vars, IInv, TypeOK, LockInv, FlagInv, NoHandleLeak
<1> QED
  BY <1>1, <1>2, OutsideStep, LockStep, CheckStep, InitializeStep, MarkStep
     DEF Next, Proceed

\* IInv is an invariant: a caller inside has the lock, and the flag counts
\* the successful runs.
THEOREM Invariance == Spec => []IInv
  BY InitInv, NextStep, PTL DEF Spec

\* Variables keep their types, and sharedInitMu is held only by a caller
\* inside initializeShared (datafusion.go:212-215).
THEOREM TypeCorrect == Spec => []TypeOK
  BY Invariance, PTL DEF IInv

\* At most one run of the initializer ever succeeds, and no two overlap.
THEOREM InitializedOnceCorrect == Spec => []InitializedOnce
<1>1. IInv => InitializedOnce
  BY DEF IInv, LockInv, FlagInv, InitializedOnce
<1> QED
  BY <1>1, Invariance, PTL

\* Connect never hands out a connection to an uninitialized session.
THEOREM ConnectedInitializedCorrect == Spec => []ConnectedInitialized
<1>1. IInv => ConnectedInitialized
  BY DEF IInv, FlagInv, ConnectedInitialized
<1> QED
  BY <1>1, Invariance, PTL

\* A Connect that failed has closed the native connection it opened.
THEOREM NoHandleLeakCorrect == Spec => []NoHandleLeak
  BY Invariance, PTL DEF IInv
=============================================================================
