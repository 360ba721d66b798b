---------------------------- MODULE ConnectionProofs ----------------------------
(***************************************************************************)
(* The safety of module Connection, for any goroutines, statements and     *)
(* number of sessions, and its refinement of SessionContract.              *)
(***************************************************************************)
EXTENDS Connection, TLAPS

UnderMu == {"native", "wantStmt", "closeStmt", "invalidate"}

\* Who holds Conn.mu and each Stmt.mu.
LocksInv ==
    /\ \A g \in Goroutine : mu = g <=> pc[g] \in UnderMu
    /\ \A g \in Goroutine, s \in Stmt : stmtMu[s] = g <=> pc[g] = "exec" /\ stm[g] = s

\* What a goroutine works on, by where it is.
JobsInv ==
    \A g \in Goroutine :
        /\ pc[g] \in {"wantExec", "wantStmt", "exec", "closeStmt"} => stm[g] \in prepared
        /\ pc[g] = "wantDdl" /\ job[g] = "stmt" => stm[g] \in prepared
        /\ pc[g] = "native" => own[g] = current /\ ~closed
        /\ pc[g] = "exec" => native[stm[g]] = own[g]
        /\ pc[g] = "exec" \/ Bound(g) => own[g] # NoSession
        /\ pc[g] = "invalidate" => job[g] = IF closed THEN "close" ELSE "reset"

\* Conn.conn is nil once a close is over, and not before.
CurrentInv ==
    /\ open \subseteq 1 .. opened
    /\ current # NoSession => current \in open
    /\ ~closed => current # NoSession
    /\ closed /\ current # NoSession => \E g \in Goroutine : pc[g] = "invalidate"
    /\ \A g \in Goroutine : pc[g] = "invalidate" => current # NoSession

\* A listed statement is an open one, and only those have native statements,
\* all of the current session; an invalidation finds them all.
StatementsInv ==
    /\ listed = prepared \ stmtClosed
    /\ \A s \in Stmt : native[s] # NoSession => native[s] = current /\ s \in listed
    /\ \A g \in Goroutine, s \in Stmt :
          pc[g] = "invalidate" /\ native[s] # NoSession => s \in todo[g]

Keeps(g) == Replacing(g) \/ pc[g] = "closeOld"

\* The session a reset installs or closes is its own.
KeepsInv ==
    /\ \A g \in Goroutine : Keeps(g) => own[g] \in open \ {current}
    /\ \A g, h \in Goroutine : Keeps(g) /\ Keeps(h) /\ own[g] = own[h] => g = h

\* What the steps preserve, once the types are known.
Consistent ==
    LocksInv /\ JobsInv /\ CurrentInv /\ StatementsInv /\ KeepsInv /\ NoSessionLeak

IInv == TypeOK /\ Consistent

-----------------------------------------------------------------------------
LEMMA SomeStmtIsOne == SomeStmt \in Stmt
  BY ConnectionAssumption DEF SomeStmt

\* A session opened next is none of those before.
LEMMA SessionNumbers ==
    /\ NoSession \notin Session /\ 1 \in Session /\ 1 .. 1 = {1}
    /\ \A n \in Session : 1 .. n \subseteq Session
    /\ \A n \in Session : n < MaxSessions => /\ n + 1 \in Session /\ n + 1 \notin 1 .. n
                                             /\ 1 .. (n + 1) = (1 .. n) \union {n + 1}
  BY ConnectionAssumption DEF Session, NoSession

LEMMA InitInv == Init => IInv
  <1> SUFFICES ASSUME Init PROVE IInv
    OBVIOUS
  <1> USE ConnectionAssumption, SomeStmtIsOne, SessionNumbers DEF Init
  <1>1. TypeOK
    BY DEF TypeOK, Places, Jobs
  <1>2. LocksInv /\ JobsInv
    BY DEF LocksInv, JobsInv, UnderMu, Bound
  <1>3. CurrentInv /\ StatementsInv
    BY DEF CurrentInv, StatementsInv
  <1>4. KeepsInv /\ NoSessionLeak
    BY DEF KeepsInv, NoSessionLeak, Keeps, Replacing
  <1> QED
    BY <1>1, <1>2, <1>3, <1>4 DEF IInv, Consistent

\* What a call leaves in its locals and in the shared state is of its type.
LEMMA TypeStep == TypeOK /\ JobsInv /\ [Next]_vars => TypeOK'
  <1> USE ConnectionAssumption, SomeStmtIsOne
      DEF TypeOK, Places, Jobs, Set, Goto, Return, Lock, Unlock, ReleaseDdl,
          EndExecution, ToInvalidate, conn, stmts, locals
  <1>1. ASSUME TypeOK, NEW g \in Goroutine, NEW j \in {"prepare", "query", "call"}, BeginNative(g, j) PROVE TypeOK'
    BY <1>1 DEF BeginNative
  <1>2. ASSUME TypeOK, NEW g \in Goroutine, BeginExtension(g) PROVE TypeOK'
    BY <1>2 DEF BeginExtension
  <1>3. ASSUME TypeOK, NEW g \in Goroutine, NEW s \in Stmt, BeginExec(g, s) PROVE TypeOK'
    BY <1>3 DEF BeginExec
  <1>4. ASSUME TypeOK, NEW g \in Goroutine, NEW s \in Stmt, BeginCloseStmt(g, s) PROVE TypeOK'
    BY <1>4 DEF BeginCloseStmt
  <1>5. ASSUME TypeOK, NEW g \in Goroutine, BeginReset(g) PROVE TypeOK'
    BY <1>5 DEF BeginReset
  <1>6. ASSUME TypeOK, NEW g \in Goroutine, EnterNative(g) \/ AbandonExtension(g) PROVE TypeOK'
    BY <1>6 DEF EnterNative, AbandonExtension
  <1>7. ASSUME TypeOK, NEW g \in Goroutine, LeavePrepare(g) PROVE TypeOK'
    BY <1>7 DEF LeavePrepare
  <1>8. ASSUME TypeOK, NEW g \in Goroutine, LeaveQuery(g) PROVE TypeOK'
    BY <1>8 DEF LeaveQuery
  <1>9. ASSUME TypeOK, NEW g \in Goroutine, LeaveCall(g) PROVE TypeOK'
    BY <1>9 DEF LeaveCall
  <1>10. ASSUME TypeOK, NEW g \in Goroutine, LockDdl(g) PROVE TypeOK'
    BY <1>10 DEF LockDdl
  <1>11. ASSUME TypeOK, NEW g \in Goroutine, AbandonDdl(g) PROVE TypeOK'
    BY <1>11 DEF AbandonDdl
  <1>12. ASSUME TypeOK, NEW g \in Goroutine, ExecuteDirect(g) PROVE TypeOK'
    BY <1>12 DEF ExecuteDirect
  <1>13. ASSUME TypeOK, NEW g \in Goroutine, LockExec(g) PROVE TypeOK'
    BY <1>13 DEF LockExec
  <1>14. ASSUME TypeOK, NEW g \in Goroutine, StartExec(g) PROVE TypeOK'
    BY <1>14 DEF StartExec
  <1>15. ASSUME TypeOK, NEW g \in Goroutine, FinishExec(g) PROVE TypeOK'
    BY <1>15 DEF FinishExec
  <1>16. ASSUME TypeOK, NEW g \in Goroutine, CloseReader(g) PROVE TypeOK'
    BY <1>16 DEF CloseReader
  <1>17. ASSUME TypeOK, JobsInv, NEW g \in Goroutine, EndCloseStmt(g) PROVE TypeOK'
    <2>1. stm[g] \in prepared /\ NoSession \in Session \union {NoSession}
      BY <1>17 DEF JobsInv, EndCloseStmt
    <2>2. native' \in [Stmt -> Session \union {NoSession}]
      BY <1>17, <2>1 DEF EndCloseStmt
    <2> QED
      BY <1>17, <2>1, <2>2 DEF EndCloseStmt
  <1>18. ASSUME TypeOK, NEW g \in Goroutine, CloseConn(g) PROVE TypeOK'
    <2>1. CASE closed
      BY <1>18, <2>1 DEF CloseConn
    <2>2. CASE ~closed
      BY <1>18, <2>2 DEF CloseConn
    <2> QED
      BY <1>18, <2>1, <2>2 DEF CloseConn
  <1>19. ASSUME TypeOK, NEW g \in Goroutine, NEW s \in Stmt, Invalidate(g, s) PROVE TypeOK'
    BY <1>19 DEF Invalidate
  <1>20. ASSUME TypeOK, NEW g \in Goroutine, EndClose(g) PROVE TypeOK'
    <2>1. CASE Return(g)
      BY <1>20, <2>1 DEF EndClose
    <2>2. CASE Goto(g, "closeConnector") /\ UNCHANGED locals
      BY <1>20, <2>2 DEF EndClose
    <2> QED
      BY <1>20, <2>1, <2>2 DEF EndClose
  <1>21. ASSUME TypeOK, NEW g \in Goroutine, CloseConnector(g) PROVE TypeOK'
    BY <1>21 DEF CloseConnector
  <1>22. ASSUME TypeOK, NEW g \in Goroutine, Connect(g) PROVE TypeOK'
    <2>1. CASE opened' = opened + 1
      <3>1. opened + 1 \in Session
        BY <1>22, <2>1, SessionNumbers DEF Connect
      <3>2. /\ Set(g, "init", "reset", SomeStmt, opened + 1, {})
            /\ open' = open \union {opened + 1}
        BY <1>22, <2>1 DEF Connect
      <3> QED
        BY <1>22, <2>1, <3>1, <3>2 DEF Connect
    <2>2. CASE UNCHANGED <<open, opened, locals>>
      BY <1>22, <2>2 DEF Connect
    <2> QED
      BY <1>22, <2>1, <2>2 DEF Connect
  <1>23. ASSUME TypeOK, NEW g \in Goroutine, Initialize(g) PROVE TypeOK'
    <2>1. CASE Goto(g, "swap") /\ UNCHANGED <<open, locals>>
      BY <1>23, <2>1 DEF Initialize
    <2>2. CASE Set(g, "failed", "reset", SomeStmt, NoSession, {})
      BY <1>23, <2>2 DEF Initialize
    <2> QED
      BY <1>23, <2>1, <2>2 DEF Initialize
  <1>24. ASSUME TypeOK, NEW g \in Goroutine, Swap(g) PROVE TypeOK'
    <2>1. CASE closed \/ current = NoSession
      BY <1>24, <2>1 DEF Swap
    <2>2. CASE ~(closed \/ current = NoSession)
      BY <1>24, <2>2 DEF Swap
    <2> QED
      BY <1>24, <2>1, <2>2 DEF Swap
  <1>25. ASSUME TypeOK, NEW g \in Goroutine, EndSwap(g) PROVE TypeOK'
    BY <1>25 DEF EndSwap
  <1>26. ASSUME TypeOK, NEW g \in Goroutine, CloseOld(g) PROVE TypeOK'
    BY <1>26 DEF CloseOld
  <1>27. ASSUME TypeOK, UNCHANGED vars PROVE TypeOK'
    BY <1>27 DEF vars
  <1> HIDE DEF TypeOK
  <1> QED
    BY <1>1, <1>2, <1>3, <1>4, <1>5, <1>6, <1>7, <1>8, <1>9, <1>10, <1>11, <1>12, <1>13, <1>14,
       <1>15, <1>16, <1>17, <1>18, <1>19, <1>20, <1>21, <1>22, <1>23, <1>24, <1>25, <1>26, <1>27 DEF Next, Begin, Continue, Abandon

(* A step keeps the rest of IInv.  Where an action can end in two ways,    *)
(* each is a case.                                                         *)
LEMMA ConsistentStep == IInv /\ [Next]_vars => Consistent'
  <1> USE ConnectionAssumption, SomeStmtIsOne, SessionNumbers
      DEF IInv, Consistent, TypeOK, LocksInv, JobsInv, CurrentInv, StatementsInv,
          KeepsInv, NoSessionLeak, Keeps, Replacing, Bound, UnderMu, Set, Goto, Return,
          Lock, Unlock, ReleaseDdl, EndExecution, ToInvalidate, conn, stmts, locals
  <1>1. ASSUME IInv, TypeOK', NEW g \in Goroutine, NEW j \in {"prepare", "query", "call"}, BeginNative(g, j) PROVE Consistent'
    BY <1>1 DEF BeginNative
  <1>2. ASSUME IInv, TypeOK', NEW g \in Goroutine, BeginExtension(g) PROVE Consistent'
    BY <1>2 DEF BeginExtension
  <1>3. ASSUME IInv, TypeOK', NEW g \in Goroutine, NEW s \in Stmt, BeginExec(g, s) PROVE Consistent'
    BY <1>3 DEF BeginExec
  <1>4. ASSUME IInv, TypeOK', NEW g \in Goroutine, NEW s \in Stmt, BeginCloseStmt(g, s) PROVE Consistent'
    BY <1>4 DEF BeginCloseStmt
  <1>5. ASSUME IInv, TypeOK', NEW g \in Goroutine, BeginReset(g) PROVE Consistent'
    BY <1>5 DEF BeginReset
  <1>6. ASSUME IInv, TypeOK', NEW g \in Goroutine, EnterNative(g) \/ AbandonExtension(g) PROVE Consistent'
    <2>1. CASE mu = Free /\ mu' = g
      <3>1. LocksInv'
        BY <1>6, <2>1 DEF EnterNative, AbandonExtension
      <3>2. JobsInv'
        BY <1>6, <2>1 DEF EnterNative, AbandonExtension
      <3>3. CurrentInv'
        BY <1>6, <2>1 DEF EnterNative, AbandonExtension
      <3>4. StatementsInv'
        BY <1>6, <2>1 DEF EnterNative, AbandonExtension
      <3>5. KeepsInv'
        BY <1>6, <2>1 DEF EnterNative, AbandonExtension
      <3>6. NoSessionLeak'
        BY <1>6, <2>1 DEF EnterNative, AbandonExtension
      <3> QED
        BY <3>1, <3>2, <3>3, <3>4, <3>5, <3>6
    <2>2. CASE Return(g) /\ ReleaseDdl(g) /\ UNCHANGED mu
      <3>0. pc[g] = "wantNative" /\ UNCHANGED <<conn, stmts, stmtMu>>
        BY <1>6 DEF EnterNative, AbandonExtension
      <3>1. LocksInv'
        BY <1>6, <2>2, <3>0
      <3>2. JobsInv'
        BY <1>6, <2>2, <3>0
      <3>3. CurrentInv' /\ StatementsInv'
        BY <1>6, <2>2, <3>0
      <3>4. KeepsInv'
        BY <1>6, <2>2, <3>0
      <3>5. NoSessionLeak'
        BY <1>6, <2>2, <3>0
      <3> QED
        BY <3>1, <3>2, <3>3, <3>4, <3>5
    <2> QED
      BY <1>6, <2>1, <2>2 DEF EnterNative, AbandonExtension
  <1>7. ASSUME IInv, TypeOK', NEW g \in Goroutine, LeavePrepare(g) PROVE Consistent'
    BY <1>7 DEF LeavePrepare
  <1>8. ASSUME IInv, TypeOK', NEW g \in Goroutine, LeaveQuery(g) PROVE Consistent'
    <2>1. CASE Return(g)
      BY <1>8, <2>1 DEF LeaveQuery
    <2>2. CASE Goto(g, "wantDdl") /\ UNCHANGED locals
      BY <1>8, <2>2 DEF LeaveQuery
    <2>3. CASE Goto(g, "direct") /\ UNCHANGED locals
      BY <1>8, <2>3 DEF LeaveQuery
    <2> QED
      BY <1>8, <2>1, <2>2, <2>3 DEF LeaveQuery
  <1>9. ASSUME IInv, TypeOK', NEW g \in Goroutine, LeaveCall(g) PROVE Consistent'
    BY <1>9 DEF LeaveCall
  <1>10. ASSUME IInv, TypeOK', NEW g \in Goroutine, LockDdl(g) PROVE Consistent'
    BY <1>10 DEF LockDdl
  <1>11. ASSUME IInv, TypeOK', NEW g \in Goroutine, AbandonDdl(g) PROVE Consistent'
    BY <1>11 DEF AbandonDdl
  <1>12. ASSUME IInv, TypeOK', NEW g \in Goroutine, ExecuteDirect(g) PROVE Consistent'
    <2>1. CASE Goto(g, "reader") /\ UNCHANGED <<ddlMu, locals>>
      BY <1>12, <2>1 DEF ExecuteDirect
    <2>2. CASE ReleaseDdl(g) /\ Return(g)
      BY <1>12, <2>2 DEF ExecuteDirect
    <2> QED
      BY <1>12, <2>1, <2>2 DEF ExecuteDirect
  <1>13. ASSUME IInv, TypeOK', NEW g \in Goroutine, LockExec(g) PROVE Consistent'
    BY <1>13 DEF LockExec
  <1>14. ASSUME IInv, TypeOK', NEW g \in Goroutine, StartExec(g) PROVE Consistent'
    <2>1. CASE ReleaseDdl(g) /\ Return(g) /\ UNCHANGED <<stmts, stmtMu>>
      BY <1>14, <2>1 DEF StartExec
    <2>2. CASE pc'[g] = "exec"
      <3>1. LocksInv'
        BY <1>14, <2>2 DEF StartExec
      <3>2. JobsInv'
        BY <1>14, <2>2 DEF StartExec
      <3>3. CurrentInv'
        BY <1>14, <2>2 DEF StartExec
      <3>4. StatementsInv'
        <4>1. /\ UNCHANGED <<listed, prepared, stmtClosed, current>>
              /\ \A h \in Goroutine : pc'[h] # "invalidate"
              /\ stm[g] \in listed
          BY <1>14, <2>2 DEF StartExec
        <4>2. \A s \in Stmt : native'[s] = native[s] \/ (s = stm[g] /\ native'[s] = current)
          BY <1>14, <2>2 DEF StartExec
        <4>3. StatementsInv
          BY <1>14
        <4> QED
          BY <4>1, <4>2, <4>3
      <3>5. KeepsInv'
        <4>1. UNCHANGED <<open, current>> /\ ~Keeps(g)'
          BY <1>14, <2>2 DEF StartExec
        <4>2. \A h \in Goroutine : h # g => (Keeps(h)' <=> Keeps(h)) /\ own'[h] = own[h]
          BY <1>14, <2>2 DEF StartExec
        <4>3. KeepsInv
          BY <1>14
        <4> QED
          BY <4>1, <4>2, <4>3
      <3>6. NoSessionLeak'
        BY <1>14, <2>2 DEF StartExec
      <3> QED
        BY <3>1, <3>2, <3>3, <3>4, <3>5, <3>6
    <2> QED
      BY <1>14, <2>1, <2>2 DEF StartExec
  <1>15. ASSUME IInv, TypeOK', NEW g \in Goroutine, FinishExec(g) PROVE Consistent'
    BY <1>15 DEF FinishExec
  <1>16. ASSUME IInv, TypeOK', NEW g \in Goroutine, CloseReader(g) PROVE Consistent'
    BY <1>16 DEF CloseReader
  <1>17. ASSUME IInv, TypeOK', NEW g \in Goroutine, EndCloseStmt(g) PROVE Consistent'
    BY <1>17 DEF EndCloseStmt
  <1>18. ASSUME IInv, TypeOK', NEW g \in Goroutine, CloseConn(g) PROVE Consistent'
    <2>1. CASE closed
      <3>1. LocksInv'
        BY <1>18, <2>1 DEF CloseConn
      <3>2. JobsInv'
        BY <1>18, <2>1 DEF CloseConn
      <3>3. CurrentInv'
        BY <1>18, <2>1 DEF CloseConn
      <3>4. StatementsInv'
        BY <1>18, <2>1 DEF CloseConn
      <3>5. KeepsInv'
        BY <1>18, <2>1 DEF CloseConn
      <3>6. NoSessionLeak'
        <4>1. /\ pc[g] = "failed" /\ pc'[g] = "idle" /\ UNCHANGED <<open, current>>
              /\ \A h \in Goroutine : h # g => pc'[h] = pc[h] /\ job'[h] = job[h] /\ own'[h] = own[h]
          BY <1>18, <2>1 DEF CloseConn
        <4>2. NoSessionLeak
          BY <1>18
        <4> QED
          BY <4>1, <4>2
      <3> QED
        BY <3>1, <3>2, <3>3, <3>4, <3>5, <3>6
    <2>2. CASE ~closed
      <3>1. LocksInv'
        BY <1>18, <2>2 DEF CloseConn
      <3>2. JobsInv'
        BY <1>18, <2>2 DEF CloseConn
      <3>3. CurrentInv'
        BY <1>18, <2>2 DEF CloseConn
      <3>4. StatementsInv'
        BY <1>18, <2>2 DEF CloseConn
      <3>5. KeepsInv'
        BY <1>18, <2>2 DEF CloseConn
      <3>6. NoSessionLeak'
        BY <1>18, <2>2 DEF CloseConn
      <3> QED
        BY <3>1, <3>2, <3>3, <3>4, <3>5, <3>6
    <2> QED
      BY <1>18, <2>1, <2>2 DEF CloseConn
  <1>19. ASSUME IInv, TypeOK', NEW g \in Goroutine, NEW s \in Stmt, Invalidate(g, s) PROVE Consistent'
    BY <1>19 DEF Invalidate
  <1>20. ASSUME IInv, TypeOK', NEW g \in Goroutine, EndClose(g) PROVE Consistent'
    <2>1. CASE Return(g)
      <3>1. LocksInv'
        BY <1>20, <2>1 DEF EndClose
      <3>2. JobsInv'
        BY <1>20, <2>1 DEF EndClose
      <3>3. CurrentInv'
        BY <1>20, <2>1 DEF EndClose
      <3>4. StatementsInv'
        BY <1>20, <2>1 DEF EndClose
      <3>5. KeepsInv'
        BY <1>20, <2>1 DEF EndClose
      <3>6. NoSessionLeak'
        BY <1>20, <2>1 DEF EndClose
      <3> QED
        BY <3>1, <3>2, <3>3, <3>4, <3>5, <3>6
    <2>2. CASE Goto(g, "closeConnector") /\ UNCHANGED locals
      BY <1>20, <2>2 DEF EndClose
    <2> QED
      BY <1>20, <2>1, <2>2 DEF EndClose
  <1>21. ASSUME IInv, TypeOK', NEW g \in Goroutine, CloseConnector(g) PROVE Consistent'
    BY <1>21 DEF CloseConnector
  <1>22. ASSUME IInv, TypeOK', NEW g \in Goroutine, Connect(g) PROVE Consistent'
    <2>1. CASE opened' = opened + 1
      <3>0. /\ opened \in Session /\ opened < MaxSessions /\ open \subseteq 1 .. opened
            /\ current = NoSession \/ current \in open
        BY <1>22, <2>1 DEF Connect
      <3>1. /\ opened + 1 \in Session /\ opened + 1 \notin open \union {current, NoSession}
            /\ 1 .. opened' = (1 .. opened) \union {opened + 1} /\ current # opened + 1
        BY <3>0, <2>1
      <3>2. /\ Set(g, "init", "reset", SomeStmt, opened + 1, {}) /\ pc[g] = "connect"
            /\ open' = open \union {opened + 1} /\ current' = current
        BY <1>22, <2>1, <3>0, <3>1 DEF Connect
      <3>3. LocksInv' /\ JobsInv' /\ StatementsInv'
        BY <1>22, <3>1, <3>2 DEF Connect
      <3>4. CurrentInv'
        BY <1>22, <2>1, <3>1, <3>2 DEF Connect
      <3>5. KeepsInv'
        BY <1>22, <3>1, <3>2 DEF Connect
      <3>6. NoSessionLeak'
        BY <1>22, <3>1, <3>2 DEF Connect
      <3> QED
        BY <3>3, <3>4, <3>5, <3>6
    <2>2. CASE UNCHANGED <<open, opened, locals>>
      BY <1>22, <2>2 DEF Connect
    <2> QED
      BY <1>22, <2>1, <2>2 DEF Connect
  <1>23. ASSUME IInv, TypeOK', NEW g \in Goroutine, Initialize(g) PROVE Consistent'
    <2>1. CASE Goto(g, "swap") /\ UNCHANGED <<open, locals>>
      BY <1>23, <2>1 DEF Initialize
    <2>2. CASE open' = open \ {own[g]} /\ Set(g, "failed", "reset", SomeStmt, NoSession, {})
      <3>1. LocksInv'
        BY <1>23, <2>2 DEF Initialize
      <3>2. JobsInv'
        BY <1>23, <2>2 DEF Initialize
      <3>3. CurrentInv'
        BY <1>23, <2>2 DEF Initialize
      <3>4. StatementsInv'
        BY <1>23, <2>2 DEF Initialize
      <3>5. KeepsInv'
        BY <1>23, <2>2 DEF Initialize
      <3>6. NoSessionLeak'
        BY <1>23, <2>2 DEF Initialize
      <3> QED
        BY <3>1, <3>2, <3>3, <3>4, <3>5, <3>6
    <2> QED
      BY <1>23, <2>1, <2>2 DEF Initialize
  <1>24. ASSUME IInv, TypeOK', NEW g \in Goroutine, Swap(g) PROVE Consistent'
    <2>1. CASE closed \/ current = NoSession
      <3>1. LocksInv' /\ JobsInv'
        BY <1>24, <2>1 DEF Swap
      <3>2. CurrentInv'
        <4>1. own[g] # current /\ pc'[g] = "idle" /\ pc[g] = "swap"
              /\ open' = open \ {own[g]} /\ UNCHANGED <<current, closed, opened>>
              /\ \A h \in Goroutine : pc'[h] = "invalidate" <=> pc[h] = "invalidate"
          BY <1>24, <2>1 DEF Swap
        <4> QED
          BY <1>24, <4>1
      <3>3. StatementsInv' /\ KeepsInv'
        BY <1>24, <2>1 DEF Swap
      <3>4. NoSessionLeak'
        BY <1>24, <2>1 DEF Swap
      <3> QED
        BY <3>1, <3>2, <3>3, <3>4
    <2>2. CASE ~(closed \/ current = NoSession)
      <3>1. LocksInv' /\ JobsInv'
        BY <1>24, <2>2 DEF Swap
      <3>2. CurrentInv'
        <4>1. pc'[g] = "invalidate" /\ UNCHANGED <<current, closed, open, opened>>
          BY <1>24, <2>2 DEF Swap
        <4> QED
          BY <1>24, <2>2, <4>1
      <3>3. StatementsInv'
        BY <1>24, <2>2 DEF Swap
      <3>4. KeepsInv'
        <4>1. UNCHANGED <<open, current>> /\ own'[g] = own[g]
          BY <1>24, <2>2 DEF Swap
        <4>2. \A h \in Goroutine : (Keeps(h)' <=> Keeps(h)) /\ own'[h] = own[h]
          BY <1>24, <2>2 DEF Swap
        <4>3. KeepsInv
          BY <1>24
        <4> QED
          BY <4>1, <4>2, <4>3
      <3>5. NoSessionLeak'
        BY <1>24, <2>2 DEF Swap
      <3> QED
        BY <3>1, <3>2, <3>3, <3>4, <3>5
    <2> QED
      BY <2>1, <2>2
  <1>25. ASSUME IInv, TypeOK', NEW g \in Goroutine, EndSwap(g) PROVE Consistent'
    <2>1. LocksInv'
      BY <1>25 DEF EndSwap
    <2>2. JobsInv'
      BY <1>25 DEF EndSwap
    <2>3. CurrentInv'
      BY <1>25 DEF EndSwap
    <2>4. StatementsInv'
      BY <1>25 DEF EndSwap
    <2>5. KeepsInv'
      BY <1>25 DEF EndSwap
    <2>6. NoSessionLeak'
      BY <1>25 DEF EndSwap
    <2> QED
      BY <2>1, <2>2, <2>3, <2>4, <2>5, <2>6
  <1>26. ASSUME IInv, TypeOK', NEW g \in Goroutine, CloseOld(g) PROVE Consistent'
    BY <1>26 DEF CloseOld
  <1>27. ASSUME IInv, UNCHANGED vars PROVE Consistent'
    BY <1>27 DEF vars
  <1>t. IInv /\ [Next]_vars => TypeOK'
    BY TypeStep
  <1> HIDE DEF IInv, Consistent
  <1> QED
    BY <1>t, <1>1, <1>2, <1>3, <1>4, <1>5, <1>6, <1>7, <1>8, <1>9, <1>10, <1>11, <1>12, <1>13, <1>14,
       <1>15, <1>16, <1>17, <1>18, <1>19, <1>20, <1>21, <1>22, <1>23, <1>24, <1>25, <1>26, <1>27 DEF Next, Begin, Continue, Abandon

THEOREM ConnectionInvariant == Spec => []IInv
  <1>1. IInv /\ [Next]_vars => IInv'
    BY TypeStep, ConsistentStep DEF IInv, Consistent
  <1> QED
    BY <1>1, InitInv, PTL DEF Spec

(* The types of the connection, its statements and the goroutines; a       *)
(* listed statement is prepared and not closed.                            *)
THEOREM TypeCorrect == Spec => []TypeOK
  <1>1. IInv => TypeOK
    BY DEF IInv
  <1> QED
    BY <1>1, ConnectionInvariant, PTL

(* No cached native statement survives a reset on the old session, and     *)
(* none outlives a closed Conn (invalidateStatementsLocked).               *)
THEOREM StatementsFollow == Spec => []StatementsFollowSession
  <1>1. IInv => StatementsFollowSession
    BY DEF IInv, Consistent, StatementsInv, StatementsFollowSession, TypeOK
  <1> QED
    BY <1>1, ConnectionInvariant, PTL

(* The native connection a call uses under Conn.mu and the statement an    *)
(* execution uses under Stmt.mu are not freed while they are used.         *)
THEOREM HandlesOutliveUse == Spec => []NoUseAfterFree
  <1>1. IInv => NoUseAfterFree
    BY DEF IInv, Consistent, JobsInv, CurrentInv, NoUseAfterFree
  <1> QED
    BY <1>1, ConnectionInvariant, PTL

(* No failure path of ResetSession, and no race of it with Close, leaks a  *)
(* native session.                                                         *)
THEOREM SessionsAreReleased == Spec => []NoSessionLeak
  <1>1. IInv => NoSessionLeak
    BY DEF IInv, Consistent
  <1> QED
    BY <1>1, ConnectionInvariant, PTL

(* Conn.conn is nil in a closed Conn and only there: the code tests closed *)
(* alone before it uses the session (connection.go, statement.go).         *)
THEOREM UsableWhileOpen == Spec => []UsableUntilClosed
  <1>1. IInv => UsableUntilClosed
    BY ConnectionAssumption
       DEF IInv, Consistent, TypeOK, LocksInv, UnderMu, CurrentInv, UsableUntilClosed
  <1> QED
    BY <1>1, ConnectionInvariant, PTL

-----------------------------------------------------------------------------
(* The refinement.  A step of g is seen in the contract only through what  *)
(* it does to Conn.conn and to g's own session.                            *)

\* A step of g changes no other goroutine.
Alone(g) ==
    \A h \in Goroutine \ {g} : pc'[h] = pc[h] /\ job'[h] = job[h] /\ own'[h] = own[h]

LEMMA RetiredIs ==
    /\ \A n : n \in Retired <=>
          n \in 1 .. opened /\ n # current /\ \A h \in Goroutine : Replacing(h) => own[h] # n
    /\ \A n : n \in Retired' <=>
          n \in 1 .. opened' /\ n # current' /\ \A h \in Goroutine : Replacing(h)' => own'[h] # n
  BY DEF Retired

\* The sessions stay the same if g gains or loses no replacement.
LEMMA SameRetired ==
    ASSUME UNCHANGED <<current, opened>>, NEW g \in Goroutine, Alone(g),
           \/ ~Replacing(g) /\ ~Replacing(g)'
           \/ Replacing(g) /\ Replacing(g)' /\ own'[g] = own[g]
    PROVE  UNCHANGED Retired
  <1>1. \A h \in Goroutine : /\ Replacing(h)' <=> Replacing(h)
                             /\ Replacing(h) => own'[h] = own[h]
    BY DEF Alone, Replacing
  <1>2. \A n : n \in Retired' <=> n \in Retired
    BY <1>1, RetiredIs
  <1> QED
    BY <1>2 DEF Retired

LEMMA SameSessions ==
    ASSUME UNCHANGED <<current, closed, opened>>, NEW g \in Goroutine, Alone(g),
           \/ ~Replacing(g) /\ ~Replacing(g)'
           \/ Replacing(g) /\ Replacing(g)' /\ own'[g] = own[g]
    PROVE  UNCHANGED <<CurrentSession, Retired>>
  BY SameRetired DEF CurrentSession

\* What g works on is not seen if it is bound before and after, or not at all.
LEMMA SameBound ==
    ASSUME NEW g \in Goroutine, Alone(g), Bound(g)' <=> Bound(g),
           Bound(g) => own'[g] = own[g]
    PROVE  UNCHANGED BoundTo
  BY DEF Alone, Bound, BoundTo

LEMMA BindStep ==
    ASSUME NEW g \in Goroutine, Alone(g), ~Bound(g), Bound(g)', own'[g] = CurrentSession,
           CurrentSession # NoSession, UNCHANGED <<CurrentSession, Retired>>
    PROVE  Contract!Bind(g)
  BY DEF Alone, Bound, BoundTo, Contract!Bind

LEMMA FinishStep ==
    ASSUME NEW g \in Goroutine, Alone(g), Bound(g), ~Bound(g)', own[g] # NoSession,
           UNCHANGED <<CurrentSession, Retired>>
    PROVE  Contract!Finish(g)
  BY DEF Alone, Bound, BoundTo, Contract!Finish

\* A replacement that is given up was seen by no one else.
LEMMA DiscardStep ==
    ASSUME IInv, NEW g \in Goroutine, Alone(g), UNCHANGED <<current, closed, opened>>,
           Replacing(g), ~Replacing(g)', ~Bound(g), ~Bound(g)'
    PROVE  \E n \in Session : Contract!Discard(n)
  <1>1. /\ own[g] \in Session /\ own[g] \in 1 .. opened /\ own[g] # current
        /\ \A h \in Goroutine : Replacing(h) /\ own[h] = own[g] => h = g
    BY DEF IInv, TypeOK, Consistent, CurrentInv, KeepsInv, Keeps
  <1>2. \A h \in Goroutine : Replacing(h)' <=> Replacing(h) /\ h # g
    BY DEF Alone, Replacing
  <1>3. \A n : n \in Retired' <=> n \in Retired \union {own[g]}
    BY <1>1, <1>2, RetiredIs DEF Alone
  <1>4. Retired' = Retired \union {own[g]}
    BY <1>3 DEF Retired
  <1>5. UNCHANGED <<CurrentSession, BoundTo>> /\ own[g] # CurrentSession
    BY <1>1, SameBound, SessionNumbers DEF CurrentSession
  <1> QED
    BY <1>1, <1>4, <1>5 DEF Contract!Discard

\* A step the contract does not see: g has no replacement to give up or to
\* install, and works on what it worked on.
Quiet(g) ==
    /\ Alone(g)
    /\ UNCHANGED <<current, closed, opened>>
    /\ \/ ~Replacing(g) /\ ~Replacing(g)'
       \/ Replacing(g) /\ Replacing(g)' /\ own'[g] = own[g]
    /\ Bound(g)' <=> Bound(g)
    /\ Bound(g) => own'[g] = own[g]

LEMMA QuietStep ==
    ASSUME NEW g \in Goroutine, Quiet(g)
    PROVE  UNCHANGED <<CurrentSession, Retired, BoundTo>>
  BY SameSessions, SameBound DEF Quiet

LEMMA StepRefinement ==
    IInv /\ IInv' /\ [Next]_vars => [Contract!ContractNext]_(Contract!contractVars)
  <1> DEFINE Seen == [Contract!ContractNext]_(Contract!contractVars)
  <1>a. /\ \A g \in Goroutine : Contract!Bind(g) \/ Contract!Finish(g) => Seen
        /\ \A n \in Session : Contract!Replace(n) \/ Contract!Discard(n) => Seen
        /\ Contract!Shut => Seen
        /\ UNCHANGED <<CurrentSession, Retired, BoundTo>> => Seen
        /\ \A g \in Goroutine : Quiet(g) => Seen
    BY QuietStep DEF Contract!ContractNext, Contract!contractVars
  <1> USE DEF IInv, TypeOK, Places, Alone, Quiet, Replacing, Bound, Set, Goto, Return, conn, stmts, locals
  <1>1. ASSUME IInv, IInv', NEW g \in Goroutine, NEW j \in {"prepare", "query", "call"}, BeginNative(g, j) PROVE Quiet(g)
    BY <1>1 DEF BeginNative
  <1>2. ASSUME IInv, IInv', NEW g \in Goroutine, BeginExtension(g) PROVE Quiet(g)
    BY <1>2 DEF BeginExtension
  <1>3. ASSUME IInv, IInv', NEW g \in Goroutine, NEW s \in Stmt, BeginExec(g, s) PROVE Quiet(g)
    BY <1>3 DEF BeginExec
  <1>4. ASSUME IInv, IInv', NEW g \in Goroutine, NEW s \in Stmt, BeginCloseStmt(g, s) PROVE Quiet(g)
    BY <1>4 DEF BeginCloseStmt
  <1>5. ASSUME IInv, IInv', NEW g \in Goroutine, BeginReset(g) PROVE Quiet(g)
    BY <1>5 DEF BeginReset
  <1>6. ASSUME IInv, IInv', NEW g \in Goroutine, EnterNative(g) \/ AbandonExtension(g) PROVE Quiet(g)
    BY <1>6 DEF EnterNative, AbandonExtension
  <1>7. ASSUME IInv, IInv', NEW g \in Goroutine, LeavePrepare(g) PROVE Quiet(g)
    BY <1>7 DEF LeavePrepare
  <1>8. ASSUME IInv, IInv', NEW g \in Goroutine, LeaveCall(g) PROVE Quiet(g)
    BY <1>8 DEF LeaveCall
  <1>9. ASSUME IInv, IInv', NEW g \in Goroutine, LockExec(g) PROVE Quiet(g)
    BY <1>9 DEF LockExec
  <1>10. ASSUME IInv, IInv', NEW g \in Goroutine, EndCloseStmt(g) PROVE Quiet(g)
    BY <1>10 DEF EndCloseStmt
  <1>11. ASSUME IInv, IInv', NEW g \in Goroutine, CloseConnector(g) PROVE Quiet(g)
    BY <1>11 DEF CloseConnector
  <1>12. ASSUME IInv, IInv', NEW g \in Goroutine, LockDdl(g) PROVE Quiet(g)
    BY <1>12 DEF LockDdl
  <1>13. ASSUME IInv, IInv', NEW g \in Goroutine, CloseOld(g) PROVE Quiet(g)
    BY <1>13 DEF CloseOld
  <1>14. ASSUME IInv, IInv', NEW g \in Goroutine, NEW s \in Stmt, Invalidate(g, s) PROVE Quiet(g)
    BY <1>14 DEF Invalidate
  <1>15. ASSUME IInv, IInv', NEW g \in Goroutine, LeaveQuery(g) PROVE Seen
    <2>1. CASE Return(g)
      <3>1. Quiet(g)
        BY <1>15, <2>1 DEF LeaveQuery
      <3> QED
        BY <1>a, <3>1
    <2>2. CASE ~Return(g)
      <3>1. /\ Alone(g) /\ UNCHANGED <<current, closed, opened>>
            /\ ~Replacing(g) /\ ~Replacing(g)' /\ ~Bound(g) /\ Bound(g)'
            /\ own'[g] = own[g] /\ pc[g] = "native"
        BY <1>15, <2>2 DEF LeaveQuery
      <3>2. own'[g] = CurrentSession /\ CurrentSession # NoSession
        BY <1>15, <3>1 DEF Consistent, JobsInv, CurrentInv, CurrentSession
      <3> QED
        BY <1>a, <3>1, <3>2, SameSessions, BindStep
    <2> QED
      BY <2>1, <2>2
  <1>16. ASSUME IInv, IInv', NEW g \in Goroutine, StartExec(g) PROVE Seen
    <2>1. CASE Return(g)
      <3>1. Quiet(g)
        BY <1>16, <2>1 DEF StartExec
      <3> QED
        BY <1>a, <3>1
    <2>2. CASE ~Return(g)
      <3>1. /\ Alone(g) /\ UNCHANGED <<current, closed, opened>> /\ ~closed
            /\ ~Replacing(g) /\ ~Replacing(g)' /\ ~Bound(g) /\ Bound(g)'
            /\ own'[g] = IF native[stm[g]] = NoSession THEN current ELSE native[stm[g]]
            /\ stm[g] \in Stmt
        BY <1>16, <2>2 DEF StartExec
      <3>2. own'[g] = CurrentSession /\ CurrentSession # NoSession
        BY <1>16, <3>1 DEF Consistent, StatementsInv, CurrentInv, CurrentSession
      <3> QED
        BY <1>a, <3>1, <3>2, SameSessions, BindStep
    <2> QED
      BY <2>1, <2>2
  <1>17. ASSUME IInv, IInv', NEW g \in Goroutine, ExecuteDirect(g) PROVE Seen
    <2>1. CASE Return(g)
      <3>1. /\ Alone(g) /\ UNCHANGED <<current, closed, opened>>
            /\ ~Replacing(g) /\ ~Replacing(g)' /\ Bound(g) /\ ~Bound(g)'
        BY <1>17, <2>1 DEF ExecuteDirect
      <3>2. own[g] # NoSession
        BY <1>17, <3>1 DEF Consistent, JobsInv
      <3> QED
        BY <1>a, <3>1, <3>2, SameSessions, FinishStep
    <2>2. CASE ~Return(g)
      <3>1. Quiet(g)
        BY <1>17, <2>2 DEF ExecuteDirect, EndExecution
      <3> QED
        BY <1>a, <3>1
    <2> QED
      BY <2>1, <2>2
  <1>18. ASSUME IInv, IInv', NEW g \in Goroutine, FinishExec(g) PROVE Seen
    <2>1. CASE Return(g)
      <3>1. /\ Alone(g) /\ UNCHANGED <<current, closed, opened>>
            /\ ~Replacing(g) /\ ~Replacing(g)' /\ Bound(g) /\ ~Bound(g)'
        BY <1>18, <2>1 DEF FinishExec
      <3>2. own[g] # NoSession
        BY <1>18, <3>1 DEF Consistent, JobsInv
      <3> QED
        BY <1>a, <3>1, <3>2, SameSessions, FinishStep
    <2>2. CASE ~Return(g)
      <3>1. Quiet(g)
        BY <1>18, <2>2 DEF FinishExec, EndExecution
      <3> QED
        BY <1>a, <3>1
    <2> QED
      BY <2>1, <2>2
  <1>19. ASSUME IInv, IInv', NEW g \in Goroutine, CloseReader(g) PROVE Seen
    <2>1. CASE Return(g)
      <3>1. /\ Alone(g) /\ UNCHANGED <<current, closed, opened>>
            /\ ~Replacing(g) /\ ~Replacing(g)' /\ Bound(g) /\ ~Bound(g)'
        BY <1>19, <2>1 DEF CloseReader
      <3>2. own[g] # NoSession
        BY <1>19, <3>1 DEF Consistent, JobsInv
      <3> QED
        BY <1>a, <3>1, <3>2, SameSessions, FinishStep
    <2>2. CASE ~Return(g)
      <3>1. Quiet(g)
        BY <1>19, <2>2 DEF CloseReader, EndExecution
      <3> QED
        BY <1>a, <3>1
    <2> QED
      BY <2>1, <2>2
  <1>20. ASSUME IInv, IInv', NEW g \in Goroutine, AbandonDdl(g) PROVE Seen
    <2>1. CASE job[g] = "query"
      <3>1. /\ Alone(g) /\ UNCHANGED <<current, closed, opened>>
            /\ ~Replacing(g) /\ ~Replacing(g)' /\ Bound(g) /\ ~Bound(g)'
        BY <1>20, <2>1 DEF AbandonDdl
      <3>2. own[g] # NoSession
        BY <1>20, <3>1 DEF Consistent, JobsInv
      <3> QED
        BY <1>a, <3>1, <3>2, SameSessions, FinishStep
    <2>2. CASE job[g] # "query"
      <3>1. Quiet(g)
        BY <1>20, <2>2 DEF AbandonDdl
      <3> QED
        BY <1>a, <3>1
    <2> QED
      BY <2>1, <2>2
  <1>21. ASSUME IInv, IInv', NEW g \in Goroutine, CloseConn(g) PROVE Seen
    <2>1. CASE closed
      <3>1. Quiet(g)
        BY <1>21, <2>1 DEF CloseConn
      <3> QED
        BY <1>a, <3>1
    <2>2. CASE ~closed
      <3>1. /\ Alone(g) /\ UNCHANGED <<current, opened>> /\ closed'
            /\ ~Replacing(g) /\ ~Replacing(g)' /\ ~Bound(g) /\ ~Bound(g)'
        BY <1>21, <2>2 DEF CloseConn
      <3>2. CurrentSession # NoSession /\ CurrentSession' = NoSession
        BY <1>21, <2>2, <3>1 DEF Consistent, CurrentInv, CurrentSession
      <3>3. UNCHANGED <<Retired, BoundTo>>
        BY <3>1, SameRetired, SameBound
      <3> QED
        BY <1>a, <3>2, <3>3 DEF Contract!Shut
    <2> QED
      BY <2>1, <2>2
  <1>22. ASSUME IInv, IInv', NEW g \in Goroutine, EndClose(g) PROVE Seen
    <2>1. /\ Alone(g) /\ UNCHANGED <<closed, opened>> /\ current' = NoSession
          /\ ~Replacing(g) /\ ~Replacing(g)' /\ ~Bound(g) /\ ~Bound(g)'
          /\ pc[g] = "invalidate" /\ job[g] = "close"
      BY <1>22 DEF EndClose
    <2>2. /\ closed /\ current # NoSession /\ current \in Session /\ current \in 1 .. opened
          /\ \A h \in Goroutine : Replacing(h) => own[h] # current
      BY <1>22, <2>1 DEF Consistent, JobsInv, CurrentInv, KeepsInv, Keeps
    <2>3. \A n : n \in Retired' <=> n \in Retired \union {current}
      <3>1. \A h \in Goroutine : Replacing(h)' <=> Replacing(h)
        BY <2>1
      <3>2. \A h \in Goroutine : Replacing(h) => own'[h] = own[h]
        BY <2>1
      <3>3. NoSession \notin 1 .. opened
        BY <1>22, SessionNumbers
      <3> QED
        BY <2>1, <2>2, <3>1, <3>2, <3>3, RetiredIs
    <2>4. Retired' = Retired \union {current}
      BY <2>3 DEF Retired
    <2>5. UNCHANGED <<CurrentSession, BoundTo>> /\ current # CurrentSession
      BY <2>1, <2>2, SameBound DEF CurrentSession
    <2> QED
      BY <1>a, <2>2, <2>4, <2>5 DEF Contract!Discard
  <1>23. ASSUME IInv, IInv', NEW g \in Goroutine, EndSwap(g) PROVE Seen
    <2>1. /\ Alone(g) /\ UNCHANGED <<closed, opened>> /\ current' = own[g]
          /\ Replacing(g) /\ ~Replacing(g)' /\ ~Bound(g) /\ ~Bound(g)'
          /\ pc[g] = "invalidate" /\ job[g] = "reset"
      BY <1>23 DEF EndSwap
    <2>2. /\ ~closed /\ current # NoSession /\ current \in 1 .. opened
          /\ own[g] \in Session /\ own[g] # current
          /\ \A h \in Goroutine : Replacing(h) => own[h] # current
          /\ \A h \in Goroutine : Replacing(h) /\ own[h] = own[g] => h = g
      BY <1>23, <2>1 DEF Consistent, JobsInv, CurrentInv, KeepsInv, Keeps
    <2>3. \A n : n \in Retired' <=> n \in Retired \union {current}
      <3>1. \A h \in Goroutine : Replacing(h)' <=> Replacing(h) /\ h # g
        BY <2>1
      <3>2. \A h \in Goroutine : Replacing(h)' => own'[h] = own[h]
        BY <2>1
      <3> QED
        BY <2>1, <2>2, <3>1, <3>2, RetiredIs
    <2>4. Retired' = Retired \union {current} /\ own[g] \notin Retired
      BY <2>1, <2>3, RetiredIs DEF Retired
    <2>5. /\ UNCHANGED BoundTo /\ CurrentSession = current /\ CurrentSession' = own[g]
      BY <2>1, <2>2, SameBound DEF CurrentSession
    <2> QED
      BY <1>a, <2>2, <2>4, <2>5 DEF Contract!Replace
  <1>24. ASSUME IInv, IInv', NEW g \in Goroutine, Initialize(g) PROVE Seen
    <2>1. CASE Goto(g, "swap") /\ UNCHANGED <<open, locals>>
      <3>1. Quiet(g)
        BY <1>24, <2>1 DEF Initialize
      <3> QED
        BY <1>a, <3>1
    <2>2. CASE Set(g, "failed", "reset", SomeStmt, NoSession, {})
      <3>1. /\ Alone(g) /\ UNCHANGED <<current, closed, opened>>
            /\ Replacing(g) /\ ~Replacing(g)' /\ ~Bound(g) /\ ~Bound(g)'
        BY <1>24, <2>2 DEF Initialize
      <3> QED
        BY <1>24, <1>a, <3>1, DiscardStep
    <2> QED
      BY <1>24, <2>1, <2>2 DEF Initialize
  <1>25. ASSUME IInv, IInv', NEW g \in Goroutine, Swap(g) PROVE Seen
    <2>1. CASE ~(closed \/ current = NoSession)
      <3>1. Quiet(g)
        BY <1>25, <2>1 DEF Swap
      <3> QED
        BY <1>a, <3>1
    <2>2. CASE closed \/ current = NoSession
      <3>1. /\ Alone(g) /\ UNCHANGED <<current, closed, opened>>
            /\ Replacing(g) /\ ~Replacing(g)' /\ ~Bound(g) /\ ~Bound(g)'
        BY <1>25, <2>2 DEF Swap
      <3> QED
        BY <1>25, <1>a, <3>1, DiscardStep
    <2> QED
      BY <1>25, <2>1, <2>2 DEF Swap
  <1>26. ASSUME IInv, IInv', NEW g \in Goroutine, Connect(g) PROVE Seen
    <2>1. CASE Goto(g, "failed") /\ UNCHANGED <<open, opened, locals>>
      <3>1. Quiet(g)
        BY <1>26, <2>1 DEF Connect
      <3> QED
        BY <1>a, <3>1
    <2>2. CASE opened' = opened + 1 /\ Set(g, "init", "reset", SomeStmt, opened + 1, {})
      <3>1. /\ Alone(g) /\ UNCHANGED <<current, closed>> /\ opened < MaxSessions
            /\ ~Replacing(g) /\ Replacing(g)' /\ ~Bound(g) /\ ~Bound(g)'
            /\ own'[g] = opened + 1
        BY <1>26, <2>2 DEF Connect
      <3>2. 1 .. opened' = (1 .. opened) \union {opened + 1} /\ opened + 1 \notin 1 .. opened
        BY <1>26, <2>2, <3>1, SessionNumbers
      <3>3. \A n : n \in Retired' <=> n \in Retired
        <4>1. \A h \in Goroutine : Replacing(h)' <=> Replacing(h) \/ h = g
          BY <3>1
        <4>2. \A h \in Goroutine : Replacing(h) => own'[h] = own[h]
          BY <3>1
        <4>3. \A h \in Goroutine : Replacing(h) => own[h] \in 1 .. opened
          BY <1>26 DEF Consistent, CurrentInv, KeepsInv, Keeps
        <4>4. current # opened + 1
          BY <1>26, <3>2, SessionNumbers DEF Consistent, CurrentInv
        <4> QED
          BY <3>1, <3>2, <4>1, <4>2, <4>3, <4>4, RetiredIs
      <3>4. UNCHANGED <<CurrentSession, Retired, BoundTo>>
        BY <3>1, <3>3, SameBound DEF CurrentSession, Retired
      <3> QED
        BY <1>a, <3>4
    <2> QED
      BY <1>26, <2>1, <2>2 DEF Connect
  <1>27. ASSUME UNCHANGED vars PROVE Seen
    BY <1>27, <1>a DEF vars, CurrentSession, Retired, BoundTo
  <1> HIDE DEF IInv, Seen, Quiet
  <1>28. ASSUME IInv, IInv', [Next]_vars PROVE Seen
    BY <1>a, <1>28, <1>1, <1>2, <1>3, <1>4, <1>5, <1>6, <1>7, <1>8, <1>9, <1>10, <1>11, <1>12, <1>13, <1>14,
       <1>15, <1>16, <1>17, <1>18, <1>19, <1>20, <1>21, <1>22, <1>23, <1>24, <1>25, <1>26, <1>27
       DEF Next, Begin, Continue, Abandon
  <1> QED
    BY <1>28 DEF Seen

(* The Conn of an isolated connector keeps its contract: work is bound to  *)
(* the session current at that moment, a reset installs at once a session  *)
(* that was never current, and closing is final.                           *)
THEOREM Refinement == Spec => ImplementsSessionContract
  <1>1. Init => Contract!ContractInit
    BY SessionNumbers DEF Init, Contract!ContractInit, CurrentSession, Retired, BoundTo,
          Bound, Replacing
  <1> QED
    BY <1>1, StepRefinement, ConnectionInvariant, PTL
       DEF Spec, ImplementsSessionContract, Contract!ContractSpec
=============================================================================
