-------------------------- MODULE ContextMutexProofs --------------------------
(***************************************************************************)
(* What module ContextMutex promises, for any set of callers.  TypeOK and  *)
(* TokenInv together are inductive: a step of one caller moves the token   *)
(* and its own program counter at once.  The refinement needs them to know *)
(* that Owner is the only caller at "held", and UndoInv to know that a     *)
(* Lock that gives the token back does so for a cancelled context.         *)
(***************************************************************************)
EXTENDS ContextMutex, TLAPS

UndoInv == \A c \in Caller : pc[c] = "undo" => c \in cancelled

IInv == TypeOK /\ TokenInv /\ UndoInv

USE DEF Places, Capacity

\* Between calls no one has the token.
LEMMA InitInv == Init => IInv
  BY DEF Init, IInv, TypeOK, TokenInv, UndoInv, Holders

\* Every step keeps the types, and the channel within its capacity.
LEMMA TypeStep == IInv /\ [Next]_vars => TypeOK'
<1> SUFFICES ASSUME IInv, [Next]_vars PROVE TypeOK'
  OBVIOUS
<1> USE DEF IInv, TypeOK, Goto
<1>1. ASSUME NEW c \in Caller, Call(c) \/ Cancel(c) PROVE TypeOK'
  BY <1>1 DEF Call, Cancel
<1>2. ASSUME NEW c \in Caller, Lock(c) PROVE TypeOK'
  BY <1>2 DEF Lock, Enter, Send, Done, Recheck
<1>3. ASSUME NEW c \in Caller, Unlock(c) PROVE TypeOK'
  BY <1>3 DEF Unlock
<1>4. CASE UNCHANGED vars
  BY <1>4 DEF vars
<1> QED
  BY <1>1, <1>2, <1>3, <1>4 DEF Next

\* The caller that moves decides: only Send enters Holders, only Unlock leaves.
LEMMA TokenStep == IInv /\ [Next]_vars => TokenInv'
<1> SUFFICES ASSUME IInv, [Next]_vars PROVE TokenInv'
  OBVIOUS
<1> USE DEF IInv, TypeOK, TokenInv, Goto
<1>1. ASSUME NEW c \in Caller, Call(c) PROVE TokenInv'
  <2>1. Holders' = Holders BY <1>1 DEF Call, Holders
  <2> QED BY <1>1, <2>1 DEF Call
<1>2. ASSUME NEW c \in Caller, Cancel(c) PROVE TokenInv'
  <2>1. Holders' = Holders BY <1>2 DEF Cancel, Holders
  <2> QED BY <1>2, <2>1 DEF Cancel
<1>3. ASSUME NEW c \in Caller, Enter(c) \/ Done(c) \/ Recheck(c) PROVE TokenInv'
  <2>1. Holders' = Holders BY <1>3 DEF Enter, Done, Recheck, Holders
  <2> QED BY <1>3, <2>1 DEF Enter, Done, Recheck
<1>4. ASSUME NEW c \in Caller, Send(c) PROVE TokenInv'
  <2>1. Holders = {} BY <1>4 DEF Send
  <2>2. Holders' = {c} BY <1>4, <2>1 DEF Send, Holders
  <2> QED BY <1>4, <2>1, <2>2 DEF Send
<1>5. ASSUME NEW c \in Caller, Unlock(c) PROVE TokenInv'
  <2>1. c \in Holders BY <1>5 DEF Unlock, Holders
  <2>2. Holders' = {} BY <1>5, <2>1 DEF Unlock, Holders
  <2> QED BY <1>5, <2>2 DEF Unlock
<1>6. CASE UNCHANGED vars
  BY <1>6 DEF vars, Holders
<1> QED
  BY <1>1, <1>2, <1>3, <1>4, <1>5, <1>6 DEF Next, Lock

\* A context that is done stays done until the call has returned.
LEMMA UndoStep == IInv /\ [Next]_vars => UndoInv'
<1> SUFFICES ASSUME IInv, [Next]_vars PROVE UndoInv'
  OBVIOUS
<1> USE DEF IInv, TypeOK, UndoInv, Goto
<1>1. ASSUME NEW c \in Caller, Call(c) \/ Cancel(c) PROVE UndoInv'
  BY <1>1 DEF Call, Cancel
<1>2. ASSUME NEW c \in Caller, Lock(c) \/ Unlock(c) PROVE UndoInv'
  BY <1>2 DEF Lock, Enter, Send, Done, Recheck, Unlock
<1> QED
  BY <1>1, <1>2 DEF Next, vars

\* IInv is an inductive invariant.
THEOREM Invariance == Spec => []IInv
<1>1. IInv /\ [Next]_vars => IInv'
  BY TypeStep, TokenStep, UndoStep DEF IInv
<1> QED
  BY InitInv, <1>1, PTL DEF Spec

\* The channel and the program counters stay in their ranges: the channel
\* never has more than its one element (context_mutex.go:18).
THEOREM TypeCorrect == Spec => []TypeOK
  BY Invariance, PTL DEF IInv

\* The channel is full exactly while one Lock has sent and not given back.
THEOREM TokenCorrect == Spec => []TokenInv
  BY Invariance, PTL DEF IInv

-----------------------------------------------------------------------------
\* The owner is the caller at "held", if there is one.
LEMMA OwnerHolds ==
    ASSUME IInv
    PROVE  /\ \A c \in Caller : Owner = c <=> pc[c] = "held"
           /\ Owner = NoOwner <=> \A c \in Caller : pc[c] # "held"
           /\ Owner \in Caller \union {NoOwner}
  BY OwnerAssumption DEF IInv, TokenInv, Holders, Owner

\* The same after a step.
LEMMA OwnerHoldsNext ==
    ASSUME IInv'
    PROVE  /\ \A c \in Caller : Owner' = c <=> pc'[c] = "held"
           /\ Owner' = NoOwner <=> \A c \in Caller : pc'[c] # "held"
           /\ Owner' \in Caller \union {NoOwner}
  BY OwnerAssumption DEF IInv, TokenInv, Holders, Owner

\* Every step of the mutex is a step of the abstract lock or leaves it alone.
LEMMA StepRefinement ==
    IInv /\ IInv' /\ [Next]_vars => [Promise!LockNext]_(Promise!lockVars)
<1> SUFFICES ASSUME IInv, IInv', [Next]_vars
             PROVE  [Promise!LockNext]_(Promise!lockVars)
  OBVIOUS
<1> USE DEF Goto, Promise!LockNext, Promise!lockVars
<1>t. TypeOK /\ TypeOK'
  BY DEF IInv
<1>a. /\ \A c \in Caller : Owner = c <=> pc[c] = "held"
      /\ Owner = NoOwner <=> \A c \in Caller : pc[c] # "held"
      /\ Owner \in Caller \union {NoOwner}
  BY OwnerHolds
<1>b. /\ \A c \in Caller : Owner' = c <=> pc'[c] = "held"
      /\ Owner' = NoOwner <=> \A c \in Caller : pc'[c] # "held"
      /\ Owner' \in Caller \union {NoOwner}
  BY OwnerHoldsNext
<1>1. ASSUME NEW c \in Caller, Call(c) PROVE Promise!ContextChange(c)
  <2>1. Owner' = Owner BY <1>1, <1>t, <1>a, <1>b DEF Call, TypeOK
  <2>2. Waiting' = Waiting BY <1>1, <1>t DEF Call, TypeOK, Waiting
  <2>3. c \notin Waiting /\ c # Owner BY <1>1, <1>a DEF Call, Waiting
  <2> QED BY <1>1, <2>1, <2>2, <2>3 DEF Call, Promise!ContextChange
<1>2. ASSUME NEW c \in Caller, Cancel(c) PROVE Promise!ContextChange(c)
  <2>1. Owner' = Owner BY <1>2, <1>a, <1>b DEF Cancel
  <2>2. Waiting' = Waiting BY <1>2 DEF Cancel, Waiting
  <2> QED BY <1>2, <2>1, <2>2 DEF Cancel, Promise!ContextChange
<1>3. ASSUME NEW c \in Caller, Enter(c)
      PROVE  Promise!Request(c) \/ UNCHANGED <<Owner, Waiting, cancelled>>
  <2>1. Owner' = Owner BY <1>3, <1>t, <1>a, <1>b DEF Enter, TypeOK
  <2>2. CASE c \in cancelled
    <3>1. Waiting' = Waiting BY <1>3, <1>t, <2>2 DEF Enter, TypeOK, Waiting
    <3> QED BY <1>3, <2>1, <3>1 DEF Enter
  <2>3. CASE c \notin cancelled
    <3>1. Waiting' = Waiting \union {c} /\ c \notin Waiting
      BY <1>3, <1>t, <2>3 DEF Enter, TypeOK, Waiting
    <3>2. c # Owner BY <1>3, <1>a DEF Enter
    <3> QED BY <1>3, <2>1, <2>3, <3>1, <3>2 DEF Enter, Promise!Request
  <2> QED BY <2>2, <2>3
<1>4. ASSUME NEW c \in Caller, Send(c) PROVE UNCHANGED <<Owner, Waiting, cancelled>>
  <2>1. Owner' = Owner BY <1>4, <1>t, <1>a, <1>b DEF Send, TypeOK
  <2>2. Waiting' = Waiting BY <1>4, <1>t DEF Send, TypeOK, Waiting
  <2> QED BY <1>4, <2>1, <2>2 DEF Send
<1>5. ASSUME NEW c \in Caller, Done(c) PROVE Promise!GiveUp(c)
  <2>1. Owner' = Owner BY <1>5, <1>t, <1>a, <1>b DEF Done, TypeOK
  <2>2. Waiting' = Waiting \ {c} /\ c \in Waiting
    BY <1>5, <1>t DEF Done, TypeOK, Waiting
  <2> QED BY <1>5, <2>1, <2>2 DEF Done, Promise!GiveUp
<1>6. ASSUME NEW c \in Caller, Recheck(c)
      PROVE  Promise!Grant(c) \/ UNCHANGED <<Owner, Waiting, cancelled>>
  <2>1. CASE c \in cancelled
    <3>1. Owner' = Owner BY <1>6, <1>t, <1>a, <1>b, <2>1 DEF Recheck, TypeOK
    <3>2. Waiting' = Waiting BY <1>6, <1>t, <2>1 DEF Recheck, TypeOK, Waiting
    <3> QED BY <1>6, <3>1, <3>2 DEF Recheck
  <2>2. CASE c \notin cancelled
    <3>1. Owner' = c BY <1>6, <1>t, <1>b, <2>2 DEF Recheck, TypeOK
    <3>2. Owner = NoOwner
      BY <1>6, <1>a DEF Recheck, IInv, TokenInv, Holders
    <3>3. Waiting' = Waiting \ {c} /\ c \in Waiting
      BY <1>6, <1>t, <2>2 DEF Recheck, TypeOK, Waiting
    <3> QED BY <1>6, <2>2, <3>1, <3>2, <3>3 DEF Recheck, Promise!Grant
  <2> QED BY <2>1, <2>2
<1>7. ASSUME NEW c \in Caller, Unlock(c) PROVE Promise!Release(c) \/ Promise!GiveUp(c)
  <2>1. CASE pc[c] = "held"
    <3>1. Owner = c BY <1>a, <2>1
    <3>2. Owner' = NoOwner
      BY <1>7, <1>t, <1>b, <2>1 DEF Unlock, TypeOK, IInv, TokenInv, Holders
    <3>3. Waiting' = Waiting BY <1>7, <1>t, <2>1 DEF Unlock, TypeOK, Waiting
    <3> QED BY <1>7, <3>1, <3>2, <3>3 DEF Unlock, Promise!Release
  <2>2. CASE pc[c] = "undo"
    <3>1. Owner' = Owner
      BY <1>7, <1>t, <1>a, <1>b, <2>2 DEF Unlock, TypeOK
    <3>2. Waiting' = Waiting \ {c} /\ c \in Waiting
      BY <1>7, <1>t, <2>2 DEF Unlock, TypeOK, Waiting
    <3>3. c \in cancelled BY <2>2 DEF IInv, UndoInv
    <3> QED BY <1>7, <3>1, <3>2, <3>3 DEF Unlock, Promise!GiveUp
  <2> QED BY <1>7, <2>1, <2>2 DEF Unlock
<1>8. CASE UNCHANGED vars
  <2>1. Owner' = Owner /\ Waiting' = Waiting BY <1>8 DEF vars, Owner, Waiting
  <2> QED BY <1>8, <2>1 DEF vars
<1> QED
  BY <1>1, <1>2, <1>3, <1>4, <1>5, <1>6, <1>7, <1>8 DEF Next, Lock

\* contextMutex implements a lock with one owner at most, whose requests end
\* with ownership or, once cancelled, without.
THEOREM Refinement == Spec => ImplementsCancellableLock
<1>1. Init => Promise!LockInit
  BY DEF Init, Promise!LockInit, Owner, Waiting
<1>2. IInv /\ IInv' /\ [Next]_vars => [Promise!LockNext]_(Promise!lockVars)
  BY StepRefinement
<1> QED
  BY <1>1, <1>2, Invariance, PTL DEF Spec, ImplementsCancellableLock, Promise!LockSpec
=============================================================================
