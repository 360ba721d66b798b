-------------------------- MODULE SerializationProofs --------------------------
(***************************************************************************)
(* The safety of module Serialization, for any calls, connections, catalog *)
(* names and closers.  OnceInv says when the body of a reader's Close may  *)
(* still run; with it LockFollowsCall is inductive.  InsertInv is what the *)
(* lock is for: a name found free stays free until its catalog is inserted *)
(* because whoever could insert it has to hold the same lock.              *)
(***************************************************************************)
EXTENDS Serialization, TLAPS

OnceInv == \A c \in Call : once[c] # "unused" => pc[c] = "reader"

InsertInv == \A c \in Call :
    pc[c] = "insert" /\ kind[c] # "statement"
        => catalog[SessionOf(c)][target[c].name] = Nobody

\* What does not speak of catalogs.
LockInv == TypeOK /\ OnceInv /\ LockFollowsCall

IInv == LockInv /\ InsertInv

USE SerializationAssumption DEF Kinds, Places, Scope, reader

\* The target of a call that is over is one all the same.
LEMMA NoTargetType == NoTarget \in Target
<1>1. PICK k \in Conn, n \in Name : TRUE
  OBVIOUS
<1>2. [conn |-> k, name |-> n] \in Target
  BY DEF Target
<1> QED
  BY <1>2 DEF NoTarget

\* A call acts within one session, and its lock is that session's.
LEMMA ScopeType ==
    ASSUME TypeOK, NEW c \in Call
    PROVE  LockOf(c) \in Scope /\ SessionOf(c) = LockOf(c) /\ target[c].name \in Name
  BY DEF TypeOK, LockOf, SessionOf, Target

\* No call has begun.
LEMMA InitInv == Init => IInv
<1> SUFFICES ASSUME Init PROVE IInv
  OBVIOUS
<1>1. \A c \in Call : pc[c] = "idle" /\ once[c] = "unused"
  BY DEF Init
<1>2. TypeOK
  BY NoTargetType DEF Init, TypeOK
<1>3. OnceInv /\ InsertInv
  BY <1>1 DEF OnceInv, InsertInv
<1>4. LockFollowsCall
  BY <1>1 DEF Init, LockFollowsCall, Mutating
<1> QED
  BY <1>2, <1>3, <1>4 DEF IInv, LockInv

\* The steps that insert a catalog.
Inserting(c) == Register(c) \/ (Execute(c) /\ kind[c] = "create")

\* Every step keeps the types.
LEMMA TypeStep == ASSUME LockInv, [Next]_vars PROVE TypeOK'
<1> USE NoTargetType DEF LockInv, TypeOK, Goto, Return, Unlock
<1>1. ASSUME NEW c \in Call, NEW t \in Target, NEW k \in Kinds, Begin(c, t, k) PROVE TypeOK'
  BY <1>1 DEF Begin
<1>2. ASSUME NEW c \in Call, Cancel(c) PROVE TypeOK'
  BY <1>2 DEF Cancel
<1>3. ASSUME NEW c \in Call, Lock(c) PROVE TypeOK'
  BY <1>3, ScopeType DEF Lock
<1>4. ASSUME NEW c \in Call, GiveUp(c) \/ LookUp(c) \/ Drop(c) PROVE TypeOK'
  BY <1>4 DEF GiveUp, LookUp, Drop
<1>5. ASSUME NEW c \in Call, Fail(c) PROVE TypeOK'
  BY <1>5, ScopeType DEF Fail
<1>i. ASSUME NEW c \in Call, Inserted(c)
      PROVE  /\ catalog' \in [Scope -> [Name -> Call \union {Nobody}]]
             /\ \A k \in Conn : sharedSession => catalog'[k] = [n \in Name |-> Nobody]
  <2>1. SessionOf(c) \in Scope /\ target[c].name \in Name
    BY ScopeType
  <2>2. sharedSession => SessionOf(c) = Connector
    BY DEF SessionOf
  <2> QED BY <1>i, <2>1, <2>2 DEF Inserted
<1>6. ASSUME NEW c \in Call, Register(c) PROVE TypeOK'
  BY <1>6, <1>i, ScopeType DEF Register
<1>7. ASSUME NEW c \in Call, Execute(c) PROVE TypeOK'
  BY <1>7, <1>i DEF Execute
<1>8. ASSUME NEW c \in Call, NEW k \in Closer, Close(c, k) PROVE TypeOK'
  BY <1>8 DEF Close
<1>9. ASSUME NEW c \in Call, ReleaseLock(c) PROVE TypeOK'
  <2>1. LockOf(c) \in Scope BY ScopeType
  <2>2. lock' \in [Scope -> Call \union {Free}] BY <1>9, <2>1 DEF ReleaseLock
  <2>3. once' \in [Call -> {"unused", "running", "done"}] BY <1>9 DEF ReleaseLock
  <2>4. UNCHANGED <<sharedSession, catalog, cancelled, pc, target, kind, closers>>
    BY <1>9 DEF ReleaseLock
  <2> QED BY <2>2, <2>3, <2>4
<1>10. CASE UNCHANGED vars
  BY <1>10 DEF vars
<1> HIDE DEF TypeOK, Goto, Return, Unlock
<1> QED
  BY <1>1, <1>2, <1>3, <1>4, <1>5, <1>6, <1>7, <1>8, <1>9, <1>10 DEF Next, Run

\* The body of a Close runs only while its reader exists.
LEMMA OnceStep == ASSUME LockInv, [Next]_vars PROVE OnceInv'
<1> USE DEF LockInv, TypeOK, OnceInv, Goto, Return
<1>1. ASSUME NEW c \in Call, NEW t \in Target, NEW k \in Kinds, Begin(c, t, k) PROVE OnceInv'
  BY <1>1 DEF Begin
<1>2. ASSUME NEW c \in Call, Cancel(c) \/ Lock(c) \/ LookUp(c) \/ Execute(c) PROVE OnceInv'
  BY <1>2 DEF Cancel, Lock, LookUp, Execute
<1>3. ASSUME NEW c \in Call, GiveUp(c) \/ Drop(c) \/ Fail(c) \/ Register(c) PROVE OnceInv'
  BY <1>3 DEF GiveUp, Drop, Fail, Register
<1>4. ASSUME NEW c \in Call, NEW k \in Closer, Close(c, k) PROVE OnceInv'
  BY <1>4 DEF Close
<1>5. ASSUME NEW c \in Call, ReleaseLock(c) PROVE OnceInv'
  BY <1>5 DEF ReleaseLock
<1>6. CASE UNCHANGED vars
  BY <1>6 DEF vars
<1> QED
  BY <1>1, <1>2, <1>3, <1>4, <1>5, <1>6 DEF Next, Run

-----------------------------------------------------------------------------
\* A call whose place, target and reader do not change mutates as before.
Still(c) == /\ pc'[c] = pc[c] /\ once'[c] = once[c] /\ target'[c] = target[c]
            /\ kind'[c] = kind[c]

\* What such a call mutates does not change either.
LEMMA StillMutating ==
    ASSUME NEW c \in Call, Still(c), UNCHANGED sharedSession
    PROVE  Mutating(c)' = Mutating(c) /\ LockOf(c)' = LockOf(c) /\ SessionOf(c)' = SessionOf(c)
  BY DEF Still, Mutating, LockOf, SessionOf

\* A step of c alone that begins or ends its mutation takes or frees its lock.
LEMMA LockFollows ==
    ASSUME LockInv, NEW c \in Call, UNCHANGED sharedSession,
           \A d \in Call \ {c} : Still(d),
           \/ ~Mutating(c) /\ ~Mutating(c)' /\ lock' = lock
           \/ Mutating(c) /\ Mutating(c)' /\ LockOf(c)' = LockOf(c) /\ lock' = lock
           \/ /\ ~Mutating(c) /\ Mutating(c)' /\ LockOf(c)' = LockOf(c)
              /\ lock[LockOf(c)] = Free /\ lock' = [lock EXCEPT ![LockOf(c)] = c]
           \/ Mutating(c) /\ ~Mutating(c)' /\ lock' = [lock EXCEPT ![LockOf(c)] = Free]
    PROVE  LockFollowsCall'
<1>1. \A d \in Call \ {c} : /\ Mutating(d)' = Mutating(d)
                            /\ LockOf(d)' = LockOf(d)
  BY StillMutating
<1>2. \A d \in Call : LockOf(d) \in Scope
  BY ScopeType DEF LockInv
<1> QED
  BY <1>1, <1>2 DEF LockInv, TypeOK, LockFollowsCall

\* Every step that begins a mutation takes the lock, every one that ends it
\* frees it.
LEMMA LockStep == ASSUME LockInv, [Next]_vars PROVE LockFollowsCall'
<1> USE DEF Goto, Return, Still, Mutating, Unlock
<1>t. TypeOK /\ OnceInv
  BY DEF LockInv
<1>1. ASSUME NEW c \in Call, NEW t \in Target, NEW k \in Kinds, Begin(c, t, k)
      PROVE  LockFollowsCall'
  <2>1. /\ \A d \in Call \ {c} : Still(d)
        /\ ~Mutating(c) /\ ~Mutating(c)'
        /\ lock' = lock /\ UNCHANGED sharedSession
    BY <1>1, <1>t DEF Begin, TypeOK
  <2> QED BY <2>1, LockFollows
<1>2. ASSUME NEW c \in Call, Cancel(c) PROVE LockFollowsCall'
  BY <1>2 DEF Cancel, LockInv, LockFollowsCall, LockOf
<1>3. ASSUME NEW c \in Call, Lock(c) PROVE LockFollowsCall'
  <2>1. /\ \A d \in Call \ {c} : Still(d)
        /\ ~Mutating(c) /\ Mutating(c)' /\ LockOf(c)' = LockOf(c)
        /\ lock[LockOf(c)] = Free /\ lock' = [lock EXCEPT ![LockOf(c)] = c]
        /\ UNCHANGED sharedSession
    BY <1>3, <1>t DEF Lock, TypeOK, LockOf
  <2> QED BY <2>1, LockFollows
<1>4. ASSUME NEW c \in Call, GiveUp(c) \/ Drop(c) PROVE LockFollowsCall'
  <2>1. /\ \A d \in Call \ {c} : Still(d)
        /\ ~Mutating(c) /\ ~Mutating(c)'
        /\ lock' = lock /\ UNCHANGED sharedSession
    BY <1>4, <1>t DEF GiveUp, Drop, TypeOK
  <2> QED BY <2>1, LockFollows
<1>5. ASSUME NEW c \in Call, LookUp(c) \/ Execute(c) PROVE LockFollowsCall'
  <2>1. /\ \A d \in Call \ {c} : Still(d)
        /\ Mutating(c) /\ Mutating(c)' /\ LockOf(c)' = LockOf(c)
        /\ lock' = lock /\ UNCHANGED sharedSession
    BY <1>5, <1>t DEF LookUp, Execute, TypeOK, OnceInv, LockOf
  <2> QED BY <2>1, LockFollows
<1>6. ASSUME NEW c \in Call, Fail(c) \/ Register(c) PROVE LockFollowsCall'
  <2>1. /\ \A d \in Call \ {c} : Still(d)
        /\ Mutating(c) /\ ~Mutating(c)'
        /\ lock' = [lock EXCEPT ![LockOf(c)] = Free] /\ UNCHANGED sharedSession
    BY <1>6, <1>t DEF Fail, Register, TypeOK
  <2> QED BY <2>1, LockFollows
<1>7. ASSUME NEW c \in Call, NEW k \in Closer, Close(c, k) PROVE LockFollowsCall'
  <2>1. /\ \A d \in Call \ {c} : Still(d)
        /\ Mutating(c)' = Mutating(c) /\ LockOf(c)' = LockOf(c)
        /\ lock' = lock /\ UNCHANGED sharedSession
    BY <1>7, <1>t DEF Close, TypeOK, LockOf
  <2> QED BY <2>1, LockFollows
<1>8. ASSUME NEW c \in Call, ReleaseLock(c) PROVE LockFollowsCall'
  <2>1. /\ \A d \in Call \ {c} : Still(d)
        /\ Mutating(c) /\ ~Mutating(c)'
        /\ lock' = [lock EXCEPT ![LockOf(c)] = Free] /\ UNCHANGED sharedSession
    BY <1>8, <1>t DEF ReleaseLock, TypeOK, OnceInv
  <2> QED BY <2>1, LockFollows
<1>9. CASE UNCHANGED vars
  BY <1>9 DEF vars, LockInv, LockFollowsCall, LockOf
<1> QED
  BY <1>1, <1>2, <1>3, <1>4, <1>5, <1>6, <1>7, <1>8, <1>9 DEF Next, Run

\* The lock, the calls and the types: everything but the catalogs.
LEMMA LockInvStep == LockInv /\ [Next]_vars => LockInv'
  BY TypeStep, OnceStep, LockStep DEF LockInv

-----------------------------------------------------------------------------
\* Two calls that mutate one session are one call.
LEMMA Exclusion ==
    ASSUME LockInv, NEW c \in Call, NEW d \in Call,
           Mutating(c), Mutating(d), SessionOf(c) = SessionOf(d)
    PROVE  c = d
  BY ScopeType DEF LockInv, LockFollowsCall

\* An insertion finds its name free.
LEMMA InsertionIsNew ==
    ASSUME IInv, NEW c \in Call, Inserting(c)
    PROVE  /\ catalog[SessionOf(c)][target[c].name] = Nobody
           /\ catalog' = [catalog EXCEPT ![SessionOf(c)][target[c].name] = c]
           /\ Mutating(c)
  BY DEF IInv, InsertInv, Inserting, Register, Execute, Inserted, Mutating

\* Catalogs change by insertions only.
LEMMA CatalogStep ==
    ASSUME IInv, [Next]_vars
    PROVE  catalog' = catalog \/ \E c \in Call : Inserting(c)
<1>1. ASSUME NEW c \in Call, Register(c) \/ Execute(c)
      PROVE  catalog' = catalog \/ Inserting(c)
  BY <1>1 DEF Execute, Inserting
<1>2. ASSUME NEW c \in Call,
             \/ Cancel(c) \/ Lock(c) \/ GiveUp(c) \/ LookUp(c) \/ Fail(c)
             \/ ReleaseLock(c) \/ Drop(c)
      PROVE  catalog' = catalog
  BY <1>2 DEF Cancel, Lock, GiveUp, LookUp, Fail, ReleaseLock, Drop
<1>3. ASSUME NEW c \in Call, NEW t \in Target, NEW k \in Kinds, Begin(c, t, k)
      PROVE  catalog' = catalog
  BY <1>3 DEF Begin
<1>4. ASSUME NEW c \in Call, NEW k \in Closer, Close(c, k)
      PROVE  catalog' = catalog
  BY <1>4 DEF Close
<1>5. CASE UNCHANGED vars
  BY <1>5 DEF vars
<1> QED
  BY <1>1, <1>2, <1>3, <1>4, <1>5 DEF Next, Run

\* A call at "insert" after a step was there before, unchanged, or has just
\* looked its name up.
LEMMA InsertPlace ==
    ASSUME IInv, [Next]_vars, NEW c \in Call, pc'[c] = "insert"
    PROVE  \/ /\ pc[c] = "insert" /\ target'[c] = target[c] /\ kind'[c] = kind[c]
              /\ ~Inserting(c) /\ UNCHANGED sharedSession
           \/ LookUp(c)
<1> USE DEF IInv, LockInv, TypeOK, Goto, Return
<1>1. ASSUME NEW d \in Call, NEW t \in Target, NEW k \in Kinds, Begin(d, t, k)
      PROVE  /\ pc[c] = "insert" /\ target'[c] = target[c] /\ kind'[c] = kind[c]
             /\ c # d /\ UNCHANGED sharedSession
  BY <1>1 DEF Begin
<1>2. ASSUME NEW d \in Call, Cancel(d) \/ ReleaseLock(d) \/ \E k \in Closer : Close(d, k)
      PROVE  /\ UNCHANGED <<pc, target, kind, sharedSession>>
  BY <1>2 DEF Cancel, ReleaseLock, Close
<1>3. ASSUME NEW d \in Call, \/ Lock(d) \/ GiveUp(d) \/ LookUp(d) \/ Fail(d)
                             \/ Register(d) \/ Execute(d) \/ Drop(d)
      PROVE  \/ /\ pc[c] = "insert" /\ target'[c] = target[c] /\ kind'[c] = kind[c]
                /\ c # d /\ UNCHANGED sharedSession
             \/ LookUp(c)
  BY <1>3 DEF Lock, GiveUp, LookUp, Fail, Register, Execute, Drop
<1>4. ~Inserting(c)
  BY DEF Inserting, Register, Execute
<1>5. ASSUME NEW d \in Call, Run(d)
      PROVE  \/ /\ pc[c] = "insert" /\ target'[c] = target[c] /\ kind'[c] = kind[c]
                /\ UNCHANGED sharedSession
             \/ LookUp(c)
  BY <1>2, <1>3, <1>5 DEF Run
<1>6. ASSUME NEW d \in Call,
             \/ Cancel(d) \/ Lock(d) \/ \E t \in Target, k \in Kinds : Begin(d, t, k)
      PROVE  \/ /\ pc[c] = "insert" /\ target'[c] = target[c] /\ kind'[c] = kind[c]
                /\ UNCHANGED sharedSession
             \/ LookUp(c)
  BY <1>1, <1>2, <1>3, <1>6
<1>7. CASE UNCHANGED vars
  BY <1>4, <1>7 DEF vars
<1> QED
  BY <1>4, <1>5, <1>6, <1>7 DEF Next

\* A name that was looked up is still free: whoever inserts holds the lock.
LEMMA InsertStep == ASSUME IInv, [Next]_vars PROVE InsertInv'
<1> SUFFICES ASSUME NEW c \in Call, pc'[c] = "insert", kind'[c] # "statement"
             PROVE  catalog'[SessionOf(c)'][target'[c].name] = Nobody
  BY DEF InsertInv
<1>1. CASE LookUp(c)
  BY <1>1 DEF LookUp, SessionOf
<1>2. CASE /\ pc[c] = "insert" /\ target'[c] = target[c] /\ kind'[c] = kind[c]
           /\ ~Inserting(c) /\ UNCHANGED sharedSession
  <2>1. SessionOf(c)' = SessionOf(c) /\ catalog[SessionOf(c)][target[c].name] = Nobody
    BY <1>2 DEF SessionOf, IInv, InsertInv
  <2>2. CASE catalog' = catalog
    BY <1>2, <2>1, <2>2
  <2>3. ASSUME NEW d \in Call, Inserting(d)
        PROVE  catalog'[SessionOf(c)][target[c].name] = Nobody
    <3>1. d # c /\ Mutating(d) /\ Mutating(c)
      BY <1>2, <2>3, InsertionIsNew DEF Mutating
    <3>2. SessionOf(d) # SessionOf(c)
      BY <3>1, Exclusion DEF IInv
    <3> QED BY <2>1, <2>3, <3>2, InsertionIsNew, ScopeType DEF IInv, LockInv, TypeOK
  <2> QED BY <1>2, <2>1, <2>2, <2>3, CatalogStep
<1> QED
  BY <1>1, <1>2, InsertPlace

\* IInv is an inductive invariant.
THEOREM Invariance == Spec => []IInv
<1>1. IInv /\ [Next]_vars => IInv'
  BY LockInvStep, InsertStep DEF IInv
<1> QED
  BY InitInv, <1>1, PTL DEF Spec

\* Variables keep their types, and with a shared session every catalog is in
\* that one.
THEOREM TypeCorrect == Spec => []TypeOK
  BY Invariance, PTL DEF IInv, LockInv

\* The mutation lock is held by exactly the call that mutates the session or
\* whose result is open.
THEOREM LockFollowsCallCorrect == Spec => []LockFollowsCall
  BY Invariance, PTL DEF IInv, LockInv

\* No registration and no CREATE DATABASE replaces a catalog.
THEOREM CatalogsKeptCorrect == Spec => CatalogsKept
<1>1. ASSUME IInv, [Next]_vars, NEW l \in Scope, NEW n \in Name, catalog[l][n] # Nobody
      PROVE  catalog'[l][n] = catalog[l][n]
  <2>1. CASE catalog' = catalog
    BY <2>1
  <2>2. ASSUME NEW c \in Call, Inserting(c)
        PROVE  catalog'[l][n] = catalog[l][n]
    BY <1>1, <2>2, InsertionIsNew, ScopeType DEF IInv, LockInv, TypeOK
  <2> QED BY <1>1, <2>1, <2>2, CatalogStep
<1>2. IInv /\ [Next]_vars
        => [\A l \in Scope, n \in Name :
               catalog[l][n] # Nobody => catalog'[l][n] = catalog[l][n]]_catalog
  BY <1>1
<1> QED
  BY <1>2, Invariance, PTL DEF Spec, CatalogsKept
=============================================================================
