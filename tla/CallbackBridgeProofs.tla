------------------------- MODULE CallbackBridgeProofs -------------------------
(* The ownership of Go handles and the scope of Go contexts in              *)
(* CallbackBridge, for any queries, tasks and number of permits.           *)
EXTENDS CallbackBridge, TLAPS

\* Who must own what, so that the next step finds it.
PlanInv ==
    /\ table = "registered" => <<Catalog, Provider>> \in refs
    /\ table # "registered" => HeldBy(Catalog) = {}
    /\ \A q \in Query : phase[q] \in {"live", "ending"} =>
          {<<Plan(q), Root(q)>>, <<Plan(q), Provider>>} \subseteq refs

TaskInv ==
    \A t \in Task :
        /\ pc[t] \in {"idle", "waiting", "calling"} =>
              /\ phase[QueryOf[t]] \in {"live", "ending"}
              /\ {<<Future(t), ContextOf(t)>>, <<Future(t), Provider>>} \subseteq refs
        /\ pc[t] \in {"none", "idle", "waiting"} => call[t] = "none"
        /\ pc[t] = "done" => call[t] \notin Results
        /\ uses[t] \subseteq Held(HeldBy(Closure(t)))

IInv == TypeOK /\ HandlesOwned /\ PlanInv /\ TaskInv

-----------------------------------------------------------------------------
LEMMA OwnersDiffer ==
    /\ \A s, t : Closure(t) # Future(s) /\ Closure(t) # Result(s) /\ Closure(t) # Plan(s)
    /\ \A s, t : Future(t) # Result(s) /\ Future(t) # Plan(s) /\ Result(t) # Plan(s)
    /\ \A t : Catalog \notin {Closure(t), Future(t), Result(t), Plan(t)}
    /\ \A s, t : s # t => /\ Closure(t) # Closure(s) /\ Future(t) # Future(s)
                          /\ Result(t) # Result(s) /\ Plan(t) # Plan(s)
  BY DEF Closure, Future, Result, Plan, Catalog

\* Ownership is kept if what is gained is valid or new, and what is new gained.
LEMMA ArcsKeepOwners ==
    ASSUME live = Held(refs), NEW made, NEW gain, NEW loss, NEW cancels,
           made \subseteq Held(gain), Held(gain) \subseteq live \union made,
           Arcs(made, gain, loss, cancels)
    PROVE  live' = Held(refs')
  <1>1. Held(refs \union gain) = live \union made
    BY DEF Held
  <1>2. Held((refs \union gain) \ loss) \subseteq Held(refs \union gain)
    BY DEF Held
  <1> QED
    BY <1>1, <1>2 DEF Arcs

\* What one owner has after a step.
LEMMA ArcsOfOwner ==
    ASSUME NEW made, NEW gain, NEW loss, NEW cancels, Arcs(made, gain, loss, cancels),
           NEW owner
    PROVE  {r \in refs' : r[1] = owner} =
              (HeldBy(owner) \union {r \in gain : r[1] = owner}) \ loss
  BY DEF Arcs, HeldBy

\* A step leaves the owners alone that it does not name.
LEMMA OtherOwners ==
    ASSUME NEW made, NEW gain, NEW loss, NEW cancels, Arcs(made, gain, loss, cancels),
           NEW owners, \A r \in gain \union loss : r[1] \in owners
    PROVE  /\ \A o : o \notin owners => HeldBy(o)' = HeldBy(o)
           /\ \A r \in refs : r[1] \notin owners => r \in refs'
  BY DEF Arcs, HeldBy

LEMMA Firsts == \A o, h : <<o, h>>[1] = o /\ <<o, h>>[2] = h
  OBVIOUS

LEMMA HeldOfOne ==
    ASSUME NEW o, NEW hs
    PROVE  Held({<<o, h>> : h \in hs}) = hs
  <1>1. \A x \in hs : x \in Held({<<o, h>> : h \in hs})
    <2> SUFFICES ASSUME NEW x \in hs PROVE x \in Held({<<o, h>> : h \in hs})
      OBVIOUS
    <2>1. <<o, x>> \in {<<o, h>> : h \in hs} /\ <<o, x>>[2] = x
      OBVIOUS
    <2> QED
      BY <2>1 DEF Held
  <1>2. \A x \in Held({<<o, h>> : h \in hs}) : x \in hs
    <2> SUFFICES ASSUME NEW r \in {<<o, h>> : h \in hs} PROVE r[2] \in hs
      BY DEF Held
    <2>1. PICK h \in hs : r = <<o, h>>
      OBVIOUS
    <2> QED
      BY <2>1
  <1> QED
    BY <1>1, <1>2

LEMMA Members ==
    /\ \A q \in Query : Plan(q) \in Owner /\ Root(q) \in Context /\ Root(q) \in Handle
    /\ \A t \in Task : /\ Future(t) \in Owner /\ Closure(t) \in Owner /\ Result(t) \in Owner
                       /\ Op(t) \in Context /\ Op(t) \in Handle /\ Object(t) \in Handle
                       /\ ContextOf(t) \in Context /\ ContextOf(t) \in Handle
                       /\ Target(t) \in Handle
    /\ Catalog \in Owner /\ Provider \in Handle
  <1>1. /\ \A q \in Query : Plan(q) \in Owner /\ Root(q) \in Context /\ Root(q) \in Handle
        /\ \A t \in Task : /\ Future(t) \in Owner /\ Closure(t) \in Owner
                           /\ Result(t) \in Owner /\ Op(t) \in Context /\ Op(t) \in Handle
                           /\ Object(t) \in Handle
        /\ Catalog \in Owner /\ Provider \in Handle
    BY DEF Owner, Handle, Context
  <1>2. \A t \in Task : QueryOf[t] \in Query
    BY CallbackAssumption
  <1> QED
    BY <1>1, <1>2 DEF ContextOf, Target

LEMMA ArcsTypes ==
    ASSUME TypeOK, NEW made \in SUBSET Handle, NEW gain \in SUBSET (Owner \X Handle),
           NEW loss, NEW cancels \in SUBSET Context, Arcs(made, gain, loss, cancels)
    PROVE  refs' \subseteq Owner \X Handle /\ live' \subseteq Handle /\ cancelled' \subseteq Context
  BY DEF TypeOK, Arcs

\* Every handle owned by anyone is one.
LEMMA HeldTypes ==
    ASSUME TypeOK, NEW owner
    PROVE  Held(HeldBy(owner)) \subseteq Handle
  BY DEF TypeOK, Held, HeldBy

LEMMA InitInv == Init => IInv
  <1> SUFFICES ASSUME Init PROVE IInv
    OBVIOUS
  <1>1. refs = {} /\ live = {} /\ Held({}) = {} /\ (\A o : HeldBy(o) = {})
    BY DEF Init, Held, HeldBy
  <1>2. TypeOK
    BY <1>1 DEF Init, TypeOK, Places, Results
  <1> QED
    BY <1>1, <1>2 DEF Init, IInv, HandlesOwned, PlanInv, TaskInv, ArcsOf

LEMMA RegisterStep ==
    ASSUME IInv, Register
    PROVE  IInv'
  <1> DEFINE made == {Provider}
             gain == {<<Catalog, Provider>>}
  <1>1. /\ table = "new" /\ table' \in {"registered", "gone"}
        /\ UNCHANGED <<phase, pc, call, uses, clientDone>>
        /\ \E loss \in {{}, {<<Catalog, Provider>>}} :
              /\ Arcs(made, gain, loss, {})
              /\ table' = "gone" <=> loss = {<<Catalog, Provider>>}
    BY DEF Register
  <1>2. PICK loss \in {{}, {<<Catalog, Provider>>}} :
              /\ Arcs(made, gain, loss, {})
              /\ table' = "gone" <=> loss = {<<Catalog, Provider>>}
    BY <1>1
  <1>3. TypeOK'
    <2>1. made \in SUBSET Handle /\ gain \in SUBSET (Owner \X Handle)
      BY Members
    <2>2. TypeOK
      BY DEF IInv
    <2>3. refs' \subseteq Owner \X Handle /\ live' \subseteq Handle /\ cancelled' \subseteq Context
      BY <1>2, <2>1, <2>2, ArcsTypes
    <2> QED
      BY <1>1, <2>2, <2>3 DEF TypeOK
  <1>4. live' = Held(refs')
    <2>1. live = Held(refs) /\ Held(gain) = made
      BY DEF IInv, HandlesOwned, Held
    <2> QED
      BY <1>2, <2>1, ArcsKeepOwners
  <1>5. /\ \A owner : owner # Catalog => HeldBy(owner)' = HeldBy(owner)
        /\ \A r \in refs : r[1] # Catalog => r \in refs'
        /\ HeldBy(Catalog) = {}
    BY <1>1, <1>2 DEF Arcs, HeldBy, IInv, PlanInv
  <1> HIDE DEF made, gain
  <1>6. HandlesOwned'
    BY <1>1, <1>4, <1>5, OwnersDiffer DEF IInv, HandlesOwned, ArcsOf
  <1>7. PlanInv'
    <2>1. \A q \in Query : <<Plan(q), Root(q)>>[1] = Plan(q) /\ <<Plan(q), Provider>>[1] = Plan(q)
      OBVIOUS
    <2>2. /\ table' = "registered" => <<Catalog, Provider>> \in refs'
          /\ table' # "registered" => HeldBy(Catalog)' = {}
      BY <1>1, <1>2, <1>5 DEF Arcs, HeldBy, made, gain
    <2> QED
      BY <1>1, <1>5, <2>1, <2>2, OwnersDiffer DEF IInv, PlanInv
  <1>8. TaskInv'
    <2>1. \A t \in Task : /\ <<Future(t), ContextOf(t)>>[1] = Future(t)
                          /\ <<Future(t), Provider>>[1] = Future(t)
      OBVIOUS
    <2> QED
      BY <1>1, <1>5, <2>1, OwnersDiffer DEF IInv, TaskInv, Held
  <1> QED
    BY <1>3, <1>6, <1>7, <1>8 DEF IInv

LEMMA DeregisterStep ==
    ASSUME IInv, Deregister
    PROVE  IInv'
  <1> USE CallbackAssumption DEF IInv, TypeOK, Deregister, Become, Places, Results
  <1>1. TypeOK'
    BY DEF Arcs, Context, Handle, Owner, Plan, Future, Closure, Result, Catalog, Provider, Root, Op, Object
  <1>2. live' = Held(refs')
    BY ArcsKeepOwners DEF HandlesOwned, PlanInv, TaskInv, Held, HeldBy
  <1>3. HandlesOwned'
    BY <1>2, OwnersDiffer DEF HandlesOwned, PlanInv, TaskInv, ArcsOf, HeldBy, Arcs, Held
  <1>4. PlanInv'
    BY OwnersDiffer DEF PlanInv, TaskInv, HandlesOwned, ArcsOf, HeldBy, Arcs
  <1>5. TaskInv'
    BY OwnersDiffer DEF TaskInv, PlanInv, HandlesOwned, ArcsOf, HeldBy, Arcs, Held
  <1> QED
    BY <1>1, <1>3, <1>4, <1>5

LEMMA BeginStep ==
    ASSUME IInv, NEW q \in Query, Begin(q)
    PROVE  IInv'
  <1> DEFINE made == {Root(q)}
             gain == {<<Plan(q), Root(q)>>, <<Plan(q), Provider>>}
  <1>1. /\ phase[q] = "new" /\ table = "registered"
        /\ phase' = [phase EXCEPT ![q] = "live"]
        /\ Arcs(made, gain, {}, {})
        /\ UNCHANGED <<table, pc, call, uses, clientDone>>
    BY DEF Begin, Become
  <1>2. TypeOK'
    <2>1. made \in SUBSET Handle /\ gain \in SUBSET (Owner \X Handle)
      BY Members
    <2>2. TypeOK
      BY DEF IInv
    <2>3. refs' \subseteq Owner \X Handle /\ live' \subseteq Handle /\ cancelled' \subseteq Context
      BY <1>1, <2>1, <2>2, ArcsTypes
    <2> QED
      BY <1>1, <2>2, <2>3 DEF TypeOK
  <1>3. live' = Held(refs')
    <2>1. live = Held(refs) /\ Held(gain) = {Root(q), Provider} /\ Provider \in live
      BY <1>1, Firsts DEF IInv, HandlesOwned, PlanInv, Held
    <2> QED
      BY <1>1, <2>1, ArcsKeepOwners
  <1>4. /\ \A o : o # Plan(q) => HeldBy(o)' = HeldBy(o)
        /\ refs \subseteq refs' /\ gain \subseteq refs'
    <2>1. \A r \in gain \union {} : r[1] \in {Plan(q)}
      BY Firsts
    <2>2. \A o : o \notin {Plan(q)} => HeldBy(o)' = HeldBy(o)
      BY <1>1, <2>1, OtherOwners
    <2> QED
      BY <1>1, <2>2 DEF Arcs
  <1> HIDE DEF made
  <1>5. HandlesOwned'
    BY <1>1, <1>3, <1>4, OwnersDiffer DEF IInv, TypeOK, HandlesOwned, ArcsOf
  <1>6. PlanInv'
    BY <1>1, <1>4, OwnersDiffer DEF IInv, TypeOK, PlanInv
  <1>7. TaskInv'
    <2>1. \A t \in Task : QueryOf[t] \in Query
      BY CallbackAssumption
    <2> QED
      BY <1>1, <1>4, <2>1, OwnersDiffer DEF IInv, TypeOK, TaskInv, Held
  <1> QED
    BY <1>2, <1>5, <1>6, <1>7 DEF IInv

LEMMA CancelContextStep ==
    ASSUME IInv, NEW q \in Query, CancelContext(q)
    PROVE  IInv'
  <1> USE CallbackAssumption DEF IInv, TypeOK, CancelContext, Become, Places, Results, KeepArcs
  <1>1. TypeOK'
    OBVIOUS
  <1>2. live' = Held(refs')
    BY DEF HandlesOwned, Held
  <1>3. HandlesOwned'
    BY <1>2, OwnersDiffer DEF HandlesOwned, PlanInv, TaskInv, ArcsOf, HeldBy, Arcs, Held
  <1>4. PlanInv'
    BY OwnersDiffer DEF PlanInv, TaskInv, HandlesOwned, ArcsOf, HeldBy, Arcs
  <1>5. TaskInv'
    BY OwnersDiffer DEF TaskInv, PlanInv, HandlesOwned, ArcsOf, HeldBy, Arcs, Held
  <1> QED
    BY <1>1, <1>3, <1>4, <1>5

LEMMA EndStep ==
    ASSUME IInv, NEW q \in Query, End(q)
    PROVE  IInv'
  <1>1. PICK cancels \in {{Root(q)}, {}} : Arcs({}, {}, {}, cancels)
    BY DEF End
  <1>2. /\ phase[q] = "live" /\ phase' = [phase EXCEPT ![q] = "ending"]
        /\ UNCHANGED <<table, pc, call, uses, clientDone>>
    BY DEF End, Become
  <1>3. refs' = refs /\ live' = live
    BY <1>1 DEF Arcs, Held
  <1>4. TypeOK'
    <2>1. cancels \in SUBSET Context /\ TypeOK
      BY Members DEF IInv
    <2>2. cancelled' \subseteq Context
      BY <1>1, <2>1, ArcsTypes
    <2> QED
      BY <1>2, <1>3, <2>1, <2>2 DEF TypeOK
  <1>5. HandlesOwned'
    BY <1>2, <1>3 DEF IInv, TypeOK, HandlesOwned, ArcsOf, HeldBy, Held
  <1>6. PlanInv'
    BY <1>2, <1>3 DEF IInv, TypeOK, PlanInv, HeldBy
  <1>7. TaskInv'
    BY <1>2, <1>3, CallbackAssumption DEF IInv, TypeOK, TaskInv, HeldBy, Held
  <1> QED
    BY <1>4, <1>5, <1>6, <1>7 DEF IInv

LEMMA DropPlanStep ==
    ASSUME IInv, NEW q \in Query, DropPlan(q)
    PROVE  IInv'
  <1> USE CallbackAssumption DEF IInv, TypeOK, DropPlan, Become, Places, Results
  <1>1. TypeOK'
    BY DEF Arcs, Context, Handle, Owner, Plan, Future, Closure, Result, Catalog, Provider, Root, Op, Object
  <1>2. live' = Held(refs')
    BY ArcsKeepOwners DEF HandlesOwned, PlanInv, TaskInv, Held, HeldBy
  <1>3. HandlesOwned'
    BY <1>2, OwnersDiffer DEF HandlesOwned, PlanInv, TaskInv, ArcsOf, HeldBy, Arcs, Held
  <1>4. PlanInv'
    BY OwnersDiffer DEF PlanInv, TaskInv, HandlesOwned, ArcsOf, HeldBy, Arcs
  <1>5. TaskInv'
    BY OwnersDiffer DEF TaskInv, PlanInv, HandlesOwned, ArcsOf, HeldBy, Arcs, Held
  <1> QED
    BY <1>1, <1>3, <1>4, <1>5

\* The start of a task of any kind: its context is new or its query's.
LEMMA StartStep ==
    ASSUME IInv, NEW t \in Task, NEW place \in {"idle", "waiting"}, NEW made \in SUBSET Handle,
           Start(t, place, made), made \subseteq {ContextOf(t)}, ContextOf(t) \in live \union made
    PROVE  IInv'
  <1> DEFINE gain == {<<Future(t), Provider>>, <<Future(t), ContextOf(t)>>}
  <1>1. /\ pc[t] = "none" /\ phase[QueryOf[t]] = "live"
        /\ pc' = [pc EXCEPT ![t] = place]
        /\ Arcs(made, gain, {}, {})
        /\ UNCHANGED <<table, phase, call, uses, clientDone>>
    BY DEF Start, Become
  <1>2. TypeOK'
    <2>1. gain \in SUBSET (Owner \X Handle)
      BY Members
    <2>2. TypeOK
      BY DEF IInv
    <2>3. refs' \subseteq Owner \X Handle /\ live' \subseteq Handle /\ cancelled' \subseteq Context
      BY <1>1, <2>1, <2>2, ArcsTypes
    <2> QED
      BY <1>1, <2>2, <2>3 DEF TypeOK, Places
  <1>3. live' = Held(refs')
    <2>1. <<Plan(QueryOf[t]), Provider>> \in refs
      BY <1>1, CallbackAssumption DEF IInv, PlanInv
    <2>2. live = Held(refs) /\ Held(gain) = {ContextOf(t), Provider} /\ Provider \in live
      BY <2>1, Firsts DEF IInv, HandlesOwned, Held
    <2> QED
      BY <1>1, <2>2, ArcsKeepOwners
  <1>4. /\ \A o : o # Future(t) => HeldBy(o)' = HeldBy(o)
        /\ refs \subseteq refs' /\ gain \subseteq refs'
    <2>1. \A r \in gain \union {} : r[1] \in {Future(t)}
      BY Firsts
    <2>2. \A o : o \notin {Future(t)} => HeldBy(o)' = HeldBy(o)
      BY <1>1, <2>1, OtherOwners
    <2> QED
      BY <1>1, <2>2 DEF Arcs
  <1>5. HandlesOwned'
    BY <1>1, <1>3, <1>4, OwnersDiffer DEF IInv, TypeOK, HandlesOwned, ArcsOf
  <1>6. PlanInv'
    BY <1>1, <1>4, OwnersDiffer DEF IInv, PlanInv
  <1>7. TaskInv'
    BY <1>1, <1>4, OwnersDiffer DEF IInv, TypeOK, TaskInv, Held
  <1> QED
    BY <1>2, <1>5, <1>6, <1>7 DEF IInv

LEMMA CreateStep ==
    ASSUME IInv, NEW t \in Task, Create(t) \/ Evaluate(t) \/ Resolve(t)
    PROVE  IInv'
  <1>1. CASE Create(t) \/ Evaluate(t)
    <2>1. ContextOf(t) = Op(t) /\ Op(t) \in Handle
      BY <1>1, Members DEF Create, Evaluate, ContextOf
    <2>2. Start(t, "idle", {Op(t)}) \/ Start(t, "waiting", {Op(t)})
      BY <1>1 DEF Create, Evaluate
    <2> QED
      BY <2>1, <2>2, StartStep
  <1>2. CASE Resolve(t)
    <2>1. ContextOf(t) = Root(QueryOf[t]) /\ Start(t, "waiting", {})
      BY <1>2 DEF Resolve, ContextOf
    <2>2. <<Plan(QueryOf[t]), Root(QueryOf[t])>> \in refs
      BY <2>1, CallbackAssumption DEF Start, IInv, PlanInv
    <2>3. Root(QueryOf[t]) \in live
      BY <2>2, Firsts DEF IInv, HandlesOwned, Held
    <2> QED
      BY <2>1, <2>3, StartStep
  <1> QED
    BY <1>1, <1>2

LEMMA PollStep ==
    ASSUME IInv, NEW t \in Task, Poll(t)
    PROVE  IInv'
  <1> USE CallbackAssumption DEF IInv, TypeOK, Poll, Become, Places, Results, KeepArcs
  <1>1. TypeOK'
    OBVIOUS
  <1>2. live' = Held(refs')
    BY DEF HandlesOwned, Held
  <1>3. HandlesOwned'
    BY <1>2, OwnersDiffer DEF HandlesOwned, PlanInv, TaskInv, ArcsOf, HeldBy, Arcs, Held
  <1>4. PlanInv'
    BY OwnersDiffer DEF PlanInv, TaskInv, HandlesOwned, ArcsOf, HeldBy, Arcs
  <1>5. TaskInv'
    BY OwnersDiffer DEF TaskInv, PlanInv, HandlesOwned, ArcsOf, HeldBy, Arcs, Held
  <1> QED
    BY <1>1, <1>3, <1>4, <1>5

LEMMA AcquireStep ==
    ASSUME IInv, NEW t \in Task, Acquire(t)
    PROVE  IInv'
  <1> DEFINE handles == {ContextOf(t), Target(t)}
             gain == {<<Closure(t), h>> : h \in handles}
  <1>1. /\ pc[t] = "waiting"
        /\ pc' = [pc EXCEPT ![t] = "calling"] /\ call' = [call EXCEPT ![t] = "queued"]
        /\ uses' = [uses EXCEPT ![t] = handles]
        /\ Arcs({}, gain, {}, {})
        /\ UNCHANGED <<table, phase, clientDone>>
    BY DEF Acquire, Become
  <1>2. TypeOK'
    <2>1. gain \in SUBSET (Owner \X Handle) /\ handles \in SUBSET Handle
      BY Members
    <2>2. TypeOK
      BY DEF IInv
    <2>3. refs' \subseteq Owner \X Handle /\ live' \subseteq Handle /\ cancelled' \subseteq Context
      BY <1>1, <2>1, <2>2, ArcsTypes
    <2> QED
      BY <1>1, <2>1, <2>2, <2>3 DEF TypeOK, Places
  <1>3. live' = Held(refs')
    <2>1. <<Future(t), ContextOf(t)>> \in refs /\ <<Future(t), Target(t)>> \in refs
      BY <1>1 DEF IInv, TaskInv, Target
    <2>2. live = Held(refs) /\ handles \subseteq live
      BY <2>1, Firsts DEF IInv, HandlesOwned, Held
    <2>3. Held(gain) = handles
      BY HeldOfOne
    <2> QED
      BY <1>1, <2>2, <2>3, ArcsKeepOwners
  <1>4. /\ \A o : o # Closure(t) => HeldBy(o)' = HeldBy(o)
        /\ refs \subseteq refs' /\ gain \subseteq refs'
    <2>1. \A r \in gain \union {} : r[1] \in {Closure(t)}
      BY Firsts
    <2>2. \A o : o \notin {Closure(t)} => HeldBy(o)' = HeldBy(o)
      BY <1>1, <2>1, OtherOwners
    <2> QED
      BY <1>1, <2>2 DEF Arcs
  <1>5. handles \subseteq Held(HeldBy(Closure(t)))'
    <2> SUFFICES ASSUME NEW h \in handles PROVE h \in Held(HeldBy(Closure(t))')
      BY DEF Held
    <2>1. <<Closure(t), h>> \in HeldBy(Closure(t))'
      BY <1>4, Firsts DEF HeldBy
    <2> QED
      BY <2>1, Firsts DEF Held
  <1> HIDE DEF handles
  <1>6. HandlesOwned'
    BY <1>1, <1>3, <1>4, OwnersDiffer DEF IInv, TypeOK, HandlesOwned, ArcsOf
  <1>7. PlanInv'
    BY <1>1, <1>4, OwnersDiffer DEF IInv, PlanInv
  <1>8. TaskInv'
    BY <1>1, <1>4, <1>5, OwnersDiffer DEF IInv, TypeOK, TaskInv, Held, Results
  <1> QED
    BY <1>2, <1>6, <1>7, <1>8 DEF IInv

LEMMA EnterStep ==
    ASSUME IInv, NEW t \in Task, Enter(t)
    PROVE  IInv'
  <1> USE CallbackAssumption DEF IInv, TypeOK, Enter, Become, Places, Results, KeepArcs
  <1>1. TypeOK'
    OBVIOUS
  <1>2. live' = Held(refs')
    BY DEF HandlesOwned, Held
  <1>3. HandlesOwned'
    BY <1>2, OwnersDiffer DEF HandlesOwned, PlanInv, TaskInv, ArcsOf, HeldBy, Arcs, Held
  <1>4. PlanInv'
    BY OwnersDiffer DEF PlanInv, TaskInv, HandlesOwned, ArcsOf, HeldBy, Arcs
  <1>5. TaskInv'
    BY OwnersDiffer DEF TaskInv, PlanInv, HandlesOwned, ArcsOf, HeldBy, Arcs, Held
  <1> QED
    BY <1>1, <1>3, <1>4, <1>5

\* The end of a call, whatever it returns.
LEMMA LeaveStep ==
    ASSUME IInv, NEW t \in Task, NEW result \in Results, NEW made \in SUBSET {Object(t)},
           NEW loss, Leave(t, result, made, loss), call[t] = "running",
           loss = IF pc[t] = "calling" THEN {} ELSE {<<Result(t), h>> : h \in made}
    PROVE  IInv'
  <1> DEFINE gain == {<<Result(t), h>> : h \in made}
  <1>1. /\ call' = [call EXCEPT ![t] = IF pc[t] = "calling" THEN result ELSE "none"]
        /\ uses' = [uses EXCEPT ![t] = {}]
        /\ Arcs(made, gain, HeldBy(Closure(t)) \union loss, {})
        /\ UNCHANGED <<table, phase, pc, clientDone>>
    BY DEF Leave, Become
  <1>2. TypeOK'
    <2>1. gain \in SUBSET (Owner \X Handle) /\ made \in SUBSET Handle
      BY Members
    <2>2. TypeOK
      BY DEF IInv
    <2>3. refs' \subseteq Owner \X Handle /\ live' \subseteq Handle /\ cancelled' \subseteq Context
      BY <1>1, <2>1, <2>2, ArcsTypes
    <2> QED
      BY <1>1, <2>2, <2>3 DEF TypeOK
  <1>3. live' = Held(refs')
    <2>1. live = Held(refs) /\ Held(gain) = made
      BY HeldOfOne DEF IInv, HandlesOwned
    <2> QED
      BY <1>1, <2>1, ArcsKeepOwners
  <1>4. pc[t] \in {"calling", "done"}
    BY DEF IInv, TypeOK, TaskInv, Places
  <1>5. /\ \A o : o \notin {Closure(t), Result(t)} => HeldBy(o)' = HeldBy(o)
        /\ \A r \in refs : r[1] \notin {Closure(t), Result(t)} => r \in refs'
        /\ HeldBy(Closure(t))' = {}
        /\ pc[t] = "done" => HeldBy(Result(t))' = {}
    <2>1. \A r \in gain : r[1] = Result(t) /\ r[1] # Closure(t)
      BY Firsts, OwnersDiffer
    <2>2. \A r \in gain \union (HeldBy(Closure(t)) \union loss) : r[1] \in {Closure(t), Result(t)}
      BY <2>1 DEF HeldBy
    <2>3. HeldBy(Closure(t))' = {}
      BY <1>1, <2>1 DEF Arcs, HeldBy
    <2>4. pc[t] = "done" => HeldBy(Result(t))' = {}
      <3>1. pc[t] = "done" => loss = gain /\ HeldBy(Result(t)) = {}
        BY DEF IInv, HandlesOwned, ArcsOf
      <3> QED
        BY <1>1, <3>1 DEF Arcs, HeldBy
    <2>5. /\ \A o : o \notin {Closure(t), Result(t)} => HeldBy(o)' = HeldBy(o)
          /\ \A r \in refs : r[1] \notin {Closure(t), Result(t)} => r \in refs'
      <3> DEFINE owners == {Closure(t), Result(t)}
                 lost == HeldBy(Closure(t)) \union loss
      <3>1. Arcs(made, gain, lost, {}) /\ \A r \in gain \union lost : r[1] \in owners
        BY <1>1, <2>2
      <3> HIDE DEF owners, lost
      <3>2. /\ \A o : o \notin owners => HeldBy(o)' = HeldBy(o)
            /\ \A r \in refs : r[1] \notin owners => r \in refs'
        BY <3>1, OtherOwners
      <3> QED
        BY <3>2 DEF owners
    <2> QED
      BY <2>3, <2>4, <2>5
  <1> HIDE DEF gain
  <1>6. HandlesOwned'
    <2>1. \A s \in Task : s # t => ArcsOf(s)' = ArcsOf(s) /\ HeldBy(Closure(s))' = HeldBy(Closure(s))
      BY <1>5, OwnersDiffer DEF ArcsOf
    <2>2. HeldBy(Future(t))' = HeldBy(Future(t))
      BY <1>5, OwnersDiffer
    <2> QED
      BY <1>1, <1>3, <1>4, <1>5, <2>1, <2>2, OwnersDiffer DEF IInv, TypeOK, HandlesOwned, ArcsOf
  <1>7. PlanInv'
    <2>1. \A q \in Query : <<Plan(q), Root(q)>>[1] = Plan(q) /\ <<Plan(q), Provider>>[1] = Plan(q)
      OBVIOUS
    <2>2. <<Catalog, Provider>>[1] = Catalog
      OBVIOUS
    <2> QED
      BY <1>1, <1>5, <2>1, <2>2, OwnersDiffer DEF IInv, PlanInv
  <1>8. TaskInv'
    <2>1. \A s \in Task : /\ <<Future(s), ContextOf(s)>>[1] = Future(s)
                          /\ <<Future(s), Provider>>[1] = Future(s)
      OBVIOUS
    <2>2. \A s \in Task : pc[s] \in {"idle", "waiting", "calling"} =>
              {<<Future(s), ContextOf(s)>>, <<Future(s), Provider>>} \subseteq refs'
      BY <1>5, <2>1, OwnersDiffer DEF IInv, TaskInv
    <2>3. \A s \in Task : uses'[s] \subseteq Held(HeldBy(Closure(s))')
      <3>1. \A s \in Task : s # t => HeldBy(Closure(s))' = HeldBy(Closure(s))
        BY <1>5, OwnersDiffer
      <3> QED
        BY <1>1, <3>1 DEF IInv, TypeOK, TaskInv
    <2> QED
      BY <1>1, <1>4, <2>2, <2>3 DEF IInv, TypeOK, TaskInv, Results, Held
  <1> QED
    BY <1>2, <1>6, <1>7, <1>8 DEF IInv

LEMMA ReturnStep ==
    ASSUME IInv, NEW t \in Task, Return(t)
    PROVE  IInv'
  <1>1. CASE ReturnObject(t)
    <2>1. /\ call[t] = "running" /\ "ok" \in Results
          /\ Leave(t, "ok", {Object(t)},
                   IF pc[t] = "calling" THEN {} ELSE {<<Result(t), Object(t)>>})
      BY <1>1 DEF ReturnObject, MayReturn, Results
    <2>2. {<<Result(t), h>> : h \in {Object(t)}} = {<<Result(t), Object(t)>>}
      OBVIOUS
    <2> QED
      BY <2>1, <2>2, LeaveStep
  <1>2. ASSUME NEW result \in Results, ReturnData(t, result) PROVE IInv'
    <2>1. call[t] = "running" /\ Leave(t, result, {}, {})
      BY <1>2 DEF ReturnData, MayReturn
    <2>2. {<<Result(t), h>> : h \in {}} = {}
      OBVIOUS
    <2> QED
      BY <2>1, <2>2, LeaveStep
  <1> QED
    BY <1>1, <1>2 DEF Return

LEMMA ContinueStep ==
    ASSUME IInv, NEW t \in Task, Continue(t)
    PROVE  IInv'
  <1> DEFINE handles == Held(HeldBy(Result(t)))
             gain == {<<Future(t), h>> : h \in handles}
  <1>1. /\ pc[t] = "calling"
        /\ \E place \in {"waiting", "idle"} : pc' = [pc EXCEPT ![t] = place]
        /\ call' = [call EXCEPT ![t] = "none"]
        /\ Arcs({}, gain, HeldBy(Result(t)), {})
        /\ UNCHANGED <<table, phase, uses, clientDone>>
    BY DEF Continue, Become
  <1>2. TypeOK'
    <2>1. TypeOK
      BY DEF IInv
    <2>2. gain \in SUBSET (Owner \X Handle)
      BY <2>1, Members, HeldTypes
    <2>3. refs' \subseteq Owner \X Handle /\ live' \subseteq Handle /\ cancelled' \subseteq Context
      BY <1>1, <2>1, <2>2, ArcsTypes
    <2> QED
      BY <1>1, <2>1, <2>3 DEF TypeOK, Places
  <1>3. live' = Held(refs')
    <2>1. live = Held(refs) /\ handles \subseteq live
      BY DEF IInv, HandlesOwned, Held, HeldBy
    <2>2. Held(gain) = handles
      BY HeldOfOne
    <2> QED
      BY <1>1, <2>1, <2>2, ArcsKeepOwners
  <1>4. /\ \A o : o \notin {Future(t), Result(t)} => HeldBy(o)' = HeldBy(o)
        /\ \A r \in refs : r[1] # Result(t) => r \in refs'
    <2>1. \A r \in gain \union HeldBy(Result(t)) : r[1] \in {Future(t), Result(t)}
      BY Firsts, ZenonT(60) DEF HeldBy
    <2>2. \A o : o \notin {Future(t), Result(t)} => HeldBy(o)' = HeldBy(o)
      <3> DEFINE owners == {Future(t), Result(t)}
                 lost == HeldBy(Result(t))
      <3>1. Arcs({}, gain, lost, {}) /\ \A r \in gain \union lost : r[1] \in owners
        BY <1>1, <2>1
      <3> HIDE DEF owners, lost, gain
      <3>2. \A o : o \notin owners => HeldBy(o)' = HeldBy(o)
        BY <3>1, OtherOwners
      <3> QED
        BY <3>2 DEF owners
    <2>3. \A r \in refs : r[1] # Result(t) => r \in refs'
      BY <1>1 DEF Arcs, HeldBy
    <2> QED
      BY <2>2, <2>3
  <1> HIDE DEF gain
  <1>5. HandlesOwned'
    <2>1. \A s \in Task : HeldBy(Closure(s))' = HeldBy(Closure(s))
      BY <1>4, OwnersDiffer
    <2>2. \A s \in Task : s # t => ArcsOf(s)' = ArcsOf(s)
      BY <1>4, OwnersDiffer DEF ArcsOf
    <2>3. \A q \in Query : HeldBy(Plan(q))' = HeldBy(Plan(q))
      BY <1>4, OwnersDiffer
    <2>4. HeldBy(Closure(t)) = {}
      BY DEF IInv, HandlesOwned, Continue
    <2> QED
      BY <1>1, <1>3, <2>1, <2>2, <2>3, <2>4 DEF IInv, TypeOK, HandlesOwned
  <1>6. PlanInv'
    <2>1. \A q \in Query : <<Plan(q), Root(q)>>[1] = Plan(q) /\ <<Plan(q), Provider>>[1] = Plan(q)
      OBVIOUS
    <2>2. <<Catalog, Provider>>[1] = Catalog
      OBVIOUS
    <2>3. HeldBy(Catalog)' = HeldBy(Catalog)
      BY <1>4, OwnersDiffer
    <2> QED
      BY <1>1, <1>4, <2>1, <2>2, <2>3, OwnersDiffer DEF IInv, PlanInv
  <1>7. TaskInv'
    <2>1. \A s \in Task : /\ <<Future(s), ContextOf(s)>>[1] = Future(s)
                          /\ <<Future(s), Provider>>[1] = Future(s)
      OBVIOUS
    <2>2. \A s \in Task : pc[s] \in {"idle", "waiting", "calling"} =>
              {<<Future(s), ContextOf(s)>>, <<Future(s), Provider>>} \subseteq refs'
      BY <1>4, <2>1, OwnersDiffer DEF IInv, TaskInv
    <2>3. \A s \in Task : HeldBy(Closure(s))' = HeldBy(Closure(s))
      BY <1>4, OwnersDiffer
    <2> QED
      BY <1>1, <2>2, <2>3 DEF IInv, TypeOK, TaskInv, Held
  <1> QED
    BY <1>2, <1>5, <1>6, <1>7 DEF IInv

\* Every end of a future settles it; only a lookup leaves Arcs to the plan.
LEMMA FinishSettles ==
    ASSUME NEW t \in Task, Finish(t)
    PROVE  \E found \in SUBSET Held(HeldBy(Future(t))), cancels \in {{}, {ContextOf(t)}} :
              /\ Settle(t, {<<Plan(QueryOf[t]), h>> : h \in found}, cancels)
              /\ found # {} => Kind[t] = "lookup"
  <1> DEFINE handles == Held(HeldBy(Future(t)))
  <1>1. CASE FinishScan(t) \/ FinishEvaluation(t)
    <2>1. {<<Plan(QueryOf[t]), h>> : h \in {}} = {} /\ {} \in SUBSET handles
      OBVIOUS
    <2>2. \E cancels \in {{}, {ContextOf(t)}} : Settle(t, {}, cancels)
      BY <1>1 DEF FinishScan, FinishEvaluation, ContextOf
    <2> QED
      BY <2>1, <2>2
  <1>2. CASE FinishLookup(t)
    <2> DEFINE found == {h \in handles : call[t] = "ok"}
               armed == {h \in {ContextOf(t)} : call[t] = "failed"}
    <2>1. PICK cancels \in {{}, armed} : Settle(t, {<<Plan(QueryOf[t]), h>> : h \in found}, cancels)
      BY <1>2 DEF FinishLookup
    <2>2. cancels \in {{}, {ContextOf(t)}}
      OBVIOUS
    <2>3. found \in SUBSET handles /\ Kind[t] = "lookup"
      BY <1>2 DEF FinishLookup
    <2> QED
      BY <2>1, <2>2, <2>3
  <1> QED
    BY <1>1, <1>2 DEF Finish

LEMMA FinishStep ==
    ASSUME IInv, NEW t \in Task, Finish(t)
    PROVE  IInv'
  <1> DEFINE q == QueryOf[t]
             handles == Held(HeldBy(Future(t)))
  <1>a. PICK found \in SUBSET handles, cancels \in {{}, {ContextOf(t)}} :
            Settle(t, {<<Plan(q), h>> : h \in found}, cancels)
    BY FinishSettles
  <1> DEFINE gain == {<<Plan(q), h>> : h \in found}
  <1>1. Arcs({}, gain, ArcsOf(t), cancels)
    BY <1>a DEF Settle
  <1>2. /\ pc[t] = "calling" /\ call[t] \in Results
        /\ pc' = [pc EXCEPT ![t] = "done"] /\ call' = [call EXCEPT ![t] = "none"]
        /\ UNCHANGED <<table, phase, uses, clientDone>>
    BY <1>a DEF Settle, Become
  <1>3. q \in Query /\ phase[q] \in {"live", "ending"}
    BY <1>2, CallbackAssumption DEF IInv, TaskInv
  <1>4. TypeOK'
    <2>1. TypeOK
      BY DEF IInv
    <2>2. gain \in SUBSET (Owner \X Handle) /\ cancels \in SUBSET Context
      <3>1. handles \subseteq Handle /\ Plan(q) \in Owner /\ ContextOf(t) \in Context
        BY <1>3, <2>1, Members, HeldTypes
      <3> QED
        BY <3>1
    <2>3. refs' \subseteq Owner \X Handle /\ live' \subseteq Handle /\ cancelled' \subseteq Context
      BY <1>1, <2>1, <2>2, ArcsTypes
    <2> QED
      BY <1>2, <2>1, <2>3 DEF TypeOK, Places
  <1>5. live' = Held(refs')
    <2>1. live = Held(refs) /\ handles \subseteq live
      BY DEF IInv, HandlesOwned, Held, HeldBy
    <2>2. Held(gain) \subseteq handles
      BY HeldOfOne
    <2> QED
      BY <1>1, <2>1, <2>2, ArcsKeepOwners
  <1>6. /\ \A o : o \notin {Plan(q), Future(t), Result(t)} => HeldBy(o)' = HeldBy(o)
        /\ \A r \in refs : r[1] \notin {Future(t), Result(t)} => r \in refs'
        /\ ArcsOf(t)' = {}
    <2>1. \A r \in gain : r[1] = Plan(q) /\ r[1] # Future(t) /\ r[1] # Result(t)
      BY Firsts, OwnersDiffer
    <2>2. \A r \in gain \union ArcsOf(t) : r[1] \in {Plan(q), Future(t), Result(t)}
      BY <2>1 DEF ArcsOf, HeldBy
    <2>3. \A o : o \notin {Plan(q), Future(t), Result(t)} => HeldBy(o)' = HeldBy(o)
      BY <1>1, <2>2, OtherOwners
    <2>4. \A r \in refs : r[1] \notin {Future(t), Result(t)} => r \in refs'
      BY <1>1 DEF Arcs, ArcsOf, HeldBy
    <2>5. ArcsOf(t)' = {}
      BY <1>1, <2>1 DEF Arcs, ArcsOf, HeldBy
    <2> QED
      BY <2>3, <2>4, <2>5
  <1> HIDE DEF q, handles, gain
  <1>7. HandlesOwned'
    <2>1. \A s \in Task : HeldBy(Closure(s))' = HeldBy(Closure(s))
      BY <1>6, OwnersDiffer
    <2>2. \A s \in Task : s # t => ArcsOf(s)' = ArcsOf(s)
      BY <1>6, OwnersDiffer DEF ArcsOf
    <2>3. \A p \in Query : p # q => HeldBy(Plan(p))' = HeldBy(Plan(p))
      BY <1>6, OwnersDiffer
    <2>4. HeldBy(Closure(t)) = {}
      BY <1>2 DEF IInv, HandlesOwned, Results
    <2> QED
      BY <1>2, <1>3, <1>5, <1>6, <2>1, <2>2, <2>3, <2>4 DEF IInv, TypeOK, HandlesOwned
  <1>8. PlanInv'
    <2>1. \A p \in Query : <<Plan(p), Root(p)>>[1] = Plan(p) /\ <<Plan(p), Provider>>[1] = Plan(p)
      OBVIOUS
    <2>2. <<Catalog, Provider>>[1] = Catalog
      OBVIOUS
    <2>3. HeldBy(Catalog)' = HeldBy(Catalog)
      BY <1>6, OwnersDiffer
    <2> QED
      BY <1>2, <1>6, <2>1, <2>2, <2>3, OwnersDiffer DEF IInv, PlanInv
  <1>9. TaskInv'
    <2>1. \A s \in Task : /\ <<Future(s), ContextOf(s)>>[1] = Future(s)
                          /\ <<Future(s), Provider>>[1] = Future(s)
      OBVIOUS
    <2>2. \A s \in Task : s # t /\ pc[s] \in {"idle", "waiting", "calling"} =>
              {<<Future(s), ContextOf(s)>>, <<Future(s), Provider>>} \subseteq refs'
      BY <1>6, <2>1, OwnersDiffer DEF IInv, TaskInv
    <2>3. \A s \in Task : HeldBy(Closure(s))' = HeldBy(Closure(s))
      BY <1>6, OwnersDiffer
    <2> QED
      BY <1>2, <2>2, <2>3 DEF IInv, TypeOK, TaskInv, Held, Results
  <1> QED
    BY <1>4, <1>7, <1>8, <1>9 DEF IInv

LEMMA AbandonStep ==
    ASSUME IInv, NEW t \in Task, Abandon(t)
    PROVE  IInv'
  <1> USE CallbackAssumption DEF IInv, TypeOK, Abandon, ContextOf, Become, Places, Results
  <1>1. TypeOK'
    BY DEF Arcs, Context, Handle, Owner, Plan, Future, Closure, Result, Catalog, Provider, Root, Op, Object
  <1>2. live' = Held(refs')
    BY ArcsKeepOwners DEF HandlesOwned, PlanInv, TaskInv, Held, HeldBy
  <1>3. HandlesOwned'
    BY <1>2, OwnersDiffer DEF HandlesOwned, PlanInv, TaskInv, ArcsOf, HeldBy, Arcs, Held
  <1>4. PlanInv'
    BY OwnersDiffer DEF PlanInv, TaskInv, HandlesOwned, ArcsOf, HeldBy, Arcs
  <1>5. TaskInv'
    BY OwnersDiffer DEF TaskInv, PlanInv, HandlesOwned, ArcsOf, HeldBy, Arcs, Held
  <1> QED
    BY <1>1, <1>3, <1>4, <1>5

-----------------------------------------------------------------------------
LEMMA StepInv == IInv /\ [Next]_vars => IInv'
  <1> SUFFICES ASSUME IInv, [Next]_vars PROVE IInv'
    OBVIOUS
  <1>1. CASE Register \/ Deregister
    BY <1>1, RegisterStep, DeregisterStep
  <1>2. ASSUME NEW q \in Query, QueryStep(q) PROVE IInv'
    BY <1>2, BeginStep, CancelContextStep, EndStep, DropPlanStep DEF QueryStep
  <1>3. ASSUME NEW t \in Task, TaskStep(t) PROVE IInv'
    BY <1>3, CreateStep, PollStep, AcquireStep, EnterStep, ReturnStep, ContinueStep, FinishStep,
       AbandonStep DEF TaskStep
  <1>4. CASE UNCHANGED vars
    BY <1>4 DEF IInv, TypeOK, HandlesOwned, PlanInv, TaskInv, ArcsOf, HeldBy, Held, vars
  <1> QED
    BY <1>1, <1>2, <1>3, <1>4 DEF Next

THEOREM OwnershipInvariant == Spec => []IInv
  <1> QED
    BY InitInv, StepInv, PTL DEF Spec

\* The type invariant of the callbacks.
THEOREM TypeCorrect == Spec => []TypeOK
  <1>1. IInv => TypeOK
    BY DEF IInv
  <1> QED
    BY <1>1, OwnershipInvariant, PTL

(* No handle leaks and none is deleted twice (Owner::drop in callbacks.rs).*)
THEOREM HandlesHaveOwners == Spec => []HandlesOwned
  <1>1. IInv => HandlesOwned
    BY DEF IInv
  <1> QED
    BY <1>1, OwnershipInvariant, PTL

(* A call never has a freed handle, however late it returns                *)
(* (blocking_call in callbacks.rs).                                        *)
THEOREM CallsHaveHandles == Spec => []CallsOwnHandles
  <1>1. IInv => CallsOwnHandles
    <2> SUFFICES ASSUME IInv, NEW t \in Task PROVE uses[t] \subseteq live
      BY DEF CallsOwnHandles
    <2>1. uses[t] \subseteq Held(HeldBy(Closure(t)))
      BY DEF IInv, TaskInv
    <2>2. Held(HeldBy(Closure(t))) \subseteq Held(refs)
      BY DEF Held, HeldBy
    <2> QED
      BY <2>1, <2>2 DEF IInv, HandlesOwned
  <1> QED
    BY <1>1, OwnershipInvariant, PTL
-----------------------------------------------------------------------------
(* The contexts of a task and of its query.  A query without lookups opens *)
(* a context for each task, which only that task's future and its call     *)
(* hold, and its own context stays with its plan, to be cancelled only     *)
(* when the query ends.                                                    *)

NoLookup(q) == \A s \in Task : QueryOf[s] = q => Kind[s] # "lookup"

Scoped(r) ==
    /\ \A t \in Task : r[2] = Op(t) => r[1] \in {Future(t), Closure(t)} /\ Kind[t] # "lookup"
    /\ \A q \in Query : NoLookup(q) /\ r[2] = Root(q) => r[1] = Plan(q)
    /\ \A t \in Task : r[1] = Result(t) => r[2] = Object(t)

ScopeInv ==
    /\ \A r \in refs : Scoped(r)
    /\ \A t \in Task : pc[t] # "done" => Op(t) \notin cancelled
    /\ \A q \in Query : NoLookup(q) /\ phase[q] \in {"new", "live"} => Root(q) \notin cancelled

LEMMA HandlesDiffer ==
    /\ \A q, t : Root(q) # Op(t) /\ Root(q) # Object(t) /\ Op(q) # Object(t)
    /\ \A s, t : s # t => Root(s) # Root(t) /\ Op(s) # Op(t) /\ Object(s) # Object(t)
    /\ \A t : Provider \notin {Root(t), Op(t), Object(t)}
  BY DEF Root, Op, Object, Provider

\* A context is cancelled only with the last of its owners, or by its task.
LEMMA CancelledAfter ==
    ASSUME NEW made, NEW gain, NEW loss, NEW cancels, Arcs(made, gain, loss, cancels),
           NEW h \in cancelled', h \notin cancelled
    PROVE  \/ h \in cancels
           \/ h \in Held(refs \union gain) /\ \A r \in refs' : r[2] # h
  BY DEF Arcs, Held

(* A step keeps ScopeInv if what it gains is in scope, if it cancels the   *)
(* contexts of tasks and queries that are over only, and if it revives no  *)
(* task and no query.                                                      *)
LEMMA ScopeStep ==
    ASSUME IInv, IInv', ScopeInv, NEW made, NEW gain, NEW loss, NEW cancels,
           Arcs(made, gain, loss, cancels), \A r \in gain : Scoped(r),
           \A t \in Task : /\ pc'[t] # "done" => pc[t] # "done" /\ Op(t) \notin cancels
                           /\ pc'[t] = "none" => pc[t] = "none" /\ \A r \in gain : r[2] # Op(t),
           \A q \in Query : NoLookup(q) =>
              /\ phase'[q] \in {"new", "live"} =>
                    phase[q] \in {"new", "live"} /\ Root(q) \notin cancels
              /\ phase'[q] = "new" => phase[q] = "new" /\ \A r \in gain : r[2] # Root(q)
    PROVE  ScopeInv'
  <1>1. \A r \in refs' : Scoped(r)
    BY DEF ScopeInv, Arcs
  <1>2. ASSUME NEW t \in Task, pc'[t] # "done", Op(t) \in cancelled' PROVE FALSE
    <2>1. /\ \E r \in refs \union gain : r[2] = Op(t)
          /\ \A r \in refs' : r[2] # Op(t)
      <3>1. Op(t) \notin cancelled /\ Op(t) \notin cancels
        BY <1>2 DEF ScopeInv
      <3> QED
        BY <1>2, <3>1, CancelledAfter DEF Held
    <2>2. PICK r \in refs \union gain : r[2] = Op(t)
      BY <2>1
    <2>3. Kind[t] # "lookup" /\ r[1] \in {Future(t), Closure(t)}
      BY <2>2 DEF ScopeInv, Scoped
    <2>4. CASE pc'[t] = "none"
      <3>1. pc[t] = "none" /\ r \in refs
        BY <2>2, <2>4
      <3>2. call[t] = "none"
        BY <3>1 DEF IInv, TaskInv
      <3>3. ArcsOf(t) = {} /\ HeldBy(Closure(t)) = {}
        BY <3>1, <3>2 DEF IInv, HandlesOwned
      <3> QED
        BY <2>3, <3>1, <3>3 DEF ArcsOf, HeldBy
    <2>5. CASE pc'[t] # "none"
      <3>1. <<Future(t), Op(t)>> \in refs'
        <4>1. pc'[t] \in {"idle", "waiting", "calling"}
          BY <1>2, <2>5 DEF IInv, TypeOK, Places
        <4>2. <<Future(t), ContextOf(t)>> \in refs'
          BY <4>1 DEF IInv, TaskInv
        <4> QED
          BY <2>3, <4>2 DEF ContextOf
      <3> QED
        BY <2>1, <3>1, Firsts
    <2> QED
      BY <2>4, <2>5
  <1>3. ASSUME NEW q \in Query, NoLookup(q), phase'[q] \in {"new", "live"}, Root(q) \in cancelled'
        PROVE  FALSE
    <2>1. /\ \E r \in refs \union gain : r[2] = Root(q)
          /\ \A r \in refs' : r[2] # Root(q)
      <3>1. Root(q) \notin cancelled /\ Root(q) \notin cancels
        BY <1>3 DEF ScopeInv
      <3> QED
        BY <1>3, <3>1, CancelledAfter DEF Held
    <2>2. PICK r \in refs \union gain : r[2] = Root(q)
      BY <2>1
    <2>3. r[1] = Plan(q)
      BY <1>3, <2>2 DEF ScopeInv, Scoped
    <2>4. CASE phase'[q] = "new"
      <3>1. HeldBy(Plan(q)) = {} /\ r \in refs
        BY <1>3, <2>2, <2>4 DEF IInv, HandlesOwned
      <3> QED
        BY <2>3, <3>1 DEF HeldBy
    <2>5. CASE phase'[q] # "new"
      <3>1. <<Plan(q), Root(q)>> \in refs'
        BY <1>3, <2>5 DEF IInv, TypeOK, PlanInv
      <3> QED
        BY <2>1, <3>1, Firsts
    <2> QED
      BY <2>4, <2>5
  <1>4. \A q : NoLookup(q)' <=> NoLookup(q)
    BY DEF NoLookup
  <1>5. \A r : Scoped(r)' <=> Scoped(r)
    BY <1>4 DEF Scoped
  <1> QED
    BY <1>1, <1>2, <1>3, <1>4, <1>5 DEF ScopeInv

LEMMA ScopeInitially == Init => ScopeInv
  BY DEF Init, ScopeInv

\* The handles a result holds are its task's object.
LEMMA ScopeInvariantStep == IInv /\ IInv' /\ ScopeInv /\ [Next]_vars => ScopeInv'
  <1> SUFFICES ASSUME IInv, IInv', ScopeInv, [Next]_vars PROVE ScopeInv'
    OBVIOUS
  <1>a. \A o, h : <<o, h>>[1] = o /\ <<o, h>>[2] = h
    OBVIOUS
  <1>b. \A t \in Task : pc[t] \in Places /\ QueryOf[t] \in Query
    BY CallbackAssumption DEF IInv, TypeOK
  <1>k. ASSUME KeepArcs, \A t \in Task : pc'[t] # "done" => pc[t] # "done",
               \A q \in Query : phase'[q] \in {"new", "live"} => phase[q] \in {"new", "live"}
        PROVE  ScopeInv'
    BY <1>k DEF KeepArcs, ScopeInv, Scoped, NoLookup
  <1>1. CASE Register
    <2>1. PICK loss : Arcs({Provider}, {<<Catalog, Provider>>}, loss, {})
      BY <1>1 DEF Register
    <2>2. UNCHANGED <<pc, phase>> /\ Scoped(<<Catalog, Provider>>)
      BY <1>1, <1>a, HandlesDiffer, OwnersDiffer DEF Register, Scoped
    <2> QED
      BY <2>1, <2>2, <1>a, HandlesDiffer, ScopeStep
  <1>2. CASE Deregister
    BY <1>2, ScopeStep DEF Deregister
  <1>3. ASSUME NEW q \in Query, Begin(q) PROVE ScopeInv'
    <2>1. \A r \in {<<Plan(q), Root(q)>>, <<Plan(q), Provider>>} :
            /\ Scoped(r) /\ \A t \in Task : r[2] # Op(t)
            /\ \A p \in Query : p # q => r[2] # Root(p)
      BY <1>a, HandlesDiffer, OwnersDiffer DEF Scoped
    <2>2. pc' = pc /\ phase'[q] = "live" /\ phase[q] = "new" /\ \A p \in Query : p # q => phase'[p] = phase[p]
      BY <1>3 DEF Begin, Become, IInv, TypeOK
    <2> QED
      BY <1>3, <2>1, <2>2, ScopeStep DEF Begin
  <1>4. ASSUME NEW q \in Query, CancelContext(q) PROVE ScopeInv'
    BY <1>4, <1>k DEF CancelContext
  <1>5. ASSUME NEW q \in Query, End(q) PROVE ScopeInv'
    <2>1. PICK cancels \in {{Root(q)}, {}} : Arcs({}, {}, {}, cancels)
      BY <1>5 DEF End
    <2>2. \A t \in Task : Op(t) \notin cancels
      BY <2>1, HandlesDiffer
    <2>3. \A p \in Query : p # q => Root(p) \notin cancels
      BY <2>1, HandlesDiffer
    <2>4. pc' = pc /\ phase'[q] = "ending" /\ \A p \in Query : p # q => phase'[p] = phase[p]
      BY <1>5 DEF End, Become, IInv, TypeOK
    <2> QED
      BY <2>1, <2>2, <2>3, <2>4, ScopeStep
  <1>6. ASSUME NEW q \in Query, DropPlan(q) PROVE ScopeInv'
    <2>1. pc' = pc /\ phase'[q] = "ended" /\ \A p \in Query : p # q => phase'[p] = phase[p]
      BY <1>6 DEF DropPlan, Become, IInv, TypeOK
    <2> QED
      BY <1>6, <2>1, ScopeStep DEF DropPlan
  <1>7. ASSUME NEW t \in Task, Create(t) \/ Evaluate(t) \/ Resolve(t) PROVE ScopeInv'
    <2>1. PICK place \in {"idle", "waiting"}, made \in {{Op(t)}, {}} : Start(t, place, made)
      BY <1>7 DEF Create, Evaluate, Resolve
    <2>2. \A r \in {<<Future(t), Provider>>, <<Future(t), ContextOf(t)>>} :
            /\ Scoped(r) /\ \A s \in Task : s # t => r[2] # Op(s)
            /\ \A p \in Query : NoLookup(p) => r[2] # Root(p)
      BY <1>a, <1>b, HandlesDiffer, OwnersDiffer DEF Scoped, ContextOf, NoLookup
    <2>3. phase' = phase /\ pc'[t] = place /\ pc[t] = "none" /\ \A s \in Task : s # t => pc'[s] = pc[s]
      BY <2>1 DEF Start, Become, IInv, TypeOK
    <2>4. Arcs(made, {<<Future(t), Provider>>, <<Future(t), ContextOf(t)>>}, {}, {})
      BY <2>1 DEF Start
    <2> QED
      BY <2>1, <2>2, <2>3, <2>4, ScopeStep
  <1>8. ASSUME NEW t \in Task, Poll(t) \/ Enter(t) PROVE ScopeInv'
    BY <1>8, <1>k DEF Poll, Enter, Become, IInv, TypeOK
  <1>9. ASSUME NEW t \in Task, Acquire(t) PROVE ScopeInv'
    <2>1. <<Future(t), Target(t)>> \in refs /\ <<Future(t), ContextOf(t)>> \in refs
      BY <1>9 DEF Acquire, IInv, TaskInv, Target
    <2>2. \A h \in {ContextOf(t), Target(t)} :
            /\ Scoped(<<Closure(t), h>>) /\ \A s \in Task : pc[s] = "none" => h # Op(s)
            /\ \A p \in Query : NoLookup(p) => h # Root(p)
      BY <1>9, <2>1, <1>a, <1>b, HandlesDiffer, OwnersDiffer
         DEF Acquire, ScopeInv, Scoped, ContextOf, Target, NoLookup
    <2>3. phase' = phase /\ pc'[t] = "calling" /\ pc[t] = "waiting" /\ \A s \in Task : s # t => pc'[s] = pc[s]
      BY <1>9 DEF Acquire, Become, IInv, TypeOK
    <2> QED
      BY <1>9, <2>2, <2>3, <1>a, ScopeStep DEF Acquire
  <1>10. ASSUME NEW t \in Task, Return(t) PROVE ScopeInv'
    <2>1. \E result, made, loss : made \subseteq {Object(t)} /\ Leave(t, result, made, loss)
      <3>1. CASE ReturnObject(t)
        BY <3>1 DEF ReturnObject
      <3>2. ASSUME NEW result \in Results, ReturnData(t, result)
            PROVE  \E made, loss : made \subseteq {Object(t)} /\ Leave(t, result, made, loss)
        <4>1. Leave(t, result, {}, {}) /\ {} \subseteq {Object(t)}
          BY <3>2 DEF ReturnData
        <4> QED
          BY <4>1
      <3> QED
        BY <1>10, <3>1, <3>2 DEF Return
    <2>2. PICK result, made, loss : made \subseteq {Object(t)} /\ Leave(t, result, made, loss)
      BY <2>1
    <2>3. \A h \in made : Scoped(<<Result(t), h>>) /\ \A s \in Task : h # Op(s) /\ \A p : h # Root(p)
      BY <2>2, <1>a, HandlesDiffer, OwnersDiffer DEF Scoped
    <2> QED
      BY <2>2, <2>3, <1>a, ScopeStep DEF Leave
  <1>11. ASSUME NEW t \in Task, Continue(t) PROVE ScopeInv'
    <2>1. Held(HeldBy(Result(t))) \subseteq {Object(t)}
      BY DEF ScopeInv, Scoped, Held, HeldBy
    <2>2. Scoped(<<Future(t), Object(t)>>) /\ \A s \in Task : Object(t) # Op(s) /\ \A p : Object(t) # Root(p)
      BY <1>a, HandlesDiffer, OwnersDiffer DEF Scoped
    <2>3. phase' = phase /\ pc'[t] # "none" /\ pc[t] = "calling" /\ \A s \in Task : s # t => pc'[s] = pc[s]
      BY <1>11 DEF Continue, Become, IInv, TypeOK
    <2> QED
      BY <1>11, <2>1, <2>2, <2>3, <1>a, ScopeStep DEF Continue
  <1>12. ASSUME NEW t \in Task, Finish(t) PROVE ScopeInv'
    <2>1. PICK found \in SUBSET Held(HeldBy(Future(t))), cancels \in {{}, {ContextOf(t)}} :
            /\ Settle(t, {<<Plan(QueryOf[t]), h>> : h \in found}, cancels)
            /\ found # {} => Kind[t] = "lookup"
      BY <1>12, FinishSettles
    <2> DEFINE kept == {<<Plan(QueryOf[t]), h>> : h \in found}
    <2>2. \A h \in Held(HeldBy(Future(t))) : Kind[t] = "lookup" =>
            /\ \A s \in Task : h # Op(s)
            /\ \A p \in Query : NoLookup(p) => h # Root(p)
            /\ Scoped(<<Plan(QueryOf[t]), h>>)
      BY <1>a, <1>b, OwnersDiffer, HandlesDiffer DEF ScopeInv, Scoped, Held, HeldBy
    <2>3. phase' = phase /\ pc'[t] = "done" /\ \A s \in Task : s # t => pc'[s] = pc[s]
      BY <2>1 DEF Settle, Become, IInv, TypeOK
    <2>4. Arcs({}, kept, ArcsOf(t), cancels)
      BY <2>1 DEF Settle
    <2>5. \A r \in kept : /\ Scoped(r) /\ \A s \in Task : r[2] # Op(s)
                          /\ \A p \in Query : NoLookup(p) => r[2] # Root(p)
      BY <2>1, <2>2, <1>a
    <2>6. /\ \A s \in Task : s # t => Op(s) \notin cancels
          /\ \A p \in Query : NoLookup(p) => Root(p) \notin cancels
      BY <2>1, <1>b, HandlesDiffer DEF ContextOf, NoLookup
    <2> QED
      BY <2>3, <2>4, <2>5, <2>6, ScopeStep
  <1>13. ASSUME NEW t \in Task, Abandon(t) PROVE ScopeInv'
    <2>1. \A h \in {Op(t), ContextOf(t)} : /\ \A s \in Task : s # t => h # Op(s)
                                          /\ \A p \in Query : NoLookup(p) => h # Root(p)
      BY <1>b, HandlesDiffer DEF ContextOf, NoLookup
    <2>3. phase' = phase /\ pc'[t] = "done" /\ \A s \in Task : s # t => pc'[s] = pc[s]
      BY <1>13 DEF Abandon, Become, IInv, TypeOK
    <2> QED
      BY <1>13, <2>1, <2>3, ScopeStep DEF Abandon
  <1>14. CASE UNCHANGED vars
    BY <1>14, <1>k DEF vars, KeepArcs
  <1> QED
    BY <1>1, <1>2, <1>3, <1>4, <1>5, <1>6, <1>7, <1>8, <1>9, <1>10, <1>11, <1>12, <1>13, <1>14
       DEF Next, QueryStep, TaskStep

(* In a query without column lookups the Go context of a scan or of an     *)
(* evaluation is done only when the task itself is over, or when its query *)
(* is over or was cancelled (callbackContext in                            *)
(* internal/native/callbacks.go, CancelOnDrop in callbacks.rs, the cancel  *)
(* of closeLocked in internal/native/native.go).                           *)
THEOREM SiblingsAreIndependent == Spec => []ScansIndependent
  <1>1. IInv /\ ScopeInv => ScansIndependent
    <2> SUFFICES ASSUME IInv, ScopeInv, NEW t \in Task, NoLookup(QueryOf[t]),
                        pc[t] \in {"idle", "waiting", "calling"}, CtxDone(t),
                        phase[QueryOf[t]] # "ending"
                 PROVE  Asked(QueryOf[t])
      BY DEF ScansIndependent, Independent, NoLookup
    <2>1. QueryOf[t] \in Query /\ phase[QueryOf[t]] = "live"
      BY CallbackAssumption DEF IInv, TaskInv
    <2>2. Op(t) \notin cancelled /\ Root(QueryOf[t]) \notin cancelled
      BY <2>1 DEF ScopeInv
    <2> QED
      BY <2>2 DEF CtxDone, RootDone
  <1> QED
    BY <1>1, ScopeInitially, ScopeInvariantStep, OwnershipInvariant, PTL DEF Spec
=============================================================================
