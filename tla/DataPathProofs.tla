---------------------------- MODULE DataPathProofs ----------------------------
(* Proofs about what data passes through: INSERT (InsertPump), the shared  *)
(* runtime (SharedRuntime), imports and registrations (Import), the        *)
(* snapshot a query takes of a catalog (CatalogResolve), the cache of the  *)
(* native library (LibraryCache), rows (Rows), the reader of a Go provider *)
(* (ProviderReader), numbers (Cells, RowsAffected), parameters             *)
(* (ParameterValues), filters (Pushdown) and placeholders (Placeholders).  *)
(* Each has its own variables and its own inductive invariant: PumpInv,    *)
(* RuntimeInv, ImportInv, CatalogInv, LibraryInv, RowsInv, ReaderInv,      *)
(* CountInv, PushdownInv, PlaceholderInv.                                  *)
EXTENDS InsertPump, SharedRuntime, Import, CatalogResolve, LibraryCache, Rows, ProviderReader,
        RowsAffected, ParameterValues, Pushdown, Placeholders, SequenceTheorems,
        FiniteSetTheorems, TLAPS

(***************************************************************************)
(* INSERT.                                                                 *)
(***************************************************************************)

\* Sizes, for the provers' arithmetic.
LEMMA AtMostTwo == \A n \in Nat : n <= 2 => n \in 0 .. 2 /\ (n # 0 => n \in 1 .. 2)
  BY SMT

LEMMA Sizes ==
    ASSUME TypeOK
    PROVE  /\ channel \in Seq(Messages) /\ got \in Seq(1 .. MaxBatches)
           /\ Len(channel) \in 0 .. 2 /\ Len(got) \in Nat
           /\ channel # <<>> => Len(channel) \in 1 .. 2
           /\ \A i \in 1 .. Len(channel) : channel[i] \in Messages
  <1>1. channel \in Seq(Messages) /\ got \in Seq(1 .. MaxBatches) /\ Len(channel) <= 2
    BY DEF TypeOK, Capacity
  <1>2. /\ Len(channel) \in Nat /\ Len(got) \in Nat
        /\ channel # <<>> => Len(channel) # 0
    BY <1>1, LenProperties, EmptySeq
  <1>3. \A i \in 1 .. Len(channel) : channel[i] \in Messages
    BY <1>1, ElementOfSeq
  <1>4. Len(channel) \in 0 .. 2 /\ (channel # <<>> => Len(channel) \in 1 .. 2)
    BY <1>1, <1>2, AtMostTwo
  <1> QED
    BY <1>1, <1>2, <1>3, <1>4

\* What a longer channel has sent.
LEMMA SentGrows ==
    ASSUME Len(channel) \in 0 .. 1, Len(got) \in Nat, UNCHANGED got,
           Len(channel') = Len(channel) + 1, channel'[Len(channel) + 1] = item,
           \A i \in 1 .. Len(channel) : channel'[i] = channel[i]
    PROVE  /\ \A n \in 0 .. Len(channel) : Sent(n)' = Sent(n)
           /\ AllSent' = AllSent + One(item)
  <1> SUFFICES ASSUME NEW L \in 0 .. 1, NEW G \in Nat, L = Len(channel), G = Len(got)
               PROVE  /\ \A n \in 0 .. L : Sent(n)' = Sent(n)
                      /\ AllSent' = AllSent + One(item)
    OBVIOUS
  <1>1. /\ L \in 0 .. 1 /\ G \in Nat /\ Len(got') = G /\ Len(got) = G
        /\ Len(channel) = L /\ Len(channel') = L + 1
        /\ channel'[L + 1] = item /\ \A i \in 1 .. L : channel'[i] = channel[i]
    OBVIOUS
  <1>2. \A n \in 0 .. L : Sent(n)' = Sent(n)
    <2> SUFFICES ASSUME NEW n \in 0 .. L PROVE Sent(n)' = Sent(n)
      OBVIOUS
    <2>1. CASE n = 0
      BY <1>1, <2>1, SMT DEF Sent
    <2>2. CASE n = 1 /\ L = 1
      <3>1. channel'[1] = channel[1]
        BY <1>1, <2>2, SMT
      <3> QED
        BY <1>1, <2>2, <3>1, SMT DEF Sent, One, IsBatch
    <2> QED
      BY <1>1, <2>1, <2>2, SMT
  <1>3. Sent(L + 1)' = Sent(L) + One(item)
    <2>1. /\ One(item) \in 0 .. 1 /\ One(channel[1]) \in 0 .. 1
          /\ \A m : One(m)' = One(m)
      BY SMT DEF One, IsBatch
    <2>2. CASE L = 0
      BY <1>1, <2>1, <2>2, SMT DEF Sent
    <2>3. CASE L = 1
      BY <1>1, <2>1, <2>3, SMT DEF Sent
    <2>4. L = 0 \/ L = 1
      BY <1>1, SMT
    <2> QED
      BY <2>2, <2>3, <2>4
  <1>4. L \in 0 .. L
    BY <1>1, SMT
  <1> QED
    BY <1>1, <1>2, <1>3, <1>4 DEF AllSent

\* What was in the first place now belongs to got.
LEMMA SentShifts ==
    ASSUME Len(channel) \in 1 .. 2, Len(got) \in Nat,
           Len(got') = Len(got) + One(channel[1]),
           Len(channel') = Len(channel) - 1,
           \A i \in 1 .. Len(channel) - 1 : channel'[i] = channel[i + 1]
    PROVE  /\ \A n \in 0 .. Len(channel) - 1 : Sent(n)' = Sent(n + 1)
           /\ AllSent' = AllSent
  <1> SUFFICES ASSUME NEW L \in 1 .. 2, NEW G \in Nat, L = Len(channel), G = Len(got)
               PROVE  /\ \A n \in 0 .. L - 1 : Sent(n)' = Sent(n + 1)
                      /\ AllSent' = AllSent
    OBVIOUS
  <1>1. /\ L \in 1 .. 2 /\ G \in Nat /\ Len(got') = G + One(channel[1]) /\ Len(got) = G
        /\ Len(channel) = L /\ Len(channel') = L - 1
        /\ \A i \in 1 .. L - 1 : channel'[i] = channel[i + 1]
    OBVIOUS
  <1>2. \A n \in 0 .. L - 1 : Sent(n)' = Sent(n + 1)
    <2> SUFFICES ASSUME NEW n \in 0 .. L - 1 PROVE Sent(n)' = Sent(n + 1)
      OBVIOUS
    <2>1. /\ One(channel[1]) \in 0 .. 1 /\ One(channel[2]) \in 0 .. 1
          /\ \A m : One(m)' = One(m)
      BY SMT DEF One, IsBatch
    <2>2. CASE n = 0
      BY <1>1, <2>1, <2>2, SMT DEF Sent
    <2>3. CASE n = 1 /\ L = 2
      <3>1. channel'[1] = channel[2]
        BY <1>1, <2>3, SMT
      <3> QED
        BY <1>1, <2>1, <2>3, <3>1, SMT DEF Sent
    <2>4. n = 0 \/ (n = 1 /\ L = 2)
      BY <1>1, SMT
    <2> QED
      BY <2>2, <2>3, <2>4
  <1>3. Sent(L - 1)' = Sent(L)
    <2>1. L - 1 \in 0 .. L - 1 /\ L - 1 + 1 = L
      BY <1>1, SMT
    <2> QED
      BY <1>2, <2>1
  <1> QED
    BY <1>1, <1>2, <1>3 DEF AllSent

LEMMA InitInv == Init => PumpInv
  <1> SUFFICES ASSUME Init PROVE PumpInv
    OBVIOUS
  <1>1. channel = <<>> /\ got = <<>> /\ Len(channel) = 0 /\ Len(got) = 0
    BY EmptySeq DEF Init
  <1>2. channel \in Seq(Messages) /\ got \in Seq(1 .. MaxBatches) /\ Len(channel) <= Capacity
    <2>1. 0 <= Capacity
      BY SMT DEF Capacity
    <2> QED
      BY <1>1, <2>1, EmptySeq
  <1>3. TypeOK
    <2>1. pulled \in 0 .. MaxBatches
      BY PumpAssumption, SMT DEF Init
    <2> QED
      BY <1>2, <2>1 DEF Init, TypeOK, Messages
  <1>4. AllSent = 0
    BY <1>1, SMT DEF AllSent, Sent
  <1>5. ChannelInOrder /\ PumpInOrder /\ EndIsLast /\ AnswerFollowsWriter
    <2>1. ChannelInOrder
      BY <1>1, SMT DEF ChannelInOrder
    <2> QED
      BY <1>1, <1>4, <2>1 DEF Init, PumpInOrder, EndIsLast, AnswerFollowsWriter
  <1>6. got = [i \in 1 .. Len(got) |-> i]
    BY <1>1, SMT
  <1> QED
    BY <1>3, <1>5, <1>6 DEF Init, PumpInv, NoFalseCompletion

\* Steps that leave the channel and what was given alone.
Quiet ==
    \/ Pull \/ Panic \/ SendFails \/ Abort \/ BeginRead \/ Closed \/ ReadAgain \/ Return
    \/ Permit \/ WriterEnded \/ Join \/ Drop \/ UNCHANGED vars

LEMMA Cases == [Next]_vars => Quiet \/ Send \/ Receive
  BY DEF Next, PumpStep, WriterStep, Quiet

\* A queued message, by what its places say.
LEMMA Queue ==
    ASSUME TypeOK, Send
    PROVE  /\ Len(channel) \in 0 .. 1 /\ Len(channel') = Len(channel) + 1
           /\ channel'[Len(channel) + 1] = item
           /\ \A i \in 1 .. Len(channel) : channel'[i] = channel[i]
           /\ channel' \in Seq(Messages) /\ Len(channel') <= Capacity
  <1>1. channel \in Seq(Messages) /\ item \in Messages /\ channel' = Append(channel, item)
    BY DEF TypeOK, Send
  <1>2. Len(channel) \in 0 .. 2 /\ Len(channel) < 2
    BY Sizes DEF Send, Capacity
  <1>3. Len(channel) \in 0 .. 1 /\ Len(channel) + 1 <= Capacity
    <2>1. \A n \in 0 .. 2 : n < 2 => n \in 0 .. 1 /\ n + 1 <= 2
      BY SMT
    <2> QED
      BY <1>2, <2>1 DEF Capacity
  <1> QED
    BY <1>1, <1>3, AppendProperties

LEMMA Dequeue ==
    ASSUME TypeOK, Receive
    PROVE  /\ Len(channel) \in 1 .. 2 /\ Len(channel') = Len(channel) - 1
           /\ Head(channel) = channel[1] /\ channel[1] \in Messages
           /\ \A i \in 1 .. Len(channel) - 1 : channel'[i] = channel[i + 1]
           /\ channel' \in Seq(Messages) /\ Len(channel') <= Capacity
  <1>1. channel \in Seq(Messages) /\ channel # <<>> /\ channel' = Tail(channel)
    BY DEF TypeOK, Receive
  <1>2. /\ Len(channel) \in 1 .. 2
        /\ \A i \in 1 .. Len(channel) : channel[i] \in Messages
    BY <1>1, Sizes
  <1>3. 1 \in 1 .. Len(channel) /\ Len(channel) - 1 <= Capacity
    <2>1. \A n \in 1 .. 2 : 1 \in 1 .. n /\ n - 1 <= 2
      BY SMT
    <2> QED
      BY <1>2, <2>1 DEF Capacity
  <1>4. Head(channel) = channel[1]
    BY <1>1
  <1> QED
    BY <1>1, <1>2, <1>3, <1>4, HeadTailProperties

LEMMA TypeStep ==
    ASSUME TypeOK, [Next]_vars
    PROVE  TypeOK'
  <1>1. CASE Quiet
    <2>1. channel' = channel /\ got' = got
      BY <1>1 DEF Quiet, Pull, Panic, SendFails, Abort, BeginRead, Closed, ReadAgain, Return,
         Permit, WriterEnded, Join, Drop, reader, upstream, vars
    <2>2. Pull => pulled' \in 0 .. MaxBatches /\ item' \in Messages
      BY PumpAssumption, SMT DEF TypeOK, Pull, Messages, upstream
    <2> USE DEF TypeOK, reader, upstream
    <2>3. CASE Pull
      BY <2>1, <2>2, <2>3 DEF Pull
    <2>4. CASE Panic \/ SendFails \/ Abort
      BY <2>1, <2>4 DEF Panic, SendFails, Abort
    <2>5. CASE BeginRead \/ Closed \/ ReadAgain
      BY <2>1, <2>5 DEF BeginRead, Closed, ReadAgain
    <2>6. CASE Return \/ Permit
      BY <2>1, <2>6 DEF Return, Permit
    <2>7. CASE WriterEnded \/ Join \/ Drop \/ UNCHANGED vars
      BY <2>1, <2>7 DEF WriterEnded, Join, Drop, vars
    <2> QED
      BY <1>1, <2>3, <2>4, <2>5, <2>6, <2>7 DEF Quiet
  <1>2. CASE Send
    BY <1>2, Queue DEF TypeOK, Send, reader, upstream
  <1>3. CASE Receive
    <2>1. Head(channel) \in Messages
      BY <1>3, Dequeue
    <2>2. IsBatch(Head(channel)) => Head(channel) \in 1 .. MaxBatches
      BY <2>1 DEF IsBatch, Messages
    <2>3. got' \in Seq(1 .. MaxBatches)
      <3>1. got \in Seq(1 .. MaxBatches) /\ Told(Head(channel))
        BY <1>3 DEF TypeOK, Receive
      <3>2. \/ got' = got
            \/ IsBatch(Head(channel)) /\ got' = Append(got, Head(channel))
        BY <3>1 DEF Told, IsBatch
      <3>3. CASE got' = got
        BY <3>1, <3>3
      <3>4. CASE IsBatch(Head(channel)) /\ got' = Append(got, Head(channel))
        BY <3>1, <3>4, <2>2, AppendProperties
      <3> QED
        BY <3>2, <3>3, <3>4
    <2> QED
      BY <1>3, <2>3, Dequeue, ZenonT(60) DEF TypeOK, Receive, Told, upstream
  <1> QED
    BY <1>1, <1>2, <1>3, Cases

-----------------------------------------------------------------------------
LEMMA SameSent ==
    ASSUME UNCHANGED <<channel, got>>
    PROVE  (\A n : Sent(n)' = Sent(n)) /\ AllSent' = AllSent
  BY DEF Sent, AllSent, One, IsBatch

LEMMA QuietStep ==
    ASSUME PumpInv, Quiet
    PROVE  PumpInv'
  <1>1. channel' = channel /\ got' = got
    BY DEF Quiet, Pull, Panic, SendFails, Abort, BeginRead, Closed, ReadAgain, Return,
       Permit, WriterEnded, Join, Drop, reader, upstream, vars
  <1>2. TypeOK /\ TypeOK'
    BY TypeStep DEF PumpInv, Quiet, Next, PumpStep, WriterStep
  <1>3. (\A n : Sent(n)' = Sent(n)) /\ AllSent' = AllSent
    BY <1>1, SameSent
  <1>4. \/ PumpRuns /\ (Pull \/ Panic \/ SendFails \/ Abort)
        \/ UNCHANGED <<source, pulled, pump, item>>
    BY DEF Quiet, Pull, Panic, SendFails, Abort, BeginRead, Closed, ReadAgain, Return,
       Permit, WriterEnded, Join, Drop, reader, upstream, vars, PumpRuns
  <1>5. ChannelInOrder'
    <2>1. ASSUME PumpRuns PROVE \A i \in 1 .. Len(channel) : channel[i] # End
      BY <2>1 DEF PumpInv, ChannelInOrder, PumpRuns
    <2>2. CASE PumpRuns
      BY <1>1, <1>3, <2>1, <2>2 DEF PumpInv, ChannelInOrder, IsBatch
    <2>3. CASE UNCHANGED <<source, pulled, pump, item>>
      BY <1>1, <1>3, <2>3 DEF PumpInv, ChannelInOrder, IsBatch
    <2> QED
      BY <1>4, <2>2, <2>3
  <1>6. PumpInOrder'
    <2>1. CASE Pull
      <3>1. AllSent = pulled /\ source = "open" /\ pump' = "send"
        BY <2>1 DEF Pull, PumpInv, PumpInOrder
      <3>2. \/ pulled' = pulled + 1 /\ item' = pulled' /\ source' = source
            \/ item' = Fail /\ source' = source /\ pulled' = pulled
            \/ item' = End /\ source' = "ended" /\ pulled' = pulled
        BY <2>1 DEF Pull, upstream
      <3>3. pulled + 1 # End /\ pulled + 1 # Fail
        <4>1. pulled + 1 \in Nat
          BY <1>2, PumpAssumption, SMT DEF TypeOK
        <4> QED
          BY <4>1, PumpAssumption
      <3> QED
        BY <1>3, <3>1, <3>2, <3>3, PumpAssumption DEF PumpInOrder, IsBatch
    <2>2. CASE Panic
      BY <2>2 DEF Panic, PumpInOrder
    <2>3. CASE SendFails \/ Abort
      BY <2>3 DEF SendFails, Abort, PumpInv, PumpInOrder, PumpRuns, upstream
    <2>4. CASE UNCHANGED <<source, pulled, pump, item>>
      BY <1>3, <2>4 DEF PumpInv, PumpInOrder, IsBatch
    <2> QED
      BY <1>4, <2>1, <2>2, <2>3, <2>4
  <1>7. EndIsLast'
    <2>1. CASE Pull \/ Panic \/ SendFails \/ Abort
      BY <2>1 DEF PumpInv, EndIsLast, PumpRuns, Pull, Panic, SendFails, Abort, reader
    <2>2. CASE Closed \/ ReadAgain
      BY <2>2 DEF PumpInv, EndIsLast, PumpRuns, Closed, ReadAgain
    <2>3. CASE BeginRead \/ Return \/ Permit \/ WriterEnded \/ Join \/ Drop \/ UNCHANGED vars
      BY <2>3 DEF PumpInv, EndIsLast, PumpRuns, BeginRead, Return, Permit, WriterEnded, Join,
         Drop, reader, vars
    <2> QED
      BY <2>1, <2>2, <2>3 DEF Quiet
  <1>8. AnswerFollowsWriter'
    <2>1. CASE Pull \/ Panic \/ SendFails \/ Abort
      BY <2>1 DEF PumpInv, AnswerFollowsWriter, PumpRuns, Pull, Panic, SendFails, Abort, reader
    <2>2. CASE BeginRead \/ Closed \/ ReadAgain \/ Return
      BY <2>2 DEF PumpInv, AnswerFollowsWriter, PumpRuns, BeginRead, Closed, ReadAgain, Return,
         reader
    <2>3. CASE Permit \/ WriterEnded \/ Join \/ Drop \/ UNCHANGED vars
      BY <2>3 DEF PumpInv, AnswerFollowsWriter, PumpRuns, Permit, WriterEnded, Join, Drop,
         reader, vars
    <2> QED
      BY <2>1, <2>2, <2>3 DEF Quiet
  <1>9. NoFalseCompletion'
    <2>1. got' = [i \in 1 .. Len(got') |-> i]
      BY <1>1 DEF PumpInv, NoFalseCompletion
    <2>2. sawEnd' /\ ~sawError' => source' = "ended" /\ Len(got') = pulled'
      <3>1. sawEnd' /\ ~sawError' => sawEnd /\ ~sawError
        BY DEF PumpInv, EndIsLast, Quiet, Pull, Panic, SendFails, Abort, BeginRead, Closed,
           ReadAgain, Return, Permit, WriterEnded, Join, Drop, reader, vars
      <3>2. sawEnd /\ ~sawError => UNCHANGED <<source, pulled>>
        BY <1>4 DEF PumpInv, EndIsLast
      <3> QED
        BY <1>1, <3>1, <3>2 DEF PumpInv, NoFalseCompletion
    <2>3. write' = "ok" => writer' = "accepted" /\ ~sawError' /\ source' # "panicked"
      <3>1. CASE Join
        BY <3>1 DEF Join, PumpInv, AnswerFollowsWriter, PumpInOrder, reader, upstream
      <3>2. CASE ~Join
        <4>1. write' = "ok" => write = "ok"
          BY <3>2 DEF Quiet, Pull, Panic, SendFails, Abort, BeginRead, Closed, ReadAgain,
             Return, Permit, WriterEnded, Drop, vars
        <4>2. write = "ok" => writer = "accepted" /\ source # "panicked" /\ ~PumpRuns
          BY DEF PumpInv, NoFalseCompletion, AnswerFollowsWriter
        <4>3. write = "ok" => UNCHANGED <<writer, source>>
          BY <1>4, <4>2 DEF Quiet, Pull, Panic, SendFails, Abort, BeginRead, Closed, ReadAgain,
             Return, Permit, WriterEnded, Join, Drop, vars
        <4> QED
          BY <1>8, <4>1, <4>2, <4>3 DEF AnswerFollowsWriter
      <3> QED
        BY <3>1, <3>2
    <2> QED
      BY <2>1, <2>2, <2>3 DEF NoFalseCompletion
  <1> QED
    BY <1>2, <1>5, <1>6, <1>7, <1>8, <1>9 DEF PumpInv

LEMMA SendStep ==
    ASSUME PumpInv, Send
    PROVE  PumpInv'
  <1>1. TypeOK /\ TypeOK'
    BY TypeStep DEF PumpInv, Next, PumpStep
  <1>2. /\ Len(channel) \in 0 .. 1 /\ Len(channel') = Len(channel) + 1
        /\ channel'[Len(channel) + 1] = item
        /\ \A i \in 1 .. Len(channel) : channel'[i] = channel[i]
    BY <1>1, Queue
  <1>3. /\ got' = got /\ UNCHANGED <<source, pulled, item, write, writer>>
        /\ UNCHANGED <<finished, sawEnd, sawError>>
        /\ pump = "send" /\ pump' = IF item = End THEN "exited" ELSE "pull"
    BY DEF Send, upstream, reader
  <1>4. /\ \A n \in 0 .. Len(channel) : Sent(n)' = Sent(n)
        /\ AllSent' = AllSent + One(item)
    BY <1>1, <1>2, <1>3, Sizes, SentGrows
  <1>5. /\ item = End => source = "ended" /\ AllSent' = pulled
        /\ item = Fail => source = "open" /\ AllSent' = pulled
        /\ IsBatch(item) => source = "open" /\ item = pulled /\ item = AllSent'
    <2>1. AllSent \in Nat /\ (IsBatch(item) => One(item) = 1) /\ (~IsBatch(item) => One(item) = 0)
      <3>1. AllSent \in Nat
        <4>1. \A m : One(m) \in Nat
          BY SMT DEF One
        <4>2. \A g, a, b \in Nat : \A p, q \in BOOLEAN :
                g + (IF p THEN a ELSE 0) + (IF q THEN b ELSE 0) \in Nat
          BY SMT
        <4>3. Len(got) \in Nat
          BY <1>1, Sizes
        <4>4. (Len(channel) >= 1) \in BOOLEAN /\ (Len(channel) >= 2) \in BOOLEAN
          BY <1>2, SMT
        <4> QED
          BY <4>1, <4>2, <4>3, <4>4 DEF AllSent, Sent
      <3> QED
        BY <3>1 DEF One
    <2>2. AllSent + 0 = AllSent
      BY <2>1, SMT
    <2> QED
      BY <1>3, <1>4, <2>1, <2>2, PumpAssumption DEF PumpInv, PumpInOrder, IsBatch
  <1>6. ChannelInOrder'
    <2> SUFFICES ASSUME NEW i \in 1 .. Len(channel')
                 PROVE  /\ IsBatch(channel'[i]) => channel'[i] = Sent(i)'
                        /\ channel'[i] = End => /\ i = Len(channel') /\ pump' = "exited"
                                                /\ source' = "ended" /\ AllSent' = pulled'
      BY DEF ChannelInOrder, IsBatch
    <2>1. CASE i = Len(channel) + 1
      BY <1>2, <1>3, <1>5, <2>1 DEF AllSent
    <2>2. CASE i \in 1 .. Len(channel)
      <3>1. i \in 0 .. Len(channel)
        BY <1>2, <2>2, SMT
      <3> QED
        BY <1>2, <1>3, <1>4, <2>2, <3>1 DEF PumpInv, ChannelInOrder
    <2>3. i = Len(channel) + 1 \/ i \in 1 .. Len(channel)
      BY <1>2, SMT
    <2> QED
      BY <2>1, <2>2, <2>3
  <1>7. PumpInOrder'
    BY <1>3, <1>5, PumpAssumption DEF PumpInv, PumpInOrder, IsBatch
  <1>8. EndIsLast' /\ AnswerFollowsWriter'
    BY <1>3 DEF PumpInv, EndIsLast, AnswerFollowsWriter, PumpRuns
  <1>9. NoFalseCompletion'
    BY <1>3 DEF PumpInv, NoFalseCompletion
  <1> QED
    BY <1>1, <1>6, <1>7, <1>8, <1>9 DEF PumpInv

LEMMA ReceiveStep ==
    ASSUME PumpInv, Receive
    PROVE  PumpInv'
  <1>1. TypeOK /\ TypeOK'
    BY TypeStep DEF PumpInv, Next, WriterStep
  <1>2. /\ Len(channel) \in 1 .. 2 /\ Len(channel') = Len(channel) - 1
        /\ Head(channel) = channel[1] /\ channel[1] \in Messages
        /\ \A i \in 1 .. Len(channel) - 1 : channel'[i] = channel[i + 1]
    BY <1>1, Dequeue
  <1>3. /\ UNCHANGED <<source, pulled, pump, item, write>>
        /\ writer = "reading" /\ writer' = "working" /\ ~finished
        /\ Told(channel[1])
    BY <1>2 DEF Receive, upstream
  <1>4. Len(got) \in Nat /\ Len(got') = Len(got) + One(channel[1])
    <2>1. got \in Seq(1 .. MaxBatches) /\ Len(got) \in Nat
      BY <1>1, Sizes
    <2>2. CASE IsBatch(channel[1])
      <3>1. got' = Append(got, channel[1]) /\ channel[1] \in 1 .. MaxBatches
        BY <1>2, <1>3, <2>2 DEF Told, IsBatch, Messages
      <3>2. Len(got') = Len(got) + 1
        BY <2>1, <3>1, AppendProperties
      <3> QED
        BY <2>1, <2>2, <3>2 DEF One
    <2>3. CASE ~IsBatch(channel[1])
      <3>1. got' = got
        BY <1>3, <2>3 DEF Told, IsBatch
      <3>2. Len(got) + 0 = Len(got)
        BY <2>1, SMT
      <3> QED
        BY <2>1, <2>3, <3>1, <3>2 DEF One
    <2> QED
      BY <2>2, <2>3
  <1>5. /\ \A n \in 0 .. Len(channel) - 1 : Sent(n)' = Sent(n + 1)
        /\ AllSent' = AllSent
    BY <1>2, <1>4, SentShifts
  <1>6. 1 \in 1 .. Len(channel)
    BY <1>2, SMT
  <1>7. ChannelInOrder'
    <2> SUFFICES ASSUME NEW i \in 1 .. Len(channel')
                 PROVE  /\ IsBatch(channel'[i]) => channel'[i] = Sent(i)'
                        /\ channel'[i] = End => /\ i = Len(channel') /\ pump' = "exited"
                                                /\ source' = "ended" /\ AllSent' = pulled'
      BY DEF ChannelInOrder, IsBatch
    <2>1. /\ i \in 1 .. Len(channel) - 1 /\ i \in 0 .. Len(channel) - 1
          /\ i + 1 \in 1 .. Len(channel)
          /\ i + 1 = Len(channel) => i = Len(channel')
      BY <1>2, SMT
    <2> QED
      BY <1>2, <1>3, <1>5, <2>1 DEF PumpInv, ChannelInOrder
  <1>8. PumpInOrder'
    BY <1>3, <1>5 DEF PumpInv, PumpInOrder, IsBatch
  <1>9. AnswerFollowsWriter'
    BY <1>3 DEF PumpInv, AnswerFollowsWriter, PumpRuns
  <1>10. EndIsLast' /\ NoFalseCompletion'
    <2>1. CASE channel[1] = End
      <3>1. /\ finished' /\ sawEnd' /\ got' = got /\ sawError' = sawError
        BY <1>3, <2>1, PumpAssumption DEF Told
      <3>2. Len(channel) = 1 /\ pump = "exited" /\ source = "ended" /\ AllSent = pulled
        BY <1>6, <2>1 DEF PumpInv, ChannelInOrder
      <3>3. channel' = <<>>
        <4>1. channel' \in Seq(Messages) /\ Len(channel') = 0
          BY <1>1, <1>2, <3>2, SMT DEF TypeOK
        <4> QED
          BY <4>1, EmptySeq, SMT
      <3>4. Len(got) = pulled
        BY <1>4, <2>1, <3>2, SMT DEF AllSent, Sent, One, IsBatch
      <3> QED
        BY <1>3, <3>1, <3>2, <3>3, <3>4 DEF PumpInv, EndIsLast, NoFalseCompletion, PumpRuns
    <2>2. CASE channel[1] = Fail
      <3>1. sawError' /\ UNCHANGED <<finished, got, sawEnd>>
        BY <1>3, <2>2, PumpAssumption DEF Told
      <3>2. ~sawEnd
        BY <1>3 DEF PumpInv, EndIsLast
      <3>3. write # "ok"
        BY <1>3 DEF PumpInv, NoFalseCompletion
      <3> QED
        BY <1>3, <3>1, <3>2, <3>3 DEF PumpInv, EndIsLast, NoFalseCompletion
    <2>3. CASE IsBatch(channel[1])
      <3>1. got' = Append(got, channel[1]) /\ UNCHANGED <<finished, sawEnd, sawError>>
        BY <1>3, <2>3 DEF Told, IsBatch
      <3>2. ~sawEnd /\ write # "ok"
        BY <1>3 DEF PumpInv, EndIsLast, NoFalseCompletion
      <3>3. channel[1] = Len(got) + 1
        <4>1. channel[1] = Sent(1)
          BY <1>6, <2>3 DEF PumpInv, ChannelInOrder
        <4> QED
          BY <1>4, <2>3, <4>1, SMT DEF Sent, One
      <3>4. got' = [i \in 1 .. Len(got') |-> i]
        <4>1. got \in Seq(1 .. MaxBatches) /\ got' \in Seq(1 .. MaxBatches)
              /\ channel[1] \in 1 .. MaxBatches /\ got = [i \in 1 .. Len(got) |-> i]
          BY <1>1, <1>2, <2>3 DEF TypeOK, PumpInv, NoFalseCompletion, Messages, IsBatch
        <4>2. /\ Len(got') = Len(got) + 1 /\ got'[Len(got) + 1] = Len(got) + 1
              /\ \A i \in 1 .. Len(got) : got'[i] = got[i]
          BY <3>1, <3>3, <4>1, AppendProperties
        <4>3. got' = [i \in 1 .. Len(got') |-> got'[i]]
          BY <4>1, LenProperties
        <4>4. \A i \in 1 .. Len(got') : got'[i] = i
          <5> SUFFICES ASSUME NEW i \in 1 .. Len(got') PROVE got'[i] = i
            OBVIOUS
          <5>1. i \in 1 .. Len(got) \/ i = Len(got) + 1
            BY <1>4, <4>2, SMT
          <5> QED
            BY <4>1, <4>2, <5>1
        <4> QED
          BY <4>3, <4>4
      <3> QED
        BY <1>3, <3>1, <3>2, <3>4 DEF PumpInv, EndIsLast, NoFalseCompletion
    <2> QED
      BY <2>1, <2>2, <2>3 DEF IsBatch
  <1> QED
    BY <1>1, <1>7, <1>8, <1>9, <1>10 DEF PumpInv

LEMMA StepInv == PumpInv /\ [Next]_vars => PumpInv'
  BY Cases, QuietStep, SendStep, ReceiveStep

\* PumpInv holds in every reachable state of every INSERT.
THEOREM PumpCorrect == Spec => []PumpInv
  <1> QED
    BY InitInv, StepInv, PTL DEF Spec

\* The type invariant of an INSERT.
THEOREM TypeCorrect == Spec => []TypeOK
  <1>1. PumpInv => TypeOK
    BY DEF PumpInv
  <1> QED
    BY <1>1, PumpCorrect, PTL

(* Whatever the size of the input, a provider that is told its end without *)
(* an error was given all of it in order, and INSERT reports success only  *)
(* for a provider that accepted it (go_provider.rs: Pump, InputReader).    *)
THEOREM CompletionIsTrue == Spec => []NoFalseCompletion
  <1>1. PumpInv => NoFalseCompletion
    BY DEF PumpInv
  <1> QED
    BY <1>1, PumpCorrect, PTL

(***************************************************************************)
(* The shared runtime.                                                     *)
(***************************************************************************)

\* Every action keeps the types; a build is within the bound.
LEMMA RuntimeTypeStep ==
    ASSUME RuntimeTypeOK, OptionsKept, [RuntimeNext]_runtimeVars
    PROVE  RuntimeTypeOK'
  <1> USE DEF RuntimeTypeOK, Proceed
  <1>0. ASSUME UNCHANGED runtimeVars PROVE RuntimeTypeOK'
    BY <1>0 DEF runtimeVars
  <1>1. ASSUME NEW d \in Database, Open(d) PROVE RuntimeTypeOK'
    BY <1>1 DEF Open
  <1>2. ASSUME NEW d \in Database, LockTable(d) PROVE RuntimeTypeOK'
    BY <1>2 DEF LockTable
  <1>3. ASSUME NEW d \in Database, Retain(d) PROVE RuntimeTypeOK'
    BY <1>3 DEF Retain
  <1>4. ASSUME NEW d \in Database, Upgrade(d) PROVE RuntimeTypeOK'
    <2>1. weak[workers[d]] \in Runtime \union {Unset}
      BY <1>4 DEF Upgrade, OptionsKept
    <2>2. Alive(weak[workers[d]]) => weak[workers[d]] \in Runtime
      BY <2>1 DEF Alive
    <2> QED
      BY <1>4, <2>1, <2>2 DEF Upgrade
  <1>5. ASSUME NEW d \in Database, Build(d) PROVE RuntimeTypeOK'
    <2>1. workers[d] \in Workers
      BY <1>5 DEF Build, OptionsKept
    <2>2. Len(built) + 1 \in Runtime /\ Len(built)' <= MaxRuntimes
          /\ built' \in Seq([workers : Workers, shared : BOOLEAN])
      <3>1. [workers |-> workers[d], shared |-> shared[d]] \in [workers : Workers, shared : BOOLEAN]
        BY <2>1
      <3>2. /\ built' \in Seq([workers : Workers, shared : BOOLEAN])
            /\ Len(built') = Len(built) + 1 /\ Len(built) \in Nat
        BY <1>5, <3>1, AppendProperties, LenProperties DEF Build
      <3> QED
        BY <1>5, <3>2, RuntimeAssumption DEF Build, Runtime
    <2> QED
      BY <1>5, <2>2 DEF Build
  <1>6. ASSUME NEW d \in Database, BuildFails(d) PROVE RuntimeTypeOK'
    BY <1>6 DEF BuildFails
  <1>7. ASSUME NEW d \in Database, Insert(d) PROVE RuntimeTypeOK'
    BY <1>7 DEF Insert
  <1>8. ASSUME NEW d \in Database, DropRuntime(d) PROVE RuntimeTypeOK'
    BY <1>8 DEF DropRuntime
  <1> QED
    BY <1>0, <1>1, <1>2, <1>3, <1>4, <1>5, <1>6, <1>7, <1>8 DEF RuntimeNext

\* No database is open and no runtime built.
LEMMA RuntimeInitially == RuntimeInit => RuntimeInv
  <1> SUFFICES ASSUME RuntimeInit PROVE RuntimeInv
    OBVIOUS
  <1>1. RuntimeTypeOK
    <2>1. built \in Seq([workers : Workers, shared : BOOLEAN]) /\ Len(built) = 0
      BY EmptySeq DEF RuntimeInit
    <2> QED
      BY <2>1, RuntimeAssumption DEF RuntimeInit, RuntimeTypeOK
  <1> QED
    BY <1>1, RuntimeAssumption DEF RuntimeInit, RuntimeInv, OptionsKept, OpensUnderLock, InUseRegistered

\* What a step does to the table of runtimes built so far: nothing is forgotten.
LEMMA BuiltGrows ==
    ASSUME RuntimeTypeOK, NEW d \in Database, Build(d), workers[d] \in Workers
    PROVE  /\ Len(built) \in Nat /\ Len(built') = Len(built) + 1
           /\ built'[Len(built) + 1] = [workers |-> workers[d], shared |-> shared[d]]
           /\ \A r \in Runtime : r <= Len(built) => built'[r] = built[r]
  <1> DEFINE options == [workers |-> workers[d], shared |-> shared[d]]
  <1>1. options \in [workers : Workers, shared : BOOLEAN]
    BY DEF RuntimeTypeOK
  <1>2. built \in Seq([workers : Workers, shared : BOOLEAN]) /\ built' = Append(built, options)
    BY DEF RuntimeTypeOK, Build
  <1> HIDE DEF options
  <1>3. /\ Len(built) \in Nat /\ Len(built') = Len(built) + 1
        /\ built'[Len(built) + 1] = options
        /\ \A r \in 1 .. Len(built) : built'[r] = built[r]
    BY <1>1, <1>2, AppendProperties, LenProperties
  <1>4. \A r \in Runtime : r <= Len(built) => r \in 1 .. Len(built)
    BY <1>3, RuntimeAssumption DEF Runtime
  <1> QED
    BY <1>3, <1>4 DEF options

\* Every action keeps what the options, the mutex and the table say.
LEMMA RuntimeStep ==
    ASSUME RuntimeInv, [RuntimeNext]_runtimeVars
    PROVE  RuntimeInv'
  <1>1. RuntimeTypeOK /\ OptionsKept /\ OpensUnderLock /\ InUseRegistered
    BY DEF RuntimeInv
  <1>2. RuntimeTypeOK'
    BY <1>1, RuntimeTypeStep
  <1>3. Unset \notin Runtime /\ Unset \notin Database /\ Unset \notin Workers
    BY RuntimeAssumption DEF Runtime
  <1> DEFINE Rest == OptionsKept /\ OpensUnderLock /\ InUseRegistered
  <1> USE DEF Proceed
  <1>10. ASSUME UNCHANGED runtimeVars PROVE Rest'
    BY <1>1, <1>10 DEF runtimeVars, OptionsKept, OpensUnderLock, InUseRegistered, Alive
  <1>11. ASSUME NEW d \in Database, Open(d) PROVE Rest'
    <2>1. \E w \in Workers, share \in BOOLEAN :
             /\ opening' = [opening EXCEPT ![d] = IF share THEN "lock" ELSE "build"]
             /\ workers' = [workers EXCEPT ![d] = w] /\ shared' = [shared EXCEPT ![d] = share]
      BY <1>11 DEF Open
    <2>2. opening[d] = "idle" /\ runtime[d] = Unset /\ UNCHANGED <<runtime, weak, tableMu, built>>
      BY <1>11 DEF Open
    <2>3. OptionsKept'
      BY <1>1, <2>1, <2>2 DEF RuntimeTypeOK, OptionsKept
    <2>4. OpensUnderLock'
      BY <1>1, <2>1, <2>2 DEF RuntimeTypeOK, OpensUnderLock
    <2>5. InUseRegistered'
      BY <1>1, <2>1, <2>2 DEF RuntimeTypeOK, InUseRegistered, Alive
    <2> QED
      BY <2>3, <2>4, <2>5
  <1>12. ASSUME NEW d \in Database, LockTable(d) PROVE Rest'
    <2>1. OptionsKept'
      BY <1>1, <1>12 DEF LockTable, RuntimeTypeOK, OptionsKept
    <2>2. OpensUnderLock'
      BY <1>1, <1>3, <1>12 DEF LockTable, RuntimeTypeOK, OpensUnderLock
    <2>3. InUseRegistered'
      BY <1>1, <1>12 DEF LockTable, RuntimeTypeOK, InUseRegistered, Alive
    <2> QED
      BY <2>1, <2>2, <2>3
  <1>13. ASSUME NEW d \in Database, Retain(d) PROVE Rest'
    <2>1. OptionsKept'
      BY <1>1, <1>13 DEF Retain, RuntimeTypeOK, OptionsKept
    <2>2. OpensUnderLock'
      BY <1>1, <1>13 DEF Retain, RuntimeTypeOK, OpensUnderLock
    <2>3. InUseRegistered'
      <3>1. \A w \in Workers : Alive(weak[w]) => weak'[w] = weak[w]
        BY <1>1, <1>13 DEF Retain
      <3>2. \A e \in Database : runtime[e] # Unset => Alive(runtime[e]) /\ workers[e] \in Workers
        BY <1>1 DEF Alive, OptionsKept
      <3>3. \A e \in Database : shared[e] /\ opening[e] \in {"build", "insert"} => ~(tableMu = d)
        BY <1>1, <1>13 DEF Retain, OpensUnderLock
      <3>4. tableMu = d
        BY <1>1, <1>13 DEF Retain, OpensUnderLock
      <3> QED
        BY <1>1, <1>3, <1>13, <3>1, <3>2, <3>3, <3>4 DEF Retain, RuntimeTypeOK, InUseRegistered
    <2> QED
      BY <2>1, <2>2, <2>3
  <1>14. ASSUME NEW d \in Database, Upgrade(d) PROVE Rest'
    <2> DEFINE r == weak[workers[d]]
    <2>1. /\ workers[d] \in Workers /\ shared[d] /\ runtime[d] = Unset /\ tableMu = d
          /\ opening[d] = "upgrade"
      BY <1>1, <1>14 DEF Upgrade, OptionsKept, OpensUnderLock
    <2>2. CASE Alive(r)
      <3>1. /\ runtime' = [runtime EXCEPT ![d] = r] /\ opening' = [opening EXCEPT ![d] = "idle"]
            /\ tableMu' = Unset /\ UNCHANGED <<workers, shared, weak, built>>
            /\ r # Unset /\ \E e \in Database : runtime[e] = r
        BY <1>14, <2>2 DEF Upgrade, Alive
      <3>2. r <= Len(built) /\ built[r] = [workers |-> workers[d], shared |-> TRUE]
        BY <1>1, <2>1, <3>1 DEF OptionsKept
      <3> HIDE DEF r
      <3>3. OptionsKept'
        BY <1>1, <2>1, <3>1, <3>2, ZenonT(60) DEF RuntimeTypeOK, OptionsKept
      <3>4. OpensUnderLock'
        BY <1>1, <1>3, <2>1, <3>1 DEF RuntimeTypeOK, OpensUnderLock
      <3>5. \A e \in Database : runtime[e] = r => shared[e]
        <4>1. built[r].shared = TRUE
          BY <3>2
        <4>2. \A e \in Database : runtime[e] = r => built[r].shared = shared[e]
          <5> SUFFICES ASSUME NEW e \in Database, runtime[e] = r PROVE built[r].shared = shared[e]
            OBVIOUS
          <5>1. built[r] = [workers |-> workers[e], shared |-> shared[e]]
            BY <1>1, <3>1 DEF OptionsKept
          <5> QED
            BY <5>1
        <4>3. \A e \in Database : shared[e] \in BOOLEAN
          BY <1>1 DEF RuntimeTypeOK
        <4> QED
          BY <4>1, <4>2, <4>3
      <3>6. \A e \in Database : shared[e] => opening[e] \notin {"build", "insert"}
        BY <1>1, <2>1 DEF OpensUnderLock
      <3>7. \A e \in Database : runtime[e] = r => opening[e] = "idle"
        BY <1>1, <3>1, <3>5, <3>6, ZenonT(60) DEF RuntimeTypeOK, OptionsKept
      <3>8. InUseRegistered'
        BY <1>1, <2>1, <3>1, <3>5, <3>6, <3>7 DEF RuntimeTypeOK, InUseRegistered, r
      <3> QED
        BY <3>3, <3>4, <3>8
    <2>3. CASE ~Alive(r)
      <3>1. /\ opening' = [opening EXCEPT ![d] = "build"]
            /\ UNCHANGED <<workers, shared, weak, built, runtime, tableMu>>
        BY <1>14, <2>3 DEF Upgrade
      <3>2. OptionsKept'
        BY <1>1, <2>1, <3>1 DEF RuntimeTypeOK, OptionsKept
      <3>3. OpensUnderLock'
        BY <1>1, <2>1, <3>1 DEF RuntimeTypeOK, OpensUnderLock
      <3>4. InUseRegistered'
        BY <1>1, <2>1, <2>3, <3>1 DEF RuntimeTypeOK, InUseRegistered, Alive
      <3> QED
        BY <3>2, <3>3, <3>4
    <2> QED
      BY <2>2, <2>3
  <1>15. ASSUME NEW d \in Database, Build(d) PROVE Rest'
    <2> DEFINE n == Len(built) + 1
    <2>1. workers[d] \in Workers /\ opening[d] = "build" /\ runtime[d] = Unset
      BY <1>1, <1>15 DEF Build, OptionsKept
    <2>2. /\ runtime' = [runtime EXCEPT ![d] = n] /\ UNCHANGED <<workers, shared, weak, tableMu>>
          /\ opening' = [opening EXCEPT ![d] = IF shared[d] THEN "insert" ELSE "idle"]
      BY <1>15 DEF Build
    <2>3. /\ Len(built) \in Nat /\ Len(built') = n
          /\ built'[n] = [workers |-> workers[d], shared |-> shared[d]]
          /\ \A r \in Runtime : r <= Len(built) => built'[r] = built[r]
      BY <1>1, <1>15, <2>1, BuiltGrows
    <2>4. n \in Nat /\ n # Unset /\ n <= n /\ ~(n <= Len(built))
      BY <2>3, RuntimeAssumption
    <2>5. \A r \in Runtime : r <= Len(built) => r <= n /\ r # n
      BY <2>3, RuntimeAssumption DEF Runtime
    <2>6. /\ \A e \in Database : runtime[e] # n
          /\ \A w \in Workers : weak[w] # n
      BY <1>1, <2>4, <2>5, <1>3 DEF OptionsKept, RuntimeTypeOK
    <2> HIDE DEF n
    <2>7. OptionsKept'
      BY <1>1, <1>3, <2>1, <2>2, <2>3, <2>4, <2>5 DEF RuntimeTypeOK, OptionsKept
    <2>8. OpensUnderLock'
      BY <1>1, <2>1, <2>2 DEF RuntimeTypeOK, OpensUnderLock
    <2>9. InUseRegistered'
      <3>1. \A e \in Database : workers[e] \in Workers => (Alive(weak[workers[e]])' => Alive(weak[workers[e]]))
        BY <1>1, <2>1, <2>2, <2>6 DEF RuntimeTypeOK, Alive
      <3>2. \A e \in Database : shared[e] /\ opening'[e] \in {"build", "insert"} => opening[e] \in {"build", "insert"} /\ workers[e] \in Workers
        BY <1>1, <2>1, <2>2 DEF RuntimeTypeOK, OptionsKept
      <3>3. \A e \in Database : shared[e] /\ opening'[e] \in {"build", "insert"} => ~Alive(weak[workers[e]])'
        BY <1>1, <3>1, <3>2 DEF InUseRegistered
      <3>4. \A e \in Database : e # d => runtime'[e] = runtime[e] /\ opening'[e] = opening[e] /\ runtime[e] # n
        BY <1>1, <2>2, <2>6 DEF RuntimeTypeOK
      <3>5. runtime'[d] = n /\ (shared[d] => opening'[d] = "insert")
        BY <1>1, <2>2 DEF RuntimeTypeOK
      <3> QED
        BY <1>1, <2>2, <3>3, <3>4, <3>5 DEF InUseRegistered
    <2> QED
      BY <2>7, <2>8, <2>9
  <1>16. ASSUME NEW d \in Database, BuildFails(d) PROVE Rest'
    <2>1. OptionsKept'
      BY <1>1, <1>16 DEF BuildFails, RuntimeTypeOK, OptionsKept
    <2>2. OpensUnderLock'
      BY <1>1, <1>3, <1>16 DEF BuildFails, RuntimeTypeOK, OpensUnderLock
    <2>3. InUseRegistered'
      BY <1>1, <1>16 DEF BuildFails, RuntimeTypeOK, OptionsKept, InUseRegistered, Alive
    <2> QED
      BY <2>1, <2>2, <2>3
  <1>17. ASSUME NEW d \in Database, Insert(d) PROVE Rest'
    <2>1. /\ workers[d] \in Workers /\ shared[d] /\ runtime[d] # Unset /\ tableMu = d
          /\ opening[d] = "insert" /\ ~Alive(weak[workers[d]])
      BY <1>1, <1>17 DEF Insert, OptionsKept, OpensUnderLock, InUseRegistered
    <2>2. OptionsKept'
      BY <1>1, <1>17, <2>1 DEF Insert, RuntimeTypeOK, OptionsKept
    <2>3. OpensUnderLock'
      BY <1>1, <1>3, <1>17, <2>1 DEF Insert, RuntimeTypeOK, OpensUnderLock
    <2>4. InUseRegistered'
      <3>1. \A e \in Database : shared[e] /\ runtime[e] # Unset /\ e # d =>
               opening[e] \notin {"build", "insert"} /\ workers[e] # workers[d]
        BY <1>1, <2>1 DEF OpensUnderLock, InUseRegistered, Alive
      <3>2. \A e \in Database : shared[e] /\ opening[e] \in {"build", "insert"} => e = d
        BY <1>1, <2>1 DEF OpensUnderLock
      <3> QED
        BY <1>1, <1>17, <2>1, <3>1, <3>2 DEF Insert, RuntimeTypeOK, InUseRegistered, OptionsKept
    <2> QED
      BY <2>2, <2>3, <2>4
  <1>18. ASSUME NEW d \in Database, DropRuntime(d) PROVE Rest'
    <2>1. OptionsKept'
      BY <1>1, <1>3, <1>18 DEF DropRuntime, RuntimeTypeOK, OptionsKept
    <2>2. OpensUnderLock'
      BY <1>1, <1>18 DEF DropRuntime, RuntimeTypeOK, OpensUnderLock
    <2>3. InUseRegistered'
      BY <1>1, <1>3, <1>18 DEF DropRuntime, RuntimeTypeOK, InUseRegistered, Alive
    <2> QED
      BY <2>1, <2>2, <2>3
  <1> QED
    BY <1>2, <1>10, <1>11, <1>12, <1>13, <1>14, <1>15, <1>16, <1>17, <1>18 DEF RuntimeNext, RuntimeInv

\* RuntimeInv holds in every reachable state, whatever the databases.
THEOREM RuntimeInvariant == RuntimeSpec => []RuntimeInv
  <1> QED
    BY RuntimeInitially, RuntimeStep, PTL DEF RuntimeSpec

\* The types of the shared runtimes' state.
THEOREM RuntimeTypeCorrect == RuntimeSpec => []RuntimeTypeOK
  <1>1. RuntimeInv => RuntimeTypeOK
    BY DEF RuntimeInv
  <1> QED
    BY <1>1, RuntimeInvariant, PTL

(* However many databases are opened and dropped at once, those that share *)
(* have one runtime per worker count between them, built with the options  *)
(* each asked for, and a private runtime has one user (session.rs:         *)
(* runtime_from_dsn).                                                      *)
THEOREM RuntimesShared == RuntimeSpec => []OneSharedRuntime
  <1>1. RuntimeInv => OneSharedRuntime
    <2> SUFFICES ASSUME RuntimeInv, NEW d \in Database, NEW e \in Database, runtime[d] # Unset
                 PROVE  /\ built[runtime[d]] = [workers |-> workers[d], shared |-> shared[d]]
                        /\ shared[d] /\ shared[e] /\ workers[d] = workers[e] /\ runtime[e] # Unset
                              => runtime[d] = runtime[e]
                        /\ ~shared[d] /\ runtime[e] = runtime[d] => e = d
      BY DEF OneSharedRuntime
    <2>1. OptionsKept /\ OpensUnderLock /\ InUseRegistered
      BY DEF RuntimeInv
    <2>2. ASSUME NEW f \in Database, shared[f], opening[f] = "insert", NEW g \in Database, shared[g],
                 runtime[f] # Unset, runtime[g] # Unset, workers[f] = workers[g]
          PROVE  f = g
      BY <2>1, <2>2 DEF OpensUnderLock, InUseRegistered, Alive
    <2> QED
      BY <2>1, <2>2 DEF OptionsKept, InUseRegistered
  <1> QED
    BY <1>1, RuntimeInvariant, PTL

(***************************************************************************)
(* Imports and registrations.                                              *)
(***************************************************************************)

\* The type of an importer.
ImportSteps == {"open", "schema", "append", "commit", "ok", "error"}
ImportRecord ==
    [step : ImportSteps, input : 0 .. MaxInput, fails : BOOLEAN, cancelled : BOOLEAN,
     batches : Seq(Batch), published : 0 .. 1]

\* The fields of an importer have their types.
LEMMA ImportersTyped ==
    ASSUME ImportTypeOK, NEW i \in Importer
    PROVE  /\ imports \in [Importer -> ImportRecord] /\ imports[i] \in ImportRecord
           /\ imports[i].step \in ImportSteps
           /\ imports[i].input \in 0 .. MaxInput /\ imports[i].fails \in BOOLEAN
           /\ imports[i].cancelled \in BOOLEAN /\ imports[i].batches \in Seq(Batch)
           /\ imports[i].published \in 0 .. 1 /\ Appended(i) \in Nat
  <1>1. imports \in [Importer -> ImportRecord] /\ imports[i] \in ImportRecord
    BY DEF ImportTypeOK, ImportRecord, ImportSteps
  <1>2. /\ imports[i].step \in ImportSteps
        /\ imports[i].input \in 0 .. MaxInput /\ imports[i].fails \in BOOLEAN
        /\ imports[i].cancelled \in BOOLEAN /\ imports[i].batches \in Seq(Batch)
        /\ imports[i].published \in 0 .. 1
    BY <1>1 DEF ImportRecord
  <1> QED
    BY <1>1, <1>2, LenProperties DEF Appended

\* One more batch makes a whole of one more.
LEMMA WholeGrows ==
    ASSUME NEW i \in Importer, NEW n \in Nat, NEW s \in Seq(Batch), Len(s) = n, s = Whole(i, n),
           n + 1 \in 1 .. MaxInput
    PROVE  /\ Append(s, <<i, n + 1>>) \in Seq(Batch) /\ Len(Append(s, <<i, n + 1>>)) = n + 1
           /\ Append(s, <<i, n + 1>>) = Whole(i, n + 1)
  <1> DEFINE e == <<i, n + 1>>  t == Append(s, e)
  <1>1. e \in Batch
    BY DEF Batch
  <1>2. /\ t \in Seq(Batch) /\ Len(t) = n + 1 /\ t[n + 1] = e
        /\ \A b \in 1 .. n : t[b] = s[b]
    <2> HIDE DEF e
    <2> QED
      BY <1>1, AppendProperties
  <1>3. \A b \in 1 .. n + 1 : t[b] = <<i, b>>
    <2> SUFFICES ASSUME NEW b \in 1 .. n + 1 PROVE t[b] = <<i, b>>
      OBVIOUS
    <2> HIDE DEF t
    <2>1. b \in 1 .. n \/ b = n + 1
      OBVIOUS
    <2> QED
      BY <1>2, <2>1 DEF Whole
  <1>4. t = [b \in 1 .. n + 1 |-> t[b]]
    <2> HIDE DEF t
    <2> QED
      BY <1>2, LenProperties
  <1> HIDE DEF t
  <1>5. t = Whole(i, n + 1)
    BY <1>3, <1>4 DEF Whole
  <1> QED
    BY <1>2, <1>5 DEF t

\* An importer that appended nothing holds a whole of nothing.
LEMMA EmptyWhole == <<>> \in Seq(Batch) /\ Len(<<>>) = 0 /\ \A i : <<>> = Whole(i, 0)
  <1>1. <<>> \in Seq(Batch) /\ Len(<<>>) = 0
    BY EmptySeq
  <1>2. \A i : <<>> = Whole(i, 0)
    BY SMT DEF Whole
  <1> QED
    BY <1>1, <1>2

\* What ImportInv says of an importer r and of the table t.
Sound(i, r, t) ==
    /\ r \in ImportRecord
    /\ r.batches = Whole(i, Len(r.batches)) /\ Len(r.batches) <= r.input
    /\ r.step = "commit" => Len(r.batches) = r.input /\ ~r.fails
    /\ r.step \in {"open", "schema"} => Len(r.batches) = 0
    /\ t.by = i => r.step = "ok" /\ ~r.fails /\ t.content = Whole(i, r.input)
    /\ r.published = IF r.step = "ok" THEN 1 ELSE 0

\* ImportInv, by importers and handle.
TablesTyped == table \in [content : Seq(Batch), by : Importer \union {NoTable, Foreign}]
ImportersSound ==
    /\ TablesTyped
    /\ imports \in [Importer -> ImportRecord]
    /\ \A i \in Importer : Sound(i, imports[i], table)

HandleSound ==
    /\ connOpen \in BOOLEAN /\ done \in BOOLEAN
    /\ handleMu \in Caller \union {NoTable}
    /\ calls \in [Caller -> 0 .. MaxCalls]
    /\ doing \in [Caller -> {"idle", "remove", "mark"}]
    /\ removed \in Nat
    /\ RemovesUnderLock /\ RemovedIsMarked /\ HandleRemovesOnce

\* ImportInv is what it says of the importers and of the handle.
LEMMA ImportParts == ImportInv <=> ImportersSound /\ HandleSound
  <1>1. ImportTypeOK <=> /\ imports \in [Importer -> ImportRecord] /\ TablesTyped
                         /\ connOpen \in BOOLEAN /\ done \in BOOLEAN
                         /\ handleMu \in Caller \union {NoTable}
                         /\ calls \in [Caller -> 0 .. MaxCalls]
                         /\ doing \in [Caller -> {"idle", "remove", "mark"}]
                         /\ removed \in Nat
    BY DEF ImportTypeOK, ImportRecord, ImportSteps, TablesTyped
  <1>2. ASSUME imports \in [Importer -> ImportRecord]
        PROVE  PrefixAppended /\ PublishedWhole
               <=> \A i \in Importer : Sound(i, imports[i], table)
    BY <1>2 DEF PrefixAppended, PublishedWhole, Sound, At, Appended
  <1> QED
    BY <1>1, <1>2 DEF ImportInv, ImportersSound, HandleSound, RegistrationExact

\* The same after a step.
LEMMA ImportPartsNext == ImportInv' <=> ImportersSound' /\ HandleSound'
  BY ImportParts, PTL

\* An importer moves, alone.
LEMMA OneMoves ==
    ASSUME ImportersSound, NEW i \in Importer, NEW r, Sound(i, r, table),
           imports' = [imports EXCEPT ![i] = r], table' = table
    PROVE  ImportersSound'
  <1>1. r \in ImportRecord
    BY DEF Sound
  <1>2. /\ imports' \in [Importer -> ImportRecord]
        /\ \A j \in Importer : imports'[j] = IF j = i THEN r ELSE imports[j]
    BY <1>1 DEF ImportersSound
  <1>3. TablesTyped'
    BY DEF ImportersSound, TablesTyped
  <1>4. \A j \in Importer : Sound(j, imports[j], table)
    BY DEF ImportersSound
  <1>5. \A j \in Importer : Sound(j, imports'[j], table')
    BY <1>2, <1>4
  <1>6. \A j \in Importer : Sound(j, imports[j], table)'
    BY <1>5 DEF Sound, ImportRecord, ImportSteps, Batch, Whole
  <1> QED
    BY <1>2, <1>3, <1>6 DEF ImportersSound, ImportRecord, ImportSteps, Batch

\* Close drops what was appended.
LEMMA FailedSound ==
    ASSUME NEW i \in Importer, NEW r, Sound(i, r, table), r.step \notin {"ok", "error"}
    PROVE  Sound(i, [r EXCEPT !.step = "error", !.batches = <<>>], table)
  <1> DEFINE failed == [r EXCEPT !.step = "error", !.batches = <<>>]
             none == <<>>
  <1>1. r \in ImportRecord /\ none \in Seq(Batch) /\ none = Whole(i, 0) /\ Len(none) = 0
        /\ failed = [r EXCEPT !.step = "error", !.batches = none] /\ 0 <= r.input
    BY EmptyWhole DEF Sound, ImportRecord
  <1> HIDE DEF none, failed
  <1>2. failed \in ImportRecord /\ failed.step = "error" /\ failed.batches = none
        /\ failed.published = r.published /\ failed.input = r.input
    BY <1>1 DEF ImportRecord, ImportSteps
  <1>3. table.by # i /\ r.published = 0
    BY DEF Sound
  <1>4. Sound(i, failed, table)
    BY <1>1, <1>2, <1>3 DEF Sound
  <1> QED
    BY <1>4 DEF failed, none

\* The steps of an import before Commit.
LEMMA ImporterStep ==
    ASSUME ImportersSound, NEW i \in Importer,
           OpenImport(i) \/ CancelImport(i) \/ AppendSchema(i) \/ AppendBatch(i) \/ EndOfInput(i)
    PROVE  ImportersSound'
  <1> DEFINE r == imports[i]
             failed == [r EXCEPT !.step = "error", !.batches = <<>>]
  <1>1. Sound(i, r, table) /\ imports \in [Importer -> ImportRecord]
    BY DEF ImportersSound
  <1>2. /\ r \in ImportRecord /\ r.step \in ImportSteps /\ r.batches \in Seq(Batch)
        /\ r.input \in 0 .. MaxInput /\ Len(r.batches) \in Nat /\ r.published \in 0 .. 1
    BY <1>1, LenProperties DEF Sound, ImportRecord
  <1>3. table' = table
    BY DEF OpenImport, CancelImport, AppendSchema, AppendBatch, EndOfInput
  <1>4. r.step \notin {"ok", "error"} => Sound(i, failed, table)
    BY <1>1, FailedSound
  <1>5. CASE OpenImport(i)
    <2>1. PICK n \in 0 .. MaxInput, fails \in BOOLEAN :
             imports' = [imports EXCEPT ![i].step = "schema", ![i].input = n, ![i].fails = fails]
      BY <1>5 DEF OpenImport
    <2> DEFINE s == [r EXCEPT !.step = "schema", !.input = n, !.fails = fails]
    <2>2. imports' = [imports EXCEPT ![i] = s]
      BY <1>1, <2>1
    <2>3. /\ s \in ImportRecord /\ s.step = "schema" /\ s.batches = r.batches
          /\ s.published = r.published /\ s.input = n
      BY <1>2 DEF ImportRecord, ImportSteps
    <2>4. Sound(i, s, table)
      <3>1. r.step = "open" /\ Len(r.batches) = 0 /\ 0 <= n
        <4>1. r.step = "open"
          BY <1>5 DEF OpenImport, At
        <4> HIDE DEF r
        <4>2. Len(r.batches) = 0
          BY <1>1, <4>1 DEF Sound
        <4> QED
          BY <4>1, <4>2
      <3> HIDE DEF s
      <3> QED
        BY <1>1, <2>3, <3>1 DEF Sound
    <2> QED
      BY <1>3, <2>2, <2>4, OneMoves
  <1>6. CASE CancelImport(i)
    <2> DEFINE s == [r EXCEPT !.cancelled = TRUE]
    <2>1. imports' = [imports EXCEPT ![i] = s]
      BY <1>1, <1>6 DEF CancelImport
    <2>2. Sound(i, s, table)
      BY <1>1, <1>2 DEF Sound, ImportRecord
    <2> QED
      BY <1>3, <2>1, <2>2, OneMoves
  <1>7. CASE AppendSchema(i)
    <2>1. PICK step \in {"append", "error"} : imports' = [imports EXCEPT ![i].step = step]
      BY <1>7 DEF AppendSchema, GoTo
    <2> DEFINE s == [r EXCEPT !.step = step]
    <2>2. imports' = [imports EXCEPT ![i] = s]
      BY <1>1, <2>1
    <2>3. Sound(i, s, table)
      BY <1>1, <1>2, <1>7 DEF AppendSchema, At, Sound, ImportRecord, ImportSteps
    <2> QED
      BY <1>3, <2>2, <2>3, OneMoves
  <1>8. ASSUME Fails(i), r.step \notin {"ok", "error"} PROVE ImportersSound'
    <2>1. imports' = [imports EXCEPT ![i] = failed]
      BY <1>1, <1>8 DEF Fails
    <2> QED
      BY <1>3, <1>4, <1>8, <2>1, OneMoves
  <1>9. CASE AppendBatch(i) /\ ~Fails(i)
    <2> DEFINE n == Len(r.batches)  s == [r EXCEPT !.batches = Append(@, <<i, n + 1>>)]
    <2>1. /\ r.step = "append" /\ n < r.input
          /\ imports' = [imports EXCEPT ![i].batches = Append(@, <<i, n + 1>>)]
      BY <1>9 DEF AppendBatch, At, Appended
    <2>2. imports' = [imports EXCEPT ![i] = s]
      BY <1>1, <2>1
    <2>3. n \in Nat /\ n + 1 \in 1 .. MaxInput /\ n + 1 <= r.input
      BY <1>2, <2>1, ImportAssumption
    <2>4. /\ Append(r.batches, <<i, n + 1>>) \in Seq(Batch)
          /\ Len(Append(r.batches, <<i, n + 1>>)) = n + 1
          /\ Append(r.batches, <<i, n + 1>>) = Whole(i, n + 1)
      <3>1. r.batches \in Seq(Batch) /\ Len(r.batches) = n /\ r.batches = Whole(i, n)
        BY <1>1, <1>2 DEF Sound
      <3> HIDE DEF n, r
      <3> QED
        BY <2>3, <3>1, WholeGrows
    <2>5. Sound(i, s, table)
      <3> DEFINE many == Append(r.batches, <<i, n + 1>>)
      <3>1. s = [r EXCEPT !.batches = many]
        OBVIOUS
      <3> HIDE DEF many
      <3>2. /\ s.batches = many /\ s.step = r.step /\ s.input = r.input /\ s.fails = r.fails
            /\ s.published = r.published /\ s \in ImportRecord
        BY <1>2, <2>4, <3>1 DEF ImportRecord, many
      <3> HIDE DEF s
      <3> QED
        BY <1>1, <2>1, <2>3, <2>4, <3>2 DEF Sound, many
    <2> QED
      BY <1>3, <2>2, <2>5, OneMoves
  <1>10. CASE EndOfInput(i) /\ ~Fails(i)
    <2> DEFINE s == [r EXCEPT !.step = "commit"]
    <2>1. r.step = "append" /\ Len(r.batches) = r.input /\ ~r.fails /\ GoTo(i, "commit")
      BY <1>10 DEF EndOfInput, At, Appended
    <2>2. imports' = [imports EXCEPT ![i] = s]
      BY <1>1, <2>1 DEF GoTo
    <2>3. Sound(i, s, table)
      BY <1>1, <1>2, <2>1 DEF Sound, ImportRecord, ImportSteps
    <2> QED
      BY <1>3, <2>2, <2>3, OneMoves
  <1>11. AppendBatch(i) \/ EndOfInput(i) => r.step \notin {"ok", "error"}
    BY DEF AppendBatch, EndOfInput, At
  <1> QED
    BY <1>5, <1>6, <1>7, <1>8, <1>9, <1>10, <1>11

\* The name is removed, or taken by the foreign table.
LEMMA TableStep ==
    ASSUME ImportersSound, imports' = imports,
           table' \in {Registered(<<>>, NoTable), Registered(<<>>, Foreign)}
    PROVE  ImportersSound'
  <1>1. /\ table' \in [content : Seq(Batch), by : Importer \union {NoTable, Foreign}]
        /\ table'.by \notin Importer
    <2> DEFINE none == <<>>
    <2>1. none \in Seq(Batch) /\ table' \in {Registered(none, NoTable), Registered(none, Foreign)}
      BY EmptyWhole
    <2> HIDE DEF none
    <2> QED
      BY <2>1, ImportAssumption DEF Registered
  <1>2. \A i \in Importer : Sound(i, imports[i], table')
    BY <1>1 DEF ImportersSound, Sound
  <1> QED
    BY <1>1, <1>2 DEF ImportersSound, TablesTyped, Sound, ImportRecord, ImportSteps, Batch, Whole

\* Commit publishes all the input, or nothing.
LEMMA CommitStep ==
    ASSUME ImportersSound, NEW i \in Importer, Commit(i)
    PROVE  ImportersSound'
  <1> DEFINE r == imports[i]
             ok == [r EXCEPT !.step = "ok", !.batches = <<>>, !.published = @ + 1]
             failed == [r EXCEPT !.step = "error", !.batches = <<>>]
  <1>1. Sound(i, r, table) /\ imports \in [Importer -> ImportRecord]
    BY DEF ImportersSound
  <1>2. /\ r \in ImportRecord /\ r.step = "commit" /\ r.batches \in Seq(Batch)
        /\ r.input \in 0 .. MaxInput /\ r.published = 0
        /\ r.batches = Whole(i, r.input) /\ ~r.fails
    BY <1>1 DEF Commit, At, Sound, ImportRecord
  <1>3. CASE Fails(i) /\ table' = table
    <2>1. imports' = [imports EXCEPT ![i] = failed]
      BY <1>1, <1>3 DEF Fails
    <2>2. Sound(i, failed, table)
      BY <1>1, <1>2, FailedSound
    <2> QED
      BY <1>3, <2>1, <2>2, OneMoves
  <1>4. CASE table.by = NoTable /\ table' = Registered(r.batches, i)
             /\ imports' = [imports EXCEPT ![i].step = "ok", ![i].batches = <<>>,
                                           ![i].published = @ + 1]
    <2>1. imports' = [imports EXCEPT ![i] = ok]
      BY <1>1, <1>4
    <2>2. ok \in ImportRecord /\ ok.step = "ok" /\ ok.batches = <<>> /\ ok.published = 1
          /\ ok.input = r.input /\ ok.fails = r.fails
      <3> DEFINE none == <<>>
      <3>1. none \in Seq(Batch) /\ ok = [r EXCEPT !.step = "ok", !.batches = none, !.published = 1]
        <4>1. r.published + 1 = 1
          BY <1>2
        <4> QED
          BY <4>1, EmptyWhole
      <3> HIDE DEF none, ok, r
      <3>2. ok.published = 1 /\ ok.step = "ok" /\ ok.batches = none /\ ok.input = r.input
            /\ ok.fails = r.fails /\ ok \in ImportRecord
        <4>1. "ok" \in ImportSteps /\ 1 \in 0 .. 1
          BY SMT DEF ImportSteps
        <4>2. ok \in ImportRecord
          BY <1>2, <3>1, <4>1 DEF ImportRecord
        <4> QED
          BY <1>2, <3>1, <4>2 DEF ImportRecord
      <3> QED
        BY <3>2 DEF none
    <2> HIDE DEF ok
    <2>3. TablesTyped' /\ table'.by = i /\ table'.content = Whole(i, r.input)
      BY <1>2, <1>4 DEF TablesTyped, Registered, Batch
    <2>4. Sound(i, ok, table')
      BY <1>2, <2>2, <2>3, EmptyWhole DEF Sound
    <2>5. \A j \in Importer : j # i => Sound(j, imports[j], table')
      <3>1. \A j \in Importer : Sound(j, imports[j], table)
        BY DEF ImportersSound
      <3> QED
        BY <2>3, <3>1 DEF Sound
    <2>6. /\ imports' \in [Importer -> ImportRecord]
          /\ \A j \in Importer : imports'[j] = IF j = i THEN ok ELSE imports[j]
      BY <1>1, <2>1, <2>2
    <2>7. \A j \in Importer : Sound(j, imports'[j], table')
      BY <2>4, <2>5, <2>6
    <2> QED
      BY <2>3, <2>6, <2>7 DEF ImportersSound, Sound, ImportRecord, ImportSteps, Batch, Whole
  <1> QED
    BY <1>3, <1>4 DEF Commit

-----------------------------------------------------------------------------
\* The steps of RegisteredTable.Deregister.
LEMMA HandleStep ==
    ASSUME HandleSound, NEW c \in Caller,
           Enter(c) \/ RemoveName(c) \/ GiveUpRemoval(c) \/ Mark(c)
    PROVE  HandleSound'
  <1> USE DEF HandleSound, RemovesUnderLock, RemovedIsMarked, HandleRemovesOnce, Leave
  <1>0. NoTable \notin Caller
    BY ImportAssumption
  <1>1. CASE Enter(c)
    <2>1. calls' \in [Caller -> 0 .. MaxCalls]
      BY <1>1, ImportAssumption DEF Enter
    <2>2. CASE done
      BY <1>0, <1>1, <2>1, <2>2 DEF Enter
    <2>3. CASE ~done
      BY <1>0, <1>1, <2>1, <2>3 DEF Enter
    <2> QED
      BY <2>2, <2>3
  <1>2. CASE RemoveName(c)
    <2>1. CASE connOpen
      BY <1>0, <1>2, <2>1 DEF RemoveName
    <2>2. CASE ~connOpen
      BY <1>0, <1>2, <2>2 DEF RemoveName
    <2> QED
      BY <2>1, <2>2
  <1>3. CASE GiveUpRemoval(c)
    BY <1>0, <1>3 DEF GiveUpRemoval
  <1>4. CASE Mark(c)
    BY <1>0, <1>4 DEF Mark
  <1> QED
    BY <1>1, <1>2, <1>3, <1>4

\* Importers leave the handle alone.
LEMMA HandleKept ==
    ASSUME HandleSound, handleVars' = handleVars
    PROVE  HandleSound'
  BY DEF handleVars, HandleSound, RemovesUnderLock, RemovedIsMarked, HandleRemovesOnce

\* Some steps of the handle leave the importers and the table alone.
LEMMA ImportersKept ==
    ASSUME ImportersSound, UNCHANGED <<imports, table>>
    PROVE  ImportersSound'
  BY DEF ImportersSound, TablesTyped, Sound, ImportRecord, ImportSteps, Batch, Whole

\* Nothing is imported or registered.
LEMMA ImportInitially == ImportInit => ImportInv
  <1> SUFFICES ASSUME ImportInit PROVE ImportersSound /\ HandleSound
    BY ImportParts
  <1>1. NewImport \in ImportRecord
    BY EmptyWhole, ImportAssumption DEF NewImport, ImportRecord, ImportSteps
  <1>2. table = Registered(<<>>, NoTable) /\ imports = [i \in Importer |-> NewImport]
    BY DEF ImportInit
  <1>3. TablesTyped /\ table.by \notin Importer
    BY <1>2, EmptyWhole, ImportAssumption DEF TablesTyped, Registered
  <1>4. \A i \in Importer : Sound(i, NewImport, table)
    BY <1>1, <1>3, EmptyWhole DEF Sound, NewImport
  <1>5. ImportersSound
    BY <1>1, <1>2, <1>3, <1>4 DEF ImportersSound
  <1>6. HandleSound
    <2>1. 0 \in 0 .. MaxCalls /\ NoTable \notin Caller
      BY ImportAssumption
    <2> QED
      <3>1. RemovesUnderLock
        BY <2>1 DEF ImportInit, RemovesUnderLock
      <3>2. RemovedIsMarked /\ HandleRemovesOnce /\ removed \in Nat
        BY SMT DEF ImportInit, RemovedIsMarked, HandleRemovesOnce
      <3> QED
        BY <2>1, <3>1, <3>2 DEF ImportInit, HandleSound
  <1> QED
    BY <1>5, <1>6

\* ImportInv is inductive.
LEMMA ImportStep == ImportInv /\ [ImportNext]_importVars => ImportInv'
  <1> SUFFICES ASSUME ImportersSound, HandleSound, [ImportNext]_importVars
               PROVE  ImportersSound' /\ HandleSound'
    BY ImportParts, ImportPartsNext
  <1>1. ASSUME NEW i \in Importer,
               OpenImport(i) \/ CancelImport(i) \/ AppendSchema(i) \/ AppendBatch(i)
                 \/ EndOfInput(i) \/ Commit(i)
        PROVE  ImportersSound' /\ HandleSound'
    <2>1. handleVars' = handleVars
      BY <1>1 DEF OpenImport, CancelImport, AppendSchema, AppendBatch, EndOfInput, Commit
    <2> QED
      BY <1>1, <2>1, ImporterStep, CommitStep, HandleKept
  <1>2. ASSUME NEW c \in Caller, Enter(c) \/ RemoveName(c) \/ GiveUpRemoval(c) \/ Mark(c)
        PROVE  ImportersSound' /\ HandleSound'
    <2>1. imports' = imports /\ (table' = table \/ table' = Registered(<<>>, NoTable))
      BY <1>2 DEF Enter, RemoveName, GiveUpRemoval, Mark
    <2> QED
      BY <1>2, <2>1, HandleStep, TableStep, ImportersKept
  <1>3. CASE RegisterForeign \/ Deregister
    <2>1. /\ imports' = imports /\ handleVars' = handleVars
          /\ table' \in {Registered(<<>>, NoTable), Registered(<<>>, Foreign)}
      BY <1>3 DEF RegisterForeign, Deregister
    <2> QED
      BY <2>1, TableStep, HandleKept
  <1>4. CASE CloseConn
    <2>1. HandleSound'
      BY <1>4 DEF CloseConn, HandleSound, RemovesUnderLock, RemovedIsMarked, HandleRemovesOnce
    <2> QED
      BY <1>4, <2>1, ImportersKept DEF CloseConn
  <1>5. CASE UNCHANGED importVars
    BY <1>5, ImportersKept, HandleKept DEF importVars
  <1> QED
    BY <1>1, <1>2, <1>3, <1>4, <1>5 DEF ImportNext

\* ImportInv holds in every reachable state, for any importers and callers.
THEOREM ImportInvariant == ImportSpec => []ImportInv
  <1> QED
    BY ImportInitially, ImportStep, PTL DEF ImportSpec

\* The types of imports and of a handle.
THEOREM ImportTypeCorrect == ImportSpec => []ImportTypeOK
  <1>1. ImportInv => ImportTypeOK
    BY DEF ImportInv
  <1> QED
    BY <1>1, ImportInvariant, PTL

(* A table is published whole and once by an import that succeeds and by   *)
(* no other, and a handle removes its name at most once, however many      *)
(* imports and Deregister calls race (arrow.go: importArrowReader;         *)
(* ffi_table_provider.go: RegisteredTable.Deregister).                     *)
THEOREM RegistrationIsExact == ImportSpec => []RegistrationExact
  <1>1. ImportInv => RegistrationExact
    BY DEF ImportInv
  <1> QED
    BY <1>1, ImportInvariant, PTL

(***************************************************************************)
(* What a query sees of a catalog.                                         *)
(***************************************************************************)

\* What the statement and the tables of information_schema ask for.
LEMMA DiscoveryNeeded ==
    ASSUME NEW metadata \in SUBSET Metadata, NEW statement \in Statement
    PROVE  /\ DiscoveryFor(statement, metadata) \in {"none", "schemas", "tables"}
           /\ DiscoveryFor(statement, metadata) = "tables" =>
                 \/ statement = "show_tables"
                 \/ statement = "query" /\ "columns" \in metadata
           /\ DiscoveryFor(statement, metadata) = "schemas" =>
                 statement = "query" /\ "schemata" \in metadata
  <1> DEFINE needs == {NeededBy(m) : m \in metadata} \union {"none"}
             best == CHOOSE n \in needs : \A o \in needs : Ranks[n] >= Ranks[o]
  <1>1. /\ Ranks["none"] = 0 /\ Ranks["schemas"] = 1 /\ Ranks["tables"] = 2
    BY DEF Ranks
  <1>2. /\ NeededBy("schemata") = "schemas" /\ NeededBy("columns") = "tables"
        /\ NeededBy("df_settings") = "none"
    BY DEF NeededBy
  <1>3. /\ needs \subseteq {"none", "schemas", "tables"} /\ "none" \in needs
        /\ "tables" \in needs => "columns" \in metadata
        /\ "schemas" \in needs => "schemata" \in metadata
    BY <1>2 DEF Metadata
  <1>4. \E n \in needs : \A o \in needs : Ranks[n] >= Ranks[o]
    <2> HIDE DEF needs
    <2>1. CASE "tables" \in needs
      BY <1>1, <1>3, <2>1
    <2>2. CASE "tables" \notin needs /\ "schemas" \in needs
      BY <1>1, <1>3, <2>2
    <2>3. CASE "tables" \notin needs /\ "schemas" \notin needs
      BY <1>1, <1>3, <2>3
    <2> QED
      BY <2>1, <2>2, <2>3
  <1>5. best \in needs
    <2> HIDE DEF needs
    <2> QED
      BY <1>4
  <1>6. CASE statement = "show_tables"
    BY <1>6 DEF DiscoveryFor
  <1>7. CASE statement = "show_variables"
    BY <1>7 DEF DiscoveryFor
  <1>8. CASE statement = "query"
    <2>1. DiscoveryFor(statement, metadata) = best
      BY <1>8 DEF DiscoveryFor
    <2> HIDE DEF best, needs
    <2> QED
      BY <1>3, <1>5, <1>8, <2>1
  <1> QED
    BY <1>6, <1>7, <1>8 DEF Statement

\* What the query's mode says of it.
LEMMA ModeNeeded ==
    ASSUME query \in Queries
    PROVE  /\ Mode \in {"none", "schemas", "tables"}
           /\ Mode = "tables" => /\ query.discoverable
                                 /\ \/ query.statement = "show_tables"
                                    \/ query.statement = "query" /\ "columns" \in query.metadata
           /\ Mode = "schemas" => /\ query.discoverable /\ query.statement = "query"
                                  /\ "schemata" \in query.metadata
  <1>1. query.statement \in Statement /\ query.metadata \in SUBSET Metadata
        /\ query.discoverable \in BOOLEAN
    BY DEF Queries
  <1>2. CASE query.discoverable
    BY <1>1, <1>2, DiscoveryNeeded DEF Mode
  <1>3. CASE ~query.discoverable
    BY <1>3 DEF Mode
  <1> QED
    BY <1>2, <1>3

\* A query names tables.
LEMMA ReferencesAreTables ==
    ASSUME query \in Queries
    PROVE  /\ Referenced \subseteq Table
           /\ \A i \in DOMAIN query.references : query.references[i] \in Referenced
  <1>1. query.references \in UNION {[1 .. n -> Table] : n \in 0 .. MaxReferences}
    BY DEF Queries
  <1>2. PICK n \in 0 .. MaxReferences : query.references \in [1 .. n -> Table]
    BY <1>1
  <1> QED
    BY <1>2 DEF Referenced

\* Nothing is asked or answered.
LEMMA CatalogInitially == CatalogInit => CatalogInv
  <1> SUFFICES ASSUME CatalogInit PROVE CatalogInv
    OBVIOUS
  <1>1. CatalogTypeOK
    BY CatalogAssumption DEF CatalogInit, CatalogStart, CatalogTypeOK
  <1>2. LookupsFollowListing
    BY DEF CatalogInit, CatalogStart, LookupsFollowListing
  <1>3. OneAsks /\ AnswersKept /\ CallsForMode
    BY DEF CatalogInit, CatalogStart, OneAsks, AnswersKept, CallsForMode
  <1> QED
    BY <1>1, <1>2, <1>3 DEF CatalogInv

\* The query does not change while it is resolved.
LEMMA QueryFixed ==
    ASSUME query' = query
    PROVE  Mode' = Mode /\ Referenced' = Referenced
  BY DEF Mode, Referenced

\* CatalogInv is inductive: one step per action, one per conjunct below it.
LEMMA CatalogStep == CatalogInv /\ [CatalogNext]_catalogVars => CatalogInv'
  <1> USE DEF progress, lookups
  <1> SUFFICES ASSUME CatalogInv PROVE [CatalogNext]_catalogVars => CatalogInv'
    OBVIOUS
  <1>1. /\ CatalogTypeOK /\ LookupsFollowListing /\ OneAsks /\ AnswersKept /\ CallsForMode
        /\ query \in Queries /\ Referenced \subseteq Table
        /\ \A i \in DOMAIN query.references : query.references[i] \in Referenced
    BY ReferencesAreTables DEF CatalogInv, CatalogTypeOK
  <1>2. ASSUME Change PROVE CatalogInv'
    <2>1. CatalogTypeOK'
      BY <1>1, <1>2, CatalogAssumption DEF Change, CatalogTypeOK
    <2>2. LookupsFollowListing' /\ OneAsks' /\ AnswersKept' /\ CallsForMode'
      BY <1>1, <1>2, QueryFixed DEF Change, LookupsFollowListing, OneAsks, AnswersKept, CallsForMode
    <2> QED
      BY <2>1, <2>2 DEF CatalogInv
  <1>3. ASSUME ResolveNext PROVE CatalogInv'
    <2> DEFINE t == query.references[position]
    <2>1. t \in Referenced /\ t \in Table
      BY <1>1, <1>3 DEF ResolveNext
    <2>2. \/ called' = [called EXCEPT !.resolve = @ \union {t}] /\ snapshot' = [snapshot EXCEPT ![t] = remote[t]]
          \/ UNCHANGED <<called, snapshot>>
      BY <1>3 DEF ResolveNext, CallResolve
    <2>3. /\ phase = "list" /\ position' = position + 1
          /\ UNCHANGED <<query, remote, changes, phase, listing, tables, lookups>>
      BY <1>3 DEF ResolveNext
    <2> HIDE DEF t
    <2>4. CatalogTypeOK'
      BY <1>1, <1>3, <2>1, <2>2, <2>3 DEF CatalogTypeOK
    <2>5. LookupsFollowListing'
      BY <1>1, <1>3, <2>3, QueryFixed DEF LookupsFollowListing
    <2>6. OneAsks' /\ AnswersKept'
      BY <1>1, <1>3, <2>1, <2>2, <2>3 DEF OneAsks, AnswersKept, LookupsFollowListing, CatalogTypeOK
    <2>7. CallsForMode'
      BY <1>1, <1>3, <2>1, <2>2, <2>3, QueryFixed DEF CallsForMode, CatalogTypeOK
    <2> QED
      BY <2>4, <2>5, <2>6, <2>7 DEF CatalogInv
  <1>4. ASSUME Resolved PROVE CatalogInv'
    <2>1. CatalogTypeOK'
      BY <1>1, <1>4 DEF Resolved, CatalogTypeOK
    <2>2. LookupsFollowListing'
      BY <1>1, <1>4, QueryFixed DEF Resolved, LookupsFollowListing
    <2>3. OneAsks' /\ AnswersKept'
      BY <1>1, <1>4 DEF Resolved, OneAsks, AnswersKept, LookupsFollowListing
    <2>4. CallsForMode'
      BY <1>1, <1>4, QueryFixed DEF Resolved, CallsForMode, LookupsFollowListing
    <2> QED
      BY <2>1, <2>2, <2>3, <2>4 DEF CatalogInv
  <1>5. ASSUME ListSchemas PROVE CatalogInv'
    <2>1. CatalogTypeOK'
      BY <1>1, <1>5 DEF ListSchemas, CatalogTypeOK
    <2>2. LookupsFollowListing'
      BY <1>1, <1>5, QueryFixed DEF ListSchemas, LookupsFollowListing
    <2>3. OneAsks' /\ AnswersKept'
      BY <1>1, <1>5 DEF ListSchemas, OneAsks, AnswersKept, CatalogTypeOK
    <2>4. CallsForMode'
      BY <1>1, <1>5, QueryFixed DEF ListSchemas, CallsForMode, CatalogTypeOK
    <2> QED
      BY <2>1, <2>2, <2>3, <2>4 DEF CatalogInv
  <1>6. ASSUME NEW s \in Table, ListTables(s) PROVE CatalogInv'
    <2>1. PICK listed \in SUBSET (IF Mode = "tables" THEN {s} ELSE {}) :
             tables' = tables \union listed \union (Referenced \intersect {s})
      BY <1>6 DEF ListTables
    <2>2. /\ phase = "tables" /\ s \in listing /\ listing' = listing \ {s}
          /\ called' = IF Mode = "tables" THEN [called EXCEPT !.tables = @ \union {s}] ELSE called
          /\ UNCHANGED <<query, remote, changes, phase, position, snapshot, lookups>>
      BY <1>6 DEF ListTables
    <2>3. CatalogTypeOK'
      BY <1>1, <2>1, <2>2 DEF CatalogTypeOK
    <2>4. LookupsFollowListing'
      BY <1>1, <2>1, <2>2, QueryFixed DEF LookupsFollowListing
    <2>5. OneAsks' /\ AnswersKept'
      BY <1>1, <2>2 DEF OneAsks, AnswersKept, CatalogTypeOK, LookupsFollowListing
    <2>6. CallsForMode'
      BY <1>1, <2>1, <2>2, QueryFixed DEF CallsForMode, CatalogTypeOK, LookupsFollowListing
    <2> QED
      BY <2>3, <2>4, <2>5, <2>6 DEF CatalogInv
  <1>7. ASSUME Listed PROVE CatalogInv'
    <2>1. CatalogTypeOK'
      BY <1>1, <1>7 DEF Listed, CatalogTypeOK
    <2>2. LookupsFollowListing'
      BY <1>1, <1>7, QueryFixed DEF Listed, LookupsFollowListing
    <2>3. OneAsks' /\ AnswersKept' /\ CallsForMode'
      BY <1>1, <1>7, QueryFixed DEF Listed, OneAsks, AnswersKept, CallsForMode
    <2> QED
      BY <2>1, <2>2, <2>3 DEF CatalogInv
  <1>8. ASSUME NEW b \in Branch, NEW t \in Table, Lookup(b, t) PROVE CatalogInv'
    <2>1. /\ phase = "planned" /\ branch[b] = Unresolved
          /\ UNCHANGED <<query, remote, changes, progress, snapshot, resolving, called>>
      BY <1>8 DEF Lookup
    <2>2. \A s \in Table : resolving[s] # b
      BY <1>1, <2>1, CatalogAssumption DEF OneAsks, CatalogTypeOK
    <2>3. CASE branch' = [branch EXCEPT ![b] = t] /\ t \in tables /\ answers' = answers
      <3>1. CatalogTypeOK'
        BY <1>1, <2>1, <2>3 DEF CatalogTypeOK
      <3>2. LookupsFollowListing'
        BY <1>1, <2>1, <2>3, QueryFixed DEF LookupsFollowListing, CatalogTypeOK
      <3>3. OneAsks' /\ AnswersKept' /\ CallsForMode'
        BY <1>1, <2>1, <2>2, <2>3, QueryFixed DEF OneAsks, AnswersKept, CallsForMode, CatalogTypeOK
      <3> QED
        BY <3>1, <3>2, <3>3 DEF CatalogInv
    <2>4. CASE \E a \in Nat : Answer(b, t, a) /\ a = IF t \in tables THEN snapshot[t] ELSE 0
      <3>1. PICK a \in Nat : Answer(b, t, a) /\ a = IF t \in tables THEN snapshot[t] ELSE 0
        BY <2>4
      <3>2. CatalogTypeOK'
        BY <1>1, <2>1, <3>1 DEF CatalogTypeOK, Answer
      <3>3. LookupsFollowListing'
        BY <1>1, <2>1, <3>1, QueryFixed DEF LookupsFollowListing, CatalogTypeOK, Answer
      <3>4. OneAsks' /\ CallsForMode'
        BY <1>1, <2>1, <2>2, <3>1, QueryFixed DEF OneAsks, CallsForMode, CatalogTypeOK, Answer
      <3>5. AnswersKept'
        BY <1>1, <2>1, <3>1 DEF AnswersKept, CatalogTypeOK, Answer
      <3> QED
        BY <3>2, <3>3, <3>4, <3>5 DEF CatalogInv
    <2>5. snapshot[t] # Unresolved => snapshot[t] \in Nat
      BY <1>1 DEF CatalogTypeOK
    <2> QED
      BY <1>8, <2>3, <2>4, <2>5 DEF Lookup
  <1>9. ASSUME NEW b \in Branch, Ask(b) PROVE CatalogInv'
    <2> DEFINE t == branch[b]
    <2>1. /\ t \in Table /\ t \in tables /\ snapshot[t] = Unresolved /\ resolving[t] = Unresolved
          /\ phase = "planned" /\ resolving' = [resolving EXCEPT ![t] = b]
          /\ called' = [called EXCEPT !.resolve = @ \union {t}]
          /\ UNCHANGED <<query, remote, changes, progress, snapshot, branch, answers>>
      BY <1>1, <1>9 DEF Ask, CallResolve, LookupsFollowListing, CatalogTypeOK
    <2>2. CatalogTypeOK'
      BY <1>1, <2>1 DEF CatalogTypeOK
    <2>3. LookupsFollowListing'
      BY <1>1, <2>1, QueryFixed DEF LookupsFollowListing
    <2>4. OneAsks'
      BY <1>1, <2>1 DEF OneAsks, CatalogTypeOK
    <2>5. AnswersKept'
      BY <1>1, <2>1 DEF AnswersKept, CatalogTypeOK
    <2>6. CallsForMode'
      BY <1>1, <2>1, QueryFixed DEF CallsForMode, CatalogTypeOK
    <2> QED
      BY <2>2, <2>3, <2>4, <2>5, <2>6 DEF CatalogInv
  <1>10. ASSUME NEW b \in Branch, Answered(b) PROVE CatalogInv'
    <2> DEFINE t == branch[b]
    <2>1. /\ t \in Table /\ t \in tables /\ resolving[t] = b /\ snapshot[t] = Unresolved
          /\ phase = "planned" /\ remote[t] \in Nat
          /\ snapshot' = [snapshot EXCEPT ![t] = remote[t]]
          /\ resolving' = [resolving EXCEPT ![t] = Unresolved]
          /\ branch' = [branch EXCEPT ![b] = Unresolved]
          /\ answers' = [answers EXCEPT ![t] = @ \union {remote[t]}]
          /\ UNCHANGED <<query, remote, changes, progress, called>>
      BY <1>1, <1>10, CatalogAssumption
         DEF Answered, Answer, LookupsFollowListing, OneAsks, CatalogTypeOK
    <2>2. CatalogTypeOK'
      BY <1>1, <2>1 DEF CatalogTypeOK
    <2>3. LookupsFollowListing'
      BY <1>1, <2>1, QueryFixed DEF LookupsFollowListing, CatalogTypeOK
    <2>4. OneAsks'
      BY <1>1, <2>1, CatalogAssumption DEF OneAsks, CatalogTypeOK
    <2>5. AnswersKept'
      <3>1. answers[t] = {}
        BY <1>1, <2>1, CatalogAssumption DEF AnswersKept, CatalogTypeOK
      <3> QED
        BY <1>1, <2>1, <3>1, CatalogAssumption DEF AnswersKept, CatalogTypeOK
    <2>6. CallsForMode'
      BY <1>1, <2>1, QueryFixed DEF CallsForMode
    <2> QED
      BY <2>2, <2>3, <2>4, <2>5, <2>6 DEF CatalogInv
  <1>11. ASSUME NEW b \in Branch, Waited(b) PROVE CatalogInv'
    <2> DEFINE t == branch[b]
    <2>1. /\ t \in Table /\ t \in tables /\ snapshot[t] # Unresolved /\ snapshot[t] \in Nat
          /\ phase = "planned"
          /\ branch' = [branch EXCEPT ![b] = Unresolved]
          /\ answers' = [answers EXCEPT ![t] = @ \union {snapshot[t]}]
          /\ UNCHANGED <<query, remote, changes, progress, snapshot, resolving, called>>
      BY <1>1, <1>11 DEF Waited, Answer, LookupsFollowListing, CatalogTypeOK
    <2>2. CatalogTypeOK'
      BY <1>1, <2>1 DEF CatalogTypeOK
    <2>3. LookupsFollowListing'
      BY <1>1, <2>1, QueryFixed DEF LookupsFollowListing, CatalogTypeOK
    <2>4. OneAsks'
      BY <1>1, <2>1 DEF OneAsks, CatalogTypeOK
    <2>5. AnswersKept'
      BY <1>1, <2>1 DEF AnswersKept, CatalogTypeOK
    <2>6. CallsForMode'
      BY <1>1, <2>1, QueryFixed DEF CallsForMode
    <2> QED
      BY <2>2, <2>3, <2>4, <2>5, <2>6 DEF CatalogInv
  <1>12. ASSUME NEW b \in Branch, GiveUpLookup(b) PROVE CatalogInv'
    <2> DEFINE t == branch[b]
    <2>1. /\ t \in Table /\ t \in tables /\ phase = "planned"
          /\ branch' = [branch EXCEPT ![b] = Unresolved]
          /\ resolving' = [resolving EXCEPT ![t] = IF @ = b THEN Unresolved ELSE @]
          /\ UNCHANGED <<query, remote, changes, progress, snapshot, answers, called>>
      BY <1>1, <1>12 DEF GiveUpLookup, LookupsFollowListing, CatalogTypeOK
    <2>2. CatalogTypeOK'
      BY <1>1, <2>1 DEF CatalogTypeOK
    <2>3. LookupsFollowListing'
      BY <1>1, <2>1, QueryFixed DEF LookupsFollowListing, CatalogTypeOK
    <2>4. OneAsks'
      BY <1>1, <2>1 DEF OneAsks, CatalogTypeOK
    <2>5. AnswersKept'
      BY <1>1, <2>1 DEF AnswersKept, CatalogTypeOK
    <2>6. CallsForMode'
      BY <1>1, <2>1, QueryFixed DEF CallsForMode
    <2> QED
      BY <2>2, <2>3, <2>4, <2>5, <2>6 DEF CatalogInv
  <1>13. ASSUME UNCHANGED catalogVars PROVE CatalogInv'
    BY <1>1, <1>13, QueryFixed DEF catalogVars, CatalogInv, CatalogTypeOK, LookupsFollowListing,
       OneAsks, AnswersKept, CallsForMode, Queries, Statement, Metadata
  <1> QED
    BY <1>2, <1>3, <1>4, <1>5, <1>6, <1>7, <1>8, <1>9, <1>10, <1>11, <1>12, <1>13 DEF CatalogNext

\* CatalogInv holds in every reachable state, for any tables and branches.
THEOREM CatalogInvariant == CatalogSpec => []CatalogInv
  <1> QED
    BY CatalogInitially, CatalogStep, PTL DEF CatalogSpec

\* CatalogInv says enough.
LEMMA CatalogInvConsistent == CatalogInv => CatalogConsistent
  <1> SUFFICES ASSUME CatalogInv PROVE CatalogConsistent
    OBVIOUS
  <1>1. /\ CatalogTypeOK /\ LookupsFollowListing /\ AnswersKept /\ CallsForMode
        /\ query \in Queries /\ Referenced \subseteq Table
    BY ReferencesAreTables DEF CatalogInv, CatalogTypeOK
  <1>2. OneAnswerPerTable
    <2>1. \A t \in Table : \A a, b \in answers[t] : a = b
      BY <1>1 DEF AnswersKept
    <2>2. \A t \in Referenced : 0 \in answers[t] => t \in tables
      BY <1>1 DEF LookupsFollowListing, CatalogTypeOK
    <2>3. \A t \in Referenced : 0 \in answers[t] => t \in called.resolve
      BY <1>1, <2>2, CatalogAssumption DEF AnswersKept
    <2> QED
      BY <2>1, <2>3 DEF OneAnswerPerTable
  <1>3. OnlyNeededCalls
    BY <1>1, ModeNeeded DEF CallsForMode, OnlyNeededCalls
  <1> QED
    BY <1>2, <1>3 DEF CatalogConsistent

\* The types of a query's resolution.
THEOREM CatalogTypeCorrect == CatalogSpec => []CatalogTypeOK
  <1>1. CatalogInv => CatalogTypeOK
    BY DEF CatalogInv
  <1> QED
    BY <1>1, CatalogInvariant, PTL

(* However the remote catalog changes, all lookups of a table in one query *)
(* get one answer, and only calls its statement needs are made, for any    *)
(* number of tables and concurrent branches (go_catalog.rs: resolve,       *)
(* discover, DiscoveredSchema::table).                                     *)
THEOREM CatalogIsConsistent == CatalogSpec => []CatalogConsistent
  BY CatalogInvConsistent, CatalogInvariant, PTL

(***************************************************************************)
(* The cache of the native library.                                        *)
(***************************************************************************)

\* The types after a step that writes no temporary file but perhaps one.
LEMMA TempWritten ==
    ASSUME LibraryTypeOK, NEW f \in 1 .. Len(temps), NEW content \in TempContent,
           temps' = [temps EXCEPT ![f] = content]
    PROVE  /\ temps' \in Seq(TempContent) /\ Len(temps') = Len(temps)
           /\ temps'[f] = content
           /\ \A g \in 1 .. Len(temps) : g # f => temps'[g] = temps[g]
  <1>1. temps \in Seq(TempContent)
    BY DEF LibraryTypeOK
  <1> QED
    BY <1>1, ExceptSeq

\* A new temporary file is nobody's.
LEMMA TempCreated ==
    ASSUME LibraryTypeOK, temps' = Append(temps, "bad")
    PROVE  /\ temps' \in Seq(TempContent) /\ Len(temps') = Len(temps) + 1
           /\ Len(temps) \in Nat
           /\ \A g \in 1 .. Len(temps) : temps'[g] = temps[g]
  <1>1. temps \in Seq(TempContent) /\ "bad" \in TempContent
    BY DEF LibraryTypeOK, TempContent
  <1> QED
    BY <1>1, AppendProperties, LenProperties

\* No process has started.
LEMMA LibraryInitially == LibraryInit => LibraryInv
  <1> SUFFICES ASSUME LibraryInit PROVE LibraryInv
    OBVIOUS
  <1>1. temps \in Seq(TempContent) /\ Len(temps) <= MaxTemps
    BY EmptySeq, LibraryAssumption DEF LibraryInit
  <1>2. LibraryTypeOK
    BY <1>1 DEF LibraryInit, LibraryTypeOK, TempContent, LoadSteps
  <1> QED
    BY <1>2 DEF LibraryInit, LibraryInv, TempsOwned, DownloadKept, LibraryVerified

\* A process goes on, without touching a file.
LEMMA ProcessMoves ==
    ASSUME LibraryInv, NEW p \in Process, NEW step \in LoadSteps, ProceedTo(p, step),
           UNCHANGED <<temp, temps, cached, library>>,
           step \in {"download", "check", "install", "remove"} => temp[p] # NoFile,
           step = "install" => temps[temp[p]] = "good",
           step = "load cached" => cached = "good"
    PROVE  LibraryInv'
  <1>1. /\ loading' \in [Process -> LoadSteps]
        /\ \A q \in Process : loading'[q] = IF q = p THEN step ELSE loading[q]
    BY DEF LibraryInv, LibraryTypeOK, ProceedTo
  <1>2. LibraryTypeOK'
    BY <1>1 DEF LibraryInv, LibraryTypeOK
  <1>3. TempsOwned'
    BY <1>1 DEF LibraryInv, TempsOwned
  <1>4. DownloadKept'
    BY <1>1 DEF LibraryInv, DownloadKept
  <1>5. LibraryVerified'
    BY <1>1 DEF LibraryInv, LibraryVerified
  <1> QED
    BY <1>2, <1>3, <1>4, <1>5 DEF LibraryInv

\* A process writes or removes its own temporary file.
LEMMA ProcessWrites ==
    ASSUME LibraryInv, NEW p \in Process, NEW step \in LoadSteps, ProceedTo(p, step),
           loading[p] \in {"download", "check", "install", "remove"},
           NEW content \in TempContent, temps' = [temps EXCEPT ![temp[p]] = content],
           UNCHANGED <<temp, library>>, cached' \in {cached, "good"},
           step \in {"check", "remove", "load cached", "failed"},
           step = "load cached" => cached' = "good"
    PROVE  LibraryInv'
  <1>1. /\ loading' \in [Process -> LoadSteps]
        /\ \A q \in Process : loading'[q] = IF q = p THEN step ELSE loading[q]
    BY DEF LibraryInv, LibraryTypeOK, ProceedTo
  <1>2. temp[p] \in 1 .. Len(temps)
    BY DEF LibraryInv, LibraryTypeOK, TempsOwned
  <1>3. /\ temps' \in Seq(TempContent) /\ Len(temps') = Len(temps)
        /\ \A g \in 1 .. Len(temps) : g # temp[p] => temps'[g] = temps[g]
    BY <1>2, TempWritten DEF LibraryInv
  <1>4. LibraryTypeOK'
    BY <1>1, <1>3 DEF LibraryInv, LibraryTypeOK, TempContent
  <1>5. TempsOwned'
    BY <1>1 DEF LibraryInv, TempsOwned
  <1>6. DownloadKept'
    <2> SUFFICES ASSUME NEW q \in Process, loading'[q] = "install"
                 PROVE  temps'[temp[q]] = "good"
      BY DEF DownloadKept
    <2>1. q # p /\ loading[q] = "install"
      BY <1>1
    <2>2. temp[q] \in 1 .. Len(temps) /\ temp[q] # temp[p]
      BY <2>1 DEF LibraryInv, LibraryTypeOK, TempsOwned
    <2> QED
      BY <1>3, <2>1, <2>2 DEF LibraryInv, DownloadKept
  <1>7. LibraryVerified'
    BY <1>1 DEF LibraryInv, LibraryVerified
  <1> QED
    BY <1>4, <1>5, <1>6, <1>7 DEF LibraryInv

\* LibraryInv is inductive.
LEMMA LibraryStep == LibraryInv /\ [LibraryNext]_libraryVars => LibraryInv'
  <1> SUFFICES ASSUME LibraryInv PROVE [LibraryNext]_libraryVars => LibraryInv'
    OBVIOUS
  <1> USE DEF LoadSteps
  <1>1. ASSUME NEW p \in Process,
               Resolve(p) \/ Inspect(p) \/ VerifyCached(p) \/ CreateFails(p)
                 \/ VerifyDownload(p) \/ InstallFails(p)
        PROVE  LibraryInv'
    <2>1. PICK step \in {"failed", "load given", "inspect", "create", "verify", "load cached",
                         "install", "remove"} : ProceedTo(p, step) /\
             /\ step = "load cached" => cached = "good"
             /\ step = "install" => temps[temp[p]] = "good"
             /\ step \in {"install", "remove"} => loading[p] \in {"check", "install"}
      <3>1. CASE Resolve(p)
        BY <3>1 DEF Resolve
      <3>2. CASE Inspect(p)
        BY <3>2 DEF Inspect
      <3>3. CASE VerifyCached(p) \/ CreateFails(p)
        BY <3>3 DEF VerifyCached, CreateFails
      <3>4. CASE VerifyDownload(p) \/ InstallFails(p)
        BY <3>4 DEF VerifyDownload, InstallFails
      <3> QED
        BY <1>1, <3>1, <3>2, <3>3, <3>4
    <2>2. UNCHANGED <<temp, temps, cached, library>>
      BY <1>1 DEF Resolve, Inspect, VerifyCached, CreateFails, VerifyDownload, InstallFails
    <2>3. step \in {"install", "remove"} => temp[p] # NoFile
      BY <2>1 DEF LibraryInv, TempsOwned
    <2> QED
      BY <2>1, <2>2, <2>3, ProcessMoves
  <1>2. ASSUME NEW p \in Process, CreateTemp(p)
        PROVE  LibraryInv'
    <2> DEFINE n == Len(temps)
    <2>1. /\ temps' \in Seq(TempContent) /\ Len(temps') = n + 1 /\ n \in Nat /\ n < MaxTemps
          /\ \A g \in 1 .. n : temps'[g] = temps[g]
      BY <1>2, TempCreated DEF CreateTemp, LibraryInv
    <2>2. /\ loading' \in [Process -> LoadSteps]
          /\ \A q \in Process : loading'[q] = IF q = p THEN "download" ELSE loading[q]
      BY <1>2 DEF LibraryInv, LibraryTypeOK, CreateTemp, ProceedTo
    <2>3. /\ \A q \in Process : temp[q] \in 1 .. n \union {NoFile}
          /\ temp \in [Process -> 1 .. n \union {NoFile}]
          /\ cached' = cached /\ library' = library
          /\ temp' = [temp EXCEPT ![p] = n + 1]
      BY <1>2 DEF LibraryInv, LibraryTypeOK, CreateTemp
    <2>4. n + 1 # NoFile /\ \A q \in Process : temp[q] # n + 1
      BY <2>1, <2>3, LibraryAssumption
    <2>5. /\ temp' \in [Process -> 1 .. n + 1 \union {NoFile}]
          /\ \A q \in Process : temp'[q] = IF q = p THEN n + 1 ELSE temp[q]
      <3>1. n + 1 \in 1 .. n + 1 /\ 1 .. n \subseteq 1 .. n + 1
        BY <2>1
      <3> QED
        BY <2>3, <3>1
    <2> HIDE DEF n
    <2>6. LibraryTypeOK'
      <3>1. Len(temps') <= MaxTemps
        BY <2>1, LibraryAssumption
      <3> QED
        BY <2>1, <2>2, <2>3, <2>5, <3>1 DEF LibraryInv, LibraryTypeOK
    <2>7. TempsOwned'
      <3>1. TempsOwned
        BY DEF LibraryInv
      <3>2. \A q \in Process : loading'[q] \in {"download", "check", "install", "remove"} =>
               temp'[q] # NoFile
        BY <2>2, <2>4, <2>5, <3>1 DEF TempsOwned
      <3>3. \A q, r \in Process : temp'[q] # NoFile /\ temp'[q] = temp'[r] => q = r
        BY <2>4, <2>5, <3>1 DEF TempsOwned
      <3> QED
        BY <3>2, <3>3 DEF TempsOwned
    <2>8. DownloadKept'
      <3> SUFFICES ASSUME NEW q \in Process, loading'[q] = "install"
                   PROVE  temps'[temp'[q]] = "good"
        BY DEF DownloadKept
      <3>1. q # p /\ loading[q] = "install" /\ temp'[q] = temp[q]
        BY <2>2, <2>5
      <3>2. temp[q] \in 1 .. n /\ temps[temp[q]] = "good"
        BY <2>3, <3>1 DEF LibraryInv, TempsOwned, DownloadKept
      <3> QED
        BY <2>1, <3>1, <3>2
    <2>9. LibraryVerified'
      BY <2>2, <2>3 DEF LibraryInv, LibraryVerified
    <2> QED
      BY <2>6, <2>7, <2>8, <2>9 DEF LibraryInv
  <1>3. ASSUME NEW p \in Process, Download(p)
        PROVE  LibraryInv'
    <2>1. PICK content \in {"bad", "good"} : temps' = [temps EXCEPT ![temp[p]] = content]
      BY <1>3 DEF Download
    <2>2. PICK step \in {"check", "remove"} : ProceedTo(p, step)
      BY <1>3 DEF Download
    <2> QED
      BY <1>3, <2>1, <2>2, ProcessWrites DEF Download, TempContent
  <1>4. ASSUME NEW p \in Process, Install(p)
        PROVE  LibraryInv'
    <2>1. cached' = "good"
      BY <1>4 DEF Install, LibraryInv, DownloadKept
    <2> QED
      BY <1>4, <2>1, ProcessWrites DEF Install, TempContent
  <1>5. ASSUME NEW p \in Process, Remove(p)
        PROVE  LibraryInv'
    <2>1. CASE UNCHANGED temps
      BY <1>5, <2>1, ProcessMoves DEF Remove
    <2>2. CASE temps' = [temps EXCEPT ![temp[p]] = "missing"]
      BY <1>5, <2>2, ProcessWrites DEF Remove, TempContent
    <2> QED
      BY <1>5, <2>1, <2>2 DEF Remove
  <1>6. ASSUME NEW p \in Process, Load(p)
        PROVE  LibraryInv'
    <2>1. PICK file \in {"given", "good"}, step \in {"loaded", "failed"} :
             ProceedTo(p, step) /\ library' \in {library, [library EXCEPT ![p] = file]}
      BY <1>6 DEF Load, LibraryInv, LibraryVerified
    <2>2. /\ loading' \in [Process -> LoadSteps]
          /\ \A q \in Process : loading'[q] = IF q = p THEN step ELSE loading[q]
      BY <2>1 DEF LibraryInv, LibraryTypeOK, ProceedTo
    <2>3. UNCHANGED <<temp, temps, cached>>
      BY <1>6 DEF Load
    <2>4. /\ library' \in [Process -> {NoFile, "given"} \union TempContent \union {"refused"}]
          /\ \A q \in Process : library'[q] \in {library[q], file}
      BY <2>1 DEF LibraryInv, LibraryTypeOK, TempContent
    <2>5. LibraryTypeOK'
      BY <2>2, <2>3, <2>4 DEF LibraryInv, LibraryTypeOK
    <2>6. TempsOwned' /\ DownloadKept'
      BY <2>2, <2>3 DEF LibraryInv, TempsOwned, DownloadKept
    <2>7. LibraryVerified'
      BY <2>2, <2>3, <2>4 DEF LibraryInv, LibraryVerified
    <2> QED
      BY <2>5, <2>6, <2>7 DEF LibraryInv
  <1>7. ASSUME NEW p \in Process, Exit(p)
        PROVE  LibraryInv'
    <2>1. /\ loading' \in [Process -> LoadSteps]
          /\ \A q \in Process : loading'[q] = IF q = p THEN "start" ELSE loading[q]
      BY <1>7 DEF LibraryInv, LibraryTypeOK, Exit, ProceedTo
    <2>2. /\ \A q \in Process : temp'[q] = IF q = p THEN NoFile ELSE temp[q]
          /\ \A q \in Process : library'[q] = IF q = p THEN NoFile ELSE library[q]
          /\ UNCHANGED <<temps, cached>>
      BY <1>7 DEF LibraryInv, LibraryTypeOK, Exit
    <2>3. LibraryTypeOK'
      BY <1>7, <2>1 DEF LibraryInv, LibraryTypeOK, Exit
    <2>4. TempsOwned' /\ DownloadKept'
      BY <2>1, <2>2 DEF LibraryInv, TempsOwned, DownloadKept
    <2>5. LibraryVerified'
      BY <2>1, <2>2 DEF LibraryInv, LibraryVerified
    <2> QED
      BY <2>3, <2>4, <2>5 DEF LibraryInv
  <1>8. ASSUME PowerLoss
        PROVE  LibraryInv'
    <2>1. temps' \in Seq(TempContent) /\ Len(temps') = Len(temps)
      <3>1. temps \in Seq(TempContent) /\ Len(temps) \in Nat
        BY LenProperties DEF LibraryInv, LibraryTypeOK
      <3>2. DOMAIN temps = 1 .. Len(temps)
        BY <3>1, LenProperties
      <3>3. temps' \in [1 .. Len(temps) -> TempContent]
        BY <1>8, <3>2 DEF PowerLoss
      <3> QED
        BY <3>1, <3>3, SeqDef, LenProperties
    <2>2. LibraryTypeOK'
      BY <1>8, <2>1 DEF PowerLoss, LibraryInv, LibraryTypeOK
    <2>3. TempsOwned' /\ DownloadKept' /\ LibraryVerified'
      BY <1>8 DEF PowerLoss, TempsOwned, DownloadKept, LibraryVerified
    <2> QED
      BY <2>2, <2>3 DEF LibraryInv
  <1>9. ASSUME UNCHANGED libraryVars
        PROVE  LibraryInv'
    BY <1>9 DEF libraryVars, LibraryInv, LibraryTypeOK, TempsOwned, DownloadKept, LibraryVerified
  <1> QED
    BY <1>1, <1>2, <1>3, <1>4, <1>5, <1>6, <1>7, <1>8, <1>9 DEF LibraryNext

\* LibraryInv holds in every reachable state, for any processes.
THEOREM LibraryInvariant == LibrarySpec => []LibraryInv
  <1> QED
    BY LibraryInitially, LibraryStep, PTL DEF LibrarySpec

\* The types of the cache and of the processes that share it.
THEOREM LibraryTypeCorrect == LibrarySpec => []LibraryTypeOK
  <1>1. LibraryInv => LibraryTypeOK
    BY DEF LibraryInv
  <1> QED
    BY <1>1, LibraryInvariant, PTL

(* However many processes look for the library, download it, fail, end or  *)
(* lose power at once, dlopen opens no file of the cache but one with the  *)
(* pinned checksum (library.go: downloadNativeLibrary).                    *)
THEOREM LibraryIsVerified == LibrarySpec => []LibraryVerified
  <1>1. LibraryInv => LibraryVerified
    BY DEF LibraryInv
  <1> QED
    BY <1>1, LibraryInvariant, PTL

(***************************************************************************)
(* Rows of a result.                                                       *)
(***************************************************************************)

LEMMA SizesTyped ==
  ASSUME NEW r \in Results
  PROVE  /\ r.sizes \in Seq(0 .. MaxRows)
         /\ Len(r.sizes) \in Nat
         /\ DOMAIN r.sizes = 1 .. Len(r.sizes)
         /\ \A b \in 1 .. Len(r.sizes) : r.sizes[b] \in 0 .. MaxRows
         /\ r.fails \in BOOLEAN
         /\ r.bad \in Nat
  <1> USE RowsAssumption
  <1>1. PICK n \in 0 .. MaxResult : r.sizes \in [1 .. n -> 0 .. MaxRows]
    BY DEF Results
  <1>2. r.sizes \in Seq(0 .. MaxRows)
    BY <1>1, SeqDef
  <1>3. r.fails \in BOOLEAN /\ r.bad \in 0 .. MaxResult * MaxRows
    BY DEF Results
  <1>4. MaxResult * MaxRows \in Nat
    OBVIOUS
  <1>5. r.bad \in Nat
    BY <1>3, <1>4
  <1> QED
    BY <1>2, <1>3, <1>5, LenProperties

(* A row appended to those handed out leaves the earlier ones.             *)
LEMMA HandedOutGrows ==
  ASSUME handedOut \in Seq(Nat \X Nat), NEW new \in Nat \X Nat,
         handedOut' = Append(handedOut, new)
  PROVE  /\ handedOut' \in Seq(Nat \X Nat) /\ Len(handedOut) \in Nat
         /\ Len(handedOut') = Len(handedOut) + 1
         /\ DOMAIN handedOut' = 1 .. Len(handedOut) + 1
         /\ DOMAIN handedOut = 1 .. Len(handedOut)
         /\ \A i \in 1 .. Len(handedOut) :
               handedOut'[i] = handedOut[i] /\ HandedOut(i - 1)' = HandedOut(i - 1)
         /\ handedOut'[Len(handedOut) + 1] = new
         /\ HandedOut(Len(handedOut)) = {handedOut'[i] : i \in 1 .. Len(handedOut)}
         /\ {handedOut'[i] : i \in 1 .. Len(handedOut')} = HandedOut(Len(handedOut)) \union {new}
  <1> DEFINE last == Len(handedOut)
             pairs == Nat \X Nat
  <1> HIDE DEF pairs
  <1>1. /\ handedOut' \in Seq(pairs) /\ Len(handedOut') = last + 1
        /\ \A i \in 1 .. last : handedOut'[i] = handedOut[i]
        /\ handedOut'[last + 1] = new
    BY AppendProperties DEF pairs
  <1>2. /\ last \in Nat /\ DOMAIN handedOut' = 1 .. last + 1 /\ DOMAIN handedOut = 1 .. last
    BY <1>1, LenProperties DEF pairs
  <1> HIDE DEF last
  <1>3. \A n \in 0 .. last : {handedOut'[i] : i \in 1 .. n} = {handedOut[i] : i \in 1 .. n}
    <2> SUFFICES ASSUME NEW n \in 0 .. last
                 PROVE  {handedOut'[i] : i \in 1 .. n} = {handedOut[i] : i \in 1 .. n}
      OBVIOUS
    <2>1. \A i \in 1 .. n : i \in 1 .. last
      BY <1>2
    <2> DEFINE old == handedOut
               longer == handedOut'
    <2>2. \A i \in 1 .. n : longer[i] = old[i]
      BY <1>1, <2>1
    <2> HIDE DEF old, longer
    <2>3. {longer[i] : i \in 1 .. n} = {old[i] : i \in 1 .. n}
      BY <2>2
    <2> QED
      BY <2>3 DEF old, longer
  <1>4. \A i \in 1 .. last : HandedOut(i - 1)' = HandedOut(i - 1)
    <2>1. \A i \in 1 .. last : i - 1 \in 0 .. last
      BY <1>2
    <2> QED
      BY <1>3, <2>1 DEF HandedOut
  <1>5. HandedOut(last) = {handedOut'[i] : i \in 1 .. last}
    <2>1. last \in 0 .. last
      BY <1>2
    <2> QED
      BY <1>3, <2>1, Zenon DEF HandedOut
  <1>6. {handedOut'[i] : i \in 1 .. last + 1} = HandedOut(last) \union {new}
    <2>1. 1 .. last + 1 = (1 .. last) \union {last + 1}
      BY <1>2
    <2>2. {handedOut'[i] : i \in 1 .. last + 1}
             = {handedOut'[i] : i \in 1 .. last} \union {handedOut'[last + 1]}
      BY <2>1, Zenon
    <2> QED
      BY <1>1, <1>5, <2>2
  <1> QED
    BY <1>1, <1>2, <1>4, <1>5, <1>6 DEF last, pairs

\* Whether a row of the result has been handed out, from the position.
Passed(r) == \/ r[1] < current
             \/ r[1] = current /\ r[2] <= row
             \/ current = NoBatch /\ r[1] <= batchesRead

LEMMA AllRowsTyped ==
  ASSUME result \in Results
  PROVE  \A r \in AllRows : /\ r = <<r[1], r[2]>>
                            /\ r[1] \in 1 .. Len(result.sizes)
                            /\ r[2] \in Nat \ {0} /\ r[2] <= result.sizes[r[1]]
  <1> QED
    BY SizesTyped, RowsAssumption DEF AllRows

(* The row that Next hands out is the one after those handed out.          *)
LEMMA NextIsNext ==
  ASSUME RowsInv, ~rowsClosed, NEW chunk \in Ahead, \A other \in Ahead : chunk <= other,
         NEW start, start = IF HasRow THEN row ELSE 0
  PROVE  /\ chunk \in 1 .. Len(result.sizes) /\ chunk \in Nat \ {0}
         /\ start \in 0 .. MaxRows /\ start + 1 <= MaxRows
         /\ start < result.sizes[chunk]
         /\ HasRow => chunk = current /\ chunk = batchesRead
         /\ <<chunk, start + 1>> \in AllRows
         /\ <<chunk, start + 1>> \in Nat \X Nat
         /\ HandedOut(Len(handedOut)) = Before(<<chunk, start + 1>>)
  <1> DEFINE new == <<chunk, start + 1>>
             last == Len(result.sizes)
  <1>1. /\ result \in Results /\ batchesRead \in 0 .. last /\ row \in 0 .. MaxRows
        /\ current \in {0} \union 1 .. last
        /\ current # 0 => current = batchesRead /\ row <= result.sizes[current]
        /\ last \in Nat /\ \A b \in 1 .. last : result.sizes[b] \in 0 .. MaxRows
    BY SizesTyped DEF RowsInv, RowsTypeOK, OneBatchHeld, NoBatch
  <1>2. DOMAIN result.sizes = 1 .. last
    BY <1>1, SizesTyped
  <1> HIDE DEF last
  <1>3. /\ chunk \in 1 .. last /\ start \in Nat /\ start < result.sizes[chunk]
        /\ HasRow => chunk = current /\ start = row /\ chunk = batchesRead
        /\ ~HasRow => chunk > batchesRead /\ start = 0
    <2>1. CASE HasRow
      BY <1>1, <2>1 DEF Ahead, HasRow, NoBatch
    <2>2. CASE ~HasRow
      BY <1>1, <2>2 DEF Ahead, last
    <2> QED
      BY <2>1, <2>2
  <1>4. start + 1 \in 1 .. MaxRows
    BY <1>1, <1>3, RowsAssumption
  <1>5. new \in AllRows
    <2>1. new \in (DOMAIN result.sizes) \X (1 .. MaxRows)
      BY <1>2, <1>3, <1>4
    <2>2. new[2] <= result.sizes[new[1]]
      BY <1>1, <1>3
    <2> QED
      BY <2>1, <2>2 DEF AllRows
  <1>6. \A r \in AllRows : Passed(r) <=> r[1] < chunk \/ (r[1] = chunk /\ r[2] < start + 1)
    <2> SUFFICES ASSUME NEW r \in AllRows
                 PROVE  Passed(r) <=> r[1] < chunk \/ (r[1] = chunk /\ r[2] < start + 1)
      OBVIOUS
    <2>1. r[1] \in 1 .. last /\ r[2] \in Nat \ {0} /\ r[2] <= result.sizes[r[1]]
      BY <1>1, AllRowsTyped DEF last
    <2>2. CASE HasRow
      BY <1>1, <1>3, <2>1, <2>2 DEF Passed, HasRow, NoBatch
    <2>3. CASE ~HasRow
      <3>1. r[1] \in batchesRead + 1 .. last => chunk <= r[1]
        <4>1. ASSUME r[1] \in batchesRead + 1 .. last PROVE r[1] \in Ahead
          BY <1>1, <2>1, <2>3, <4>1 DEF Ahead, last
        <4> QED
          BY <4>1
      <3>2. current # 0 => row = result.sizes[current] \/ current \notin 1 .. last
        BY <1>1, <2>3 DEF HasRow, NoBatch
      <3>3. Passed(r) <=> r[1] <= batchesRead
        BY <1>1, <2>1, <3>2 DEF Passed, NoBatch
      <3> QED
        BY <1>1, <1>3, <2>1, <2>3, <3>1, <3>3
    <2> QED
      BY <2>2, <2>3
  <1>7. HandedOut(Len(handedOut)) = {r \in AllRows : Passed(r)}
    BY DEF RowsInv, UpToPosition, Passed
  <1>8. HandedOut(Len(handedOut)) = Before(new)
    BY <1>6, <1>7 DEF Before
  <1>9. chunk \in Nat \ {0} /\ start \in 0 .. MaxRows /\ start + 1 <= MaxRows /\ start + 1 \in Nat
    BY <1>1, <1>3, <1>4, RowsAssumption
  <1>10. new \in Nat \X Nat
    BY <1>9
  <1> QED
    BY <1>3, <1>5, <1>8, <1>9, <1>10 DEF last

LEMMA RowsInitially == RowsInit => RowsInv
  <1> SUFFICES ASSUME RowsInit PROVE RowsInv
    OBVIOUS
  <1> USE RowsAssumption DEF RowsInit, RowsStart, NoBatch
  <1>1. Len(result.sizes) \in Nat /\ result \in Results
    BY SizesTyped
  <1>2. handedOut \in Seq(Nat \X Nat) /\ Len(handedOut) = 0 /\ DOMAIN handedOut = {}
    BY EmptySeq
  <1>3. HandedOut(Len(handedOut)) = {}
    BY <1>2 DEF HandedOut
  <1>4. \A r \in AllRows : r[1] \in Nat \ {0}
    BY <1>1, AllRowsTyped
  <1>5. RowsTypeOK
    <2>1. /\ batchesRead \in 0 .. Len(result.sizes) /\ held \subseteq 1 .. Len(result.sizes)
          /\ current \in {NoBatch} \union 1 .. Len(result.sizes)
          /\ row \in 0 .. MaxRows
      BY <1>1
    <2>2. handedOut \in Seq(Nat \X Nat)
      BY <1>2
    <2> QED
      BY <1>1, <2>1, <2>2, Zenon DEF RowsTypeOK
  <1>6. InOrder
    BY <1>2 DEF InOrder
  <1>7. UpToPosition
    BY <1>3, <1>4 DEF UpToPosition
  <1>8. OneBatchHeld /\ EndIsTrue
    BY DEF OneBatchHeld, EndIsTrue
  <1> QED
    BY <1>5, <1>6, <1>7, <1>8 DEF RowsInv

(* What was handed out stays in order while nothing more is.               *)
LEMMA OrderKept ==
  ASSUME InOrder, handedOut' = handedOut, AllRows' = AllRows
  PROVE  InOrder'
  <1>1. \A n : HandedOut(n)' = HandedOut(n)
    BY DEF HandedOut
  <1>2. \A r : Before(r)' = Before(r)
    BY DEF Before
  <1>3. \A i \in DOMAIN handedOut' :
           handedOut'[i] \in AllRows' /\ HandedOut(i - 1)' = Before(handedOut[i])'
    BY <1>1, <1>2 DEF InOrder
  <1> QED
    BY <1>3 DEF InOrder, Before

(* The next row is handed out, or refused because of one of its values.    *)
LEMMA DeliverStep ==
  ASSUME RowsInv, ~rowsClosed, said = "row", UNCHANGED <<result, rowsClosed>>,
         NEW chunk \in Ahead, \A other \in Ahead : chunk <= other,
         Deliver(chunk, IF HasRow THEN row ELSE 0)
  PROVE  RowsInv'
  <1> DEFINE start == IF HasRow THEN row ELSE 0
             new == <<chunk, start + 1>>
             last == Len(result.sizes)
             count == Len(handedOut)
  <1>1. /\ chunk \in 1 .. last /\ chunk \in Nat \ {0}
        /\ start \in 0 .. MaxRows /\ start + 1 <= MaxRows /\ start < result.sizes[chunk]
        /\ HasRow => chunk = current /\ chunk = batchesRead
        /\ new \in AllRows /\ new \in Nat \X Nat
        /\ HandedOut(count) = Before(new)
    BY NextIsNext
  <1>2. /\ result \in Results /\ result' = result /\ AllRows' = AllRows
        /\ batchesRead \in 0 .. last /\ last \in Nat
        /\ result.sizes[chunk] \in 0 .. MaxRows
        /\ handedOut \in Seq(Nat \X Nat) /\ said' \in {"row", "error"}
        /\ rowsClosed' = FALSE /\ rowsClosed = FALSE /\ readerClosed' \in BOOLEAN
        /\ DOMAIN result.sizes = 1 .. last
    BY <1>1, SizesTyped DEF RowsInv, RowsTypeOK, Deliver, AllRows
  <1>3. /\ batchesRead' = chunk /\ held' = {chunk} /\ current' = chunk
    BY <1>1, <1>2 DEF Deliver, RowsInv, OneBatchHeld, HasRow, NoBatch
  <1>4. \/ row' = start /\ said' = "error" /\ handedOut' = handedOut
        \/ row' = start + 1 /\ said' = "row" /\ handedOut' = Append(handedOut, new)
    BY DEF Deliver
  <1>5. \A r \in AllRows : r[1] \in Nat \ {0} /\ r[2] \in Nat /\ r = <<r[1], r[2]>>
    BY <1>2, AllRowsTyped
  <1>6. InOrder
    BY DEF RowsInv
  <1> HIDE DEF start, last, count
  <1>7. row' \in 0 .. MaxRows /\ row' <= result.sizes[chunk]
    BY <1>1, <1>2, <1>4, RowsAssumption
  <1>8. OneBatchHeld'
    BY <1>1, <1>2, <1>3, <1>7 DEF OneBatchHeld, NoBatch
  <1>9. EndIsTrue'
    BY <1>2 DEF EndIsTrue
  <1>10. /\ result' \in Results
         /\ batchesRead' \in 0 .. Len(result'.sizes) /\ held' \subseteq 1 .. Len(result'.sizes)
         /\ current' \in {NoBatch} \union 1 .. Len(result'.sizes) /\ row' \in 0 .. MaxRows
         /\ said' \in {"row", "eof", "error", "closed"}
         /\ rowsClosed' \in BOOLEAN /\ readerClosed' \in BOOLEAN
    <2>1. Len(result'.sizes) = last
      BY <1>2 DEF last
    <2>2. result' \in Results /\ readerClosed' \in BOOLEAN /\ rowsClosed' \in BOOLEAN
      BY <1>2
    <2>3. /\ batchesRead' \in 0 .. Len(result'.sizes) /\ held' \subseteq 1 .. Len(result'.sizes)
          /\ current' \in {NoBatch} \union 1 .. Len(result'.sizes) /\ row' \in 0 .. MaxRows
      BY <1>1, <1>2, <1>3, <1>7, <2>1 DEF NoBatch
    <2>4. said' \in {"row", "eof", "error", "closed"}
      BY <1>2
    <2> QED
      BY <2>2, <2>3, <2>4
  <1>11. CASE row' = start /\ handedOut' = handedOut
    <2>1. RowsTypeOK'
      <3>1. handedOut' \in Seq(Nat \X Nat)
        BY <1>2, <1>11
      <3> QED
        BY <1>10, <3>1, Zenon DEF RowsTypeOK
    <2>2. InOrder'
      BY <1>2, <1>6, <1>11, OrderKept DEF RowsInv
    <2>3. UpToPosition'
      <3>1. {r \in AllRows : \/ r[1] < chunk \/ (r[1] = chunk /\ r[2] <= start)
                             \/ chunk = NoBatch /\ r[1] <= chunk} = Before(new)
        BY <1>1, <1>5 DEF Before, NoBatch
      <3>2. HandedOut(Len(handedOut))' = Before(new)
        BY <1>1, <1>11, <3>1 DEF HandedOut, count
      <3>3. AllRows' = AllRows /\ current' = chunk /\ batchesRead' = chunk /\ row' = start
        BY <1>2, <1>3, <1>11
      <3> QED
        BY <3>1, <3>2, <3>3 DEF UpToPosition
    <2> QED
      BY <1>8, <1>9, <2>1, <2>2, <2>3 DEF RowsInv
  <1>12. CASE row' = start + 1 /\ handedOut' = Append(handedOut, new)
    <2> HIDE DEF new
    <2>1. /\ handedOut' \in Seq(Nat \X Nat) /\ count \in Nat /\ Len(handedOut') = count + 1
          /\ DOMAIN handedOut' = 1 .. count + 1 /\ DOMAIN handedOut = 1 .. count
          /\ \A i \in 1 .. count :
                handedOut'[i] = handedOut[i] /\ HandedOut(i - 1)' = HandedOut(i - 1)
          /\ handedOut'[count + 1] = new
          /\ HandedOut(count) = {handedOut'[i] : i \in 1 .. count}
          /\ {handedOut'[i] : i \in 1 .. Len(handedOut')} = HandedOut(count) \union {new}
      BY <1>1, <1>2, <1>12, HandedOutGrows DEF count
    <2>2. RowsTypeOK'
      BY <1>10, <2>1, Zenon DEF RowsTypeOK
    <2>3. InOrder'
      <3> SUFFICES ASSUME NEW i \in 1 .. count + 1
                   PROVE  handedOut'[i] \in AllRows /\ HandedOut(i - 1)' = Before(handedOut'[i])
        BY <1>2, <2>1 DEF InOrder, Before, AllRows
      <3>1. CASE i \in 1 .. count
        BY <1>6, <2>1, <3>1 DEF InOrder
      <3>2. CASE i = count + 1
        <4>1. i - 1 = count
          BY <2>1, <3>2
        <4>2. HandedOut(i - 1)' = {handedOut'[j] : j \in 1 .. count}
          BY <4>1 DEF HandedOut
        <4> QED
          BY <1>1, <2>1, <3>2, <4>2
      <3> QED
        BY <2>1, <3>1, <3>2
    <2>4. UpToPosition'
      <3>1. \A r \in AllRows : r[1] = chunk /\ r[2] = start + 1 <=> r = new
        BY <1>1, <1>5 DEF new
      <3>2. {r \in AllRows : \/ r[1] < chunk \/ (r[1] = chunk /\ r[2] <= start + 1)
                             \/ chunk = NoBatch /\ r[1] <= chunk} = Before(new) \union {new}
        <4>1. \A r \in AllRows :
                 \/ r[1] < chunk \/ (r[1] = chunk /\ r[2] <= start + 1)
                 \/ chunk = NoBatch /\ r[1] <= chunk
                 <=> \/ r[1] < chunk \/ (r[1] = chunk /\ r[2] < start + 1)
                     \/ r[1] = chunk /\ r[2] = start + 1
          BY <1>1, <1>5 DEF NoBatch
        <4>2. Before(new) = {r \in AllRows : r[1] < chunk \/ (r[1] = chunk /\ r[2] < start + 1)}
          BY DEF Before, new
        <4> QED
          BY <1>1, <3>1, <4>1, <4>2
      <3> QED
        BY <1>1, <1>2, <1>3, <1>12, <2>1, <3>2 DEF UpToPosition, HandedOut
    <2> QED
      BY <1>8, <1>9, <2>2, <2>3, <2>4 DEF RowsInv
  <1> QED
    BY <1>4, <1>11, <1>12

(* Without a row ahead, all rows were handed out.                          *)
LEMMA ExhaustedStep ==
  ASSUME RowsInv, ~rowsClosed, said = "row", UNCHANGED <<result, rowsClosed>>,
         Ahead = {}, Exhausted
  PROVE  RowsInv'
  <1> DEFINE last == Len(result.sizes)
  <1>1. /\ result \in Results /\ result' = result /\ AllRows' = AllRows
        /\ batchesRead \in 0 .. last /\ row \in 0 .. MaxRows /\ last \in Nat
        /\ handedOut \in Seq(Nat \X Nat) /\ handedOut' = handedOut
        /\ current \in {0} \union 1 .. last
        /\ current # 0 => current = batchesRead /\ row <= result.sizes[current]
        /\ \A b \in 1 .. last : result.sizes[b] \in 0 .. MaxRows
        /\ batchesRead' = last /\ held' = {} /\ current' = 0 /\ row' = row
        /\ rowsClosed' = FALSE /\ rowsClosed = FALSE
    BY SizesTyped DEF RowsInv, RowsTypeOK, OneBatchHeld, Exhausted, AllRows, NoBatch
  <1>2. /\ said' = IF result.fails THEN "error" ELSE "eof"
        /\ readerClosed' = (readerClosed \/ ~result.fails) /\ readerClosed \in BOOLEAN
        /\ result.fails \in BOOLEAN
    BY SizesTyped DEF RowsInv, RowsTypeOK, Exhausted
  <1> HIDE DEF last
  <1>3. \A r \in AllRows : /\ r[1] \in 1 .. last /\ r[2] \in Nat \ {0}
                           /\ r[2] <= result.sizes[r[1]]
    BY <1>1, AllRowsTyped DEF last
  <1>4. ~HasRow /\ \A b \in batchesRead + 1 .. last : ~(result.sizes[b] > 0)
    BY DEF Ahead, last
  <1>5. \A r \in AllRows : Passed(r)
    <2> SUFFICES ASSUME NEW r \in AllRows PROVE Passed(r)
      OBVIOUS
    <2>1. r[1] \notin batchesRead + 1 .. last
      <3>1. r[2] \in Nat \ {0} /\ r[2] <= result.sizes[r[1]] /\ result.sizes[r[1]] \in 0 .. MaxRows
        BY <1>1, <1>3
      <3> QED
        BY <1>4, <3>1, RowsAssumption
    <2>2. r[1] <= batchesRead
      BY <1>1, <1>3, <2>1
    <2>3. current # 0 => row = result.sizes[current]
      BY <1>1, <1>4 DEF HasRow, NoBatch
    <2> QED
      BY <1>1, <1>3, <2>2, <2>3 DEF Passed, NoBatch
  <1>6. HandedOut(Len(handedOut)) = AllRows
    BY <1>1, <1>5 DEF RowsInv, UpToPosition, Passed
  <1>7. RowsTypeOK'
    <2>1. /\ result' \in Results
          /\ batchesRead' \in 0 .. Len(result'.sizes) /\ held' \subseteq 1 .. Len(result'.sizes)
          /\ current' \in {NoBatch} \union 1 .. Len(result'.sizes) /\ row' \in 0 .. MaxRows
          /\ said' \in {"row", "eof", "error", "closed"}
          /\ rowsClosed' \in BOOLEAN /\ readerClosed' \in BOOLEAN
      <3>1. Len(result'.sizes) = last
        BY <1>1 DEF last
      <3>2. result' \in Results
        BY <1>1
      <3>3. /\ batchesRead' \in 0 .. Len(result'.sizes) /\ held' \subseteq 1 .. Len(result'.sizes)
            /\ current' \in {NoBatch} \union 1 .. Len(result'.sizes) /\ row' \in 0 .. MaxRows
        BY <1>1, <3>1 DEF NoBatch
      <3>4. said' \in {"row", "eof", "error", "closed"}
        BY <1>2
      <3>5. rowsClosed' \in BOOLEAN /\ readerClosed' \in BOOLEAN
        BY <1>1, <1>2, Zenon
      <3> QED
        BY <3>2, <3>3, <3>4, <3>5
    <2>2. handedOut' \in Seq(Nat \X Nat)
      BY <1>1
    <2> QED
      BY <2>1, <2>2, Zenon DEF RowsTypeOK
  <1>8. InOrder'
    BY <1>1, OrderKept DEF RowsInv
  <1>9. UpToPosition'
    <2>1. {r \in AllRows : \/ r[1] < 0 \/ (r[1] = 0 /\ r[2] <= row)
                           \/ 0 = NoBatch /\ r[1] <= last} = AllRows
      BY <1>1, <1>3 DEF NoBatch
    <2> QED
      BY <1>1, <1>6, <2>1 DEF UpToPosition, HandedOut
  <1>10. OneBatchHeld'
    BY <1>1 DEF OneBatchHeld, NoBatch
  <1>11. EndIsTrue'
    BY <1>1, <1>2, <1>6 DEF EndIsTrue, HandedOut
  <1> QED
    BY <1>7, <1>8, <1>9, <1>10, <1>11 DEF RowsInv

LEMMA RowsStep == RowsInv /\ [RowsNext]_rowsVars => RowsInv'
  <1> SUFFICES ASSUME RowsInv, [RowsNext]_rowsVars PROVE RowsInv'
    OBVIOUS
  <1>1. CASE NextRow
    BY <1>1, DeliverStep, ExhaustedStep DEF NextRow
  <1>2. CASE NextClosed \/ CloseRows \/ UNCHANGED rowsVars
    <2>1. /\ result' = result /\ handedOut' = handedOut /\ row' = row
          /\ batchesRead' = batchesRead /\ AllRows' = AllRows
      BY <1>2 DEF NextClosed, CloseRows, rowsVars, AllRows
    <2>2. RowsTypeOK'
      <3>1. current' \in {current, NoBatch} /\ held' \subseteq held /\ said' \in {said, "closed"}
            /\ rowsClosed' \in {rowsClosed, TRUE} /\ readerClosed' \in {readerClosed, TRUE}
        BY <1>2 DEF NextClosed, CloseRows, rowsVars
      <3> QED
        BY <2>1, <3>1, Zenon DEF RowsInv, RowsTypeOK
    <2>3. InOrder'
      BY <2>1, OrderKept DEF RowsInv
    <2>4. UpToPosition'
      BY <1>2, <2>1 DEF RowsInv, UpToPosition, HandedOut, NextClosed, CloseRows, rowsVars
    <2>5. OneBatchHeld'
      BY <1>2, <2>1 DEF RowsInv, RowsTypeOK, OneBatchHeld, NextClosed, CloseRows, rowsVars, NoBatch
    <2>6. EndIsTrue'
      BY <1>2, <2>1 DEF RowsInv, RowsTypeOK, EndIsTrue, HandedOut, NextClosed, CloseRows, rowsVars
    <2> QED
      BY <2>2, <2>3, <2>4, <2>5, <2>6 DEF RowsInv
  <1> QED
    BY <1>1, <1>2 DEF RowsNext

(* The inductive invariant of Rows.                                        *)
THEOREM RowsInvariant == RowsSpec => []RowsInv
  <1> QED
    BY RowsInitially, RowsStep, PTL DEF RowsSpec

(* The types: the position stays inside the batch that is current.         *)
THEOREM RowsTypeCorrect == RowsSpec => []RowsTypeOK
  <1>1. RowsInv => RowsTypeOK
    BY DEF RowsInv
  <1> QED
    BY <1>1, RowsInvariant, PTL

(* Rows.Next hands out every row of the result once and in order, whatever *)
(* batches are empty, and says EOF after the last one (rows.go).           *)
THEOREM RowsAreInOrder == RowsSpec => []RowsInOrder
  <1>1. RowsInv => RowsInOrder
    BY DEF RowsInv, RowsInOrder, OneBatchHeld
  <1> QED
    BY <1>1, RowsInvariant, PTL

(***************************************************************************)
(* Induction and recursion, and the sums of sequences.                     *)
(***************************************************************************)

(* The least number of a set of naturals: the strict subset ordering of    *)
(* finite sets is well founded, and 1 .. n grows with n.                   *)
LEMMA LeastNumber ==
  ASSUME NEW T \in SUBSET Nat, T # {}
  PROVE  \E n \in T : \A m \in T : n <= m
  <1> DEFINE R == StrictSubsetOrdering(Nat)
             Below(n) == 1 .. n
             F == {Below(n) : n \in T}
  <1>1. IsWellFoundedOn(R, FiniteSubsetsOf(Nat))
    BY FS_StrictSubsetOrderingWellFounded
  <1>2. F \subseteq FiniteSubsetsOf(Nat)
    <2> SUFFICES ASSUME NEW n \in T PROVE Below(n) \in FiniteSubsetsOf(Nat)
      OBVIOUS
    <2>1. IsFiniteSet(1 .. n)
      BY FS_Interval
    <2> QED
      BY <2>1 DEF FiniteSubsetsOf
  <1>3. PICK X \in F : \A Y \in F : ~(<<Y, X>> \in R)
    <2>1. F # {}
      OBVIOUS
    <2> HIDE DEF F, R
    <2> QED
      BY <1>1, <1>2, <2>1, WFMin
  <1>4. PICK n \in T : X = Below(n)
    OBVIOUS
  <1>5. ASSUME NEW m \in T, m < n PROVE FALSE
    <2>1. n \in 1 .. n /\ n \notin 1 .. m
      BY <1>5
    <2>2. \A k \in 1 .. m : k \in 1 .. n
      BY <1>5
    <2>3. <<1 .. m, 1 .. n>> \in StrictSubsetOrdering(Nat)
      BY <2>1, <2>2 DEF StrictSubsetOrdering
    <2> QED
      BY <1>3, <1>4, <2>3
  <1> QED
    BY <1>5

(* Induction over the naturals, for a set instead of a predicate.          *)
LEMMA Induction ==
  ASSUME NEW S, 0 \in S, \A n \in Nat : n \in S => n + 1 \in S
  PROVE  Nat \subseteq S
  <1> DEFINE T == Nat \ S
  <1> SUFFICES ASSUME T # {} PROVE FALSE
    OBVIOUS
  <1>1. PICK n \in T : \A m \in T : n <= m
    <2>1. T \in SUBSET Nat
      OBVIOUS
    <2> HIDE DEF T
    <2> QED
      BY <2>1, LeastNumber
  <1>2. n - 1 \in Nat /\ ~(n <= n - 1)
    OBVIOUS
  <1>3. n - 1 \in S
    BY <1>1, <1>2
  <1> QED
    BY <1>2, <1>3

\* f is defined by recursion over 0 .. last, from zero and by step.
Recursive(f, V, zero, last, step) ==
    /\ f \in [0 .. last -> V]
    /\ f[0] = zero /\ \A n \in 1 .. last : f[n] = step[<<n, f[n - 1]>>]

(* A function can be defined by recursion over 0 .. last.                  *)
LEMMA Recursion ==
  ASSUME NEW V, NEW zero \in V, NEW last \in Nat, NEW step \in [(1 .. last) \X V -> V]
  PROVE  \E f : Recursive(f, V, zero, last, step)
  <1> DEFINE Solves(f, k) == f[0] = zero /\ \A n \in 1 .. k : f[n] = step[<<n, f[n - 1]>>]
             Solvable(k) == \E f \in [0 .. k -> V] : Solves(f, k)
             S == {k \in Nat : k <= last => Solvable(k)}
  <1>1. 0 \in S
    <2> DEFINE f == [n \in 0 .. 0 |-> zero]
    <2>1. f \in [0 .. 0 -> V] /\ f[0] = zero
      OBVIOUS
    <2> HIDE DEF f
    <2> QED
      BY <2>1
  <1>2. ASSUME NEW k \in Nat, k \in S PROVE k + 1 \in S
    <2> SUFFICES ASSUME k + 1 <= last PROVE Solvable(k + 1)
      <3> HIDE DEF Solvable
      <3> QED
        OBVIOUS
    <2>1. PICK f \in [0 .. k -> V] : Solves(f, k)
      <3>1. Solvable(k)
        <4> HIDE DEF Solvable
        <4> QED
          BY <1>2
      <3> QED
        BY <3>1
    <2>2. f[k] \in V /\ k + 1 \in 1 .. last /\ step[<<k + 1, f[k]>>] \in V
      BY <2>1
    <2> DEFINE next == step[<<k + 1, f[k]>>]
               g == [n \in 0 .. k + 1 |-> IF n = k + 1 THEN next ELSE f[n]]
    <2>3. next \in V
      BY <2>2
    <2>4. g[0] = f[0] /\ g[k + 1] = next /\ (\A n \in 0 .. k : g[n] = f[n])
      OBVIOUS
    <2>5. g \in [0 .. k + 1 -> V]
      <3> HIDE DEF next
      <3> QED
        BY <2>1, <2>3
    <2> HIDE DEF g
    <2>6. ASSUME NEW n \in 1 .. k + 1 PROVE g[n] = step[<<n, g[n - 1]>>]
      <3>1. n - 1 \in 0 .. k /\ (n = k + 1 => n - 1 = k) /\ (n # k + 1 => n \in 1 .. k)
        OBVIOUS
      <3> QED
        BY <2>1, <2>4, <3>1
    <2> QED
      BY <2>1, <2>4, <2>5, <2>6
  <1> HIDE DEF S
  <1>3. Nat \subseteq S
    BY <1>1, <1>2, Induction
  <1>4. Solvable(last)
    <2> HIDE DEF Solvable
    <2> QED
      BY <1>3 DEF S
  <1>5. PICK f \in [0 .. last -> V] : Solves(f, last)
    BY <1>4
  <1> QED
    BY <1>5 DEF Recursive

(* The sums are such a function.                                           *)
LEMMA SumsExist ==
  ASSUME NEW s \in Seq(Int)
  PROVE  /\ SumsOf(s) \in [0 .. Len(s) -> Int]
         /\ SumsOf(s)[0] = 0
         /\ \A n \in 1 .. Len(s) : SumsOf(s)[n] = SumsOf(s)[n - 1] + s[n]
  <1> DEFINE last == Len(s)
             step == [p \in (1 .. last) \X Int |-> p[2] + s[p[1]]]
             Next_(f, n) == IF n = 0 THEN 0 ELSE f[n - 1] + s[n]
  <1>1. last \in Nat /\ \A n \in 1 .. last : s[n] \in Int
    BY ElementOfSeq, LenProperties
  <1> HIDE DEF last
  <1>2. step \in [(1 .. last) \X Int -> Int] /\ 0 \in Int
    BY <1>1
  <1>3. \A n \in 1 .. last, v \in Int : step[<<n, v>>] = v + s[n]
    OBVIOUS
  <1> HIDE DEF step
  <1>4. PICK f : Recursive(f, Int, 0, last, step)
    <2> DEFINE V == Int
               zero == 0
    <2>1. zero \in V /\ last \in Nat /\ step \in [(1 .. last) \X V -> V]
      BY <1>1, <1>2
    <2> HIDE DEF V, zero
    <2>2. \E f : Recursive(f, V, zero, last, step)
      BY <2>1, Recursion
    <2> QED
      BY <2>2 DEF V, zero
  <1>5. ASSUME NEW n \in 1 .. last
        PROVE  n - 1 \in 0 .. last /\ f[n] = f[n - 1] + s[n]
    <2>1. n - 1 \in 0 .. last
      BY <1>1
    <2>2. f \in [0 .. last -> Int] /\ f[n] = step[<<n, f[n - 1]>>]
      BY <1>4 DEF Recursive
    <2>3. f[n - 1] \in Int
      BY <2>1, <2>2
    <2> QED
      BY <1>3, <2>1, <2>2, <2>3
  <1>6. f = [n \in 0 .. last |-> Next_(f, n)]
    <2>1. \A n \in 0 .. last : f[n] = Next_(f, n)
      BY <1>1, <1>4, <1>5 DEF Recursive
    <2> HIDE DEF Next_
    <2> QED
      BY <1>4, <2>1 DEF Recursive
  <1>7. SumsOf(s) = [n \in 0 .. last |-> Next_(SumsOf(s), n)]
    BY <1>6 DEF SumsOf, last
  <1> DEFINE g == SumsOf(s)
  <1>8. g[0] = 0 /\ \A n \in 1 .. last : g[n] = g[n - 1] + s[n]
    BY <1>1, <1>7
  <1>9. DOMAIN g = 0 .. last /\ g = [n \in 0 .. last |-> g[n]]
    BY <1>7
  <1> HIDE DEF g
  <1> DEFINE I == {n \in Nat : n <= last => g[n] \in Int}
  <1>10. 0 \in I
    BY <1>1, <1>8
  <1>11. ASSUME NEW n \in Nat, n \in I PROVE n + 1 \in I
    <2> SUFFICES ASSUME n + 1 <= last PROVE g[n + 1] \in Int
      OBVIOUS
    <2>1. g[n] \in Int /\ n + 1 \in 1 .. last /\ n + 1 - 1 = n
      BY <1>1, <1>11
    <2> QED
      <3>1. g[n + 1] = g[n] + s[n + 1]
        BY <1>8, <2>1
      <3> QED
        BY <1>1, <2>1, <3>1
  <1>12. \A n \in 0 .. last : g[n] \in Int
    <2> HIDE DEF I
    <2>1. Nat \subseteq I
      BY <1>10, <1>11, Induction
    <2> QED
      BY <1>1, <2>1 DEF I
  <1>13. g \in [0 .. last -> Int]
    BY <1>9, <1>12
  <1> QED
    BY <1>8, <1>13 DEF g, last

(* Sums depend on the summed elements alone.                               *)
LEMMA SumsAgree ==
  ASSUME NEW s \in Seq(Int), NEW t \in Seq(Int), NEW k \in Nat, k <= Len(s), k <= Len(t),
         \A n \in 1 .. k : s[n] = t[n]
  PROVE  SumsOf(s)[k] = SumsOf(t)[k]
  <1> DEFINE S == {n \in Nat : n <= k => SumsOf(s)[n] = SumsOf(t)[n]}
  <1>1. Len(s) \in Nat /\ Len(t) \in Nat
    BY LenProperties
  <1>2. 0 \in S
    BY SumsExist
  <1>3. ASSUME NEW n \in Nat, n \in S PROVE n + 1 \in S
    <2> SUFFICES ASSUME n + 1 <= k PROVE SumsOf(s)[n + 1] = SumsOf(t)[n + 1]
      OBVIOUS
    <2>1. SumsOf(s)[n] = SumsOf(t)[n] /\ n + 1 \in 1 .. k /\ n + 1 - 1 = n
      BY <1>3
    <2>2. n + 1 \in 1 .. Len(s) /\ n + 1 \in 1 .. Len(t)
      BY <1>1, <2>1
    <2> QED
      BY <2>1, <2>2, SumsExist
  <1> HIDE DEF S
  <1>4. Nat \subseteq S
    BY <1>2, <1>3, Induction
  <1> QED
    BY <1>4 DEF S

LEMMA TotalEmpty == Total(<<>>) = 0
  <1> QED
    BY EmptySeq, SumsExist DEF Total

(* The total of a longer sequence.                                         *)
LEMMA TotalGrows ==
  ASSUME NEW s \in Seq(Int), NEW t \in Seq(Int), Len(t) = Len(s) + 1,
         \A n \in 1 .. Len(s) : t[n] = s[n]
  PROVE  Total(s) \in Int /\ Total(t) = Total(s) + t[Len(t)]
  <1>1. Len(s) \in Nat /\ Len(t) \in 1 .. Len(t) /\ Len(t) - 1 = Len(s) /\ Len(s) \in 0 .. Len(s)
    BY LenProperties
  <1>2. SumsOf(s)[Len(s)] = SumsOf(t)[Len(s)]
    <2> DEFINE k == Len(s)
    <2>1. k \in Nat /\ k <= Len(s) /\ k <= Len(t) /\ \A n \in 1 .. k : s[n] = t[n]
      BY <1>1
    <2> HIDE DEF k
    <2>2. SumsOf(s)[k] = SumsOf(t)[k]
      BY <2>1, SumsAgree
    <2> QED
      BY <2>2 DEF k
  <1>3. /\ SumsOf(s)[Len(s)] \in Int
        /\ SumsOf(t)[Len(t)] = SumsOf(t)[Len(t) - 1] + t[Len(t)]
    BY <1>1, SumsExist
  <1> QED
    BY <1>1, <1>2, <1>3 DEF Total

LEMMA FunctionIsSeq ==
  ASSUME NEW S, NEW n \in Nat, NEW f \in [1 .. n -> S]
  PROVE  f \in Seq(S) /\ Len(f) = n
  <1>1. f \in Seq(S)
    BY SeqDef
  <1> QED
    BY <1>1, LenProperties

(***************************************************************************)
(* The reader of a Go provider.                                            *)
(***************************************************************************)

LEMMA ScanTyped ==
  ASSUME scan \in Scans
  PROVE  /\ scan.sizes \in Seq(Nat) /\ Len(scan.sizes) \in Nat
         /\ DOMAIN scan.sizes = 1 .. Len(scan.sizes)
         /\ \A b \in 1 .. Len(scan.sizes) : scan.sizes[b] \in Nat
         /\ scan.limit \in -1 .. MaxLimit
         /\ AskedColumns \in Seq(Nat)
  <1> USE ReaderAssumption
  <1>1. /\ scan.sizes \in Sequences(0 .. MaxInputRows, MaxInputs)
        /\ scan.projection \in {Nil} \union Sequences(0 .. Columns - 1, MaxWidth)
        /\ scan.limit \in -1 .. MaxLimit
    BY DEF Scans
  <1>2. ASSUME NEW S \in SUBSET Nat, NEW n \in Nat, NEW s \in Sequences(S, n)
        PROVE  s \in Seq(Nat)
    <2>1. PICK k \in 0 .. n : s \in [1 .. k -> S]
      BY DEF Sequences
    <2>2. k \in Nat
      BY <2>1
    <2>3. s \in [1 .. k -> Nat]
      BY <2>1, <1>2
    <2> QED
      BY <2>2, <2>3, FunctionIsSeq
  <1>3. scan.sizes \in Seq(Nat)
    <2>1. 0 .. MaxInputRows \in SUBSET Nat /\ MaxInputs \in Nat
      OBVIOUS
    <2> QED
      BY <1>1, <1>2, <2>1
  <1>4. scan.projection # Nil => scan.projection \in Seq(Nat)
    <2>1. 0 .. Columns - 1 \in SUBSET Nat /\ MaxWidth \in Nat
      OBVIOUS
    <2> QED
      BY <1>1, <1>2, <2>1
  <1>5. [c \in 1 .. Columns |-> c - 1] \in Seq(Nat)
    <2>1. [c \in 1 .. Columns |-> c - 1] \in [1 .. Columns -> Nat] /\ Columns \in Nat
      OBVIOUS
    <2> QED
      BY <2>1, SeqDef
  <1> QED
    BY <1>1, <1>3, <1>4, <1>5, LenProperties DEF AskedColumns

(* A batch adds its rows to those delivered.                               *)
LEMMA DeliveredGrows ==
  ASSUME delivered \in Seq(Batches), NEW b \in Batches, delivered' = Append(delivered, b)
  PROVE  /\ delivered' \in Seq(Batches) /\ Len(delivered) \in Nat
         /\ Len(delivered') = Len(delivered) + 1
         /\ DOMAIN delivered = 1 .. Len(delivered)
         /\ DOMAIN delivered' = 1 .. Len(delivered) + 1
         /\ \A i \in 1 .. Len(delivered) : delivered'[i] = delivered[i]
         /\ delivered'[Len(delivered) + 1] = b
         /\ DeliveredRows' = DeliveredRows + b.rows
  <1> DEFINE n == Len(delivered)
             before == [i \in DOMAIN delivered |-> delivered[i].rows]
             after == [i \in DOMAIN delivered' |-> delivered'[i].rows]
  <1>1. /\ delivered' \in Seq(Batches) /\ Len(delivered') = n + 1
        /\ \A i \in 1 .. n : delivered'[i] = delivered[i]
        /\ delivered'[n + 1] = b
    BY AppendProperties
  <1>2. /\ n \in Nat /\ DOMAIN delivered = 1 .. n /\ DOMAIN delivered' = 1 .. n + 1
        /\ \A i \in 1 .. n : delivered[i] \in Batches
        /\ \A i \in 1 .. n + 1 : delivered'[i] \in Batches
    BY <1>1, LenProperties, ElementOfSeq
  <1>3. \A c \in Batches : c.rows \in Nat
    BY DEF Batches
  <1> HIDE DEF n
  <1>4. before \in [1 .. n -> Int] /\ after \in [1 .. n + 1 -> Int]
    BY <1>2, <1>3
  <1>5. before \in Seq(Int) /\ after \in Seq(Int) /\ Len(before) = n /\ Len(after) = n + 1
    <2>1. n + 1 \in Nat
      BY <1>2
    <2> HIDE DEF before, after
    <2> QED
      BY <1>2, <1>4, <2>1, FunctionIsSeq
  <1>6. (\A i \in 1 .. n : after[i] = before[i]) /\ after[n + 1] = b.rows
    BY <1>1, <1>2
  <1>7. DeliveredRows = Total(before) /\ DeliveredRows' = Total(after)
    BY DEF DeliveredRows
  <1> HIDE DEF before, after
  <1>8. Total(before) \in Int /\ Total(after) = Total(before) + after[Len(after)]
    BY <1>5, <1>6, TotalGrows
  <1> QED
    BY <1>1, <1>2, <1>5, <1>6, <1>7, <1>8 DEF n

LEMMA ReaderInitially == ReaderInit => ReaderInv
  <1> SUFFICES ASSUME ReaderInit PROVE ReaderInv
    OBVIOUS
  <1> USE DEF ReaderInit, ReaderStart
  <1>1. delivered \in Seq(Batches) /\ Len(delivered) = 0 /\ DOMAIN delivered = {}
    BY EmptySeq
  <1>2. DeliveredRows = 0
    <2>1. [i \in DOMAIN delivered |-> delivered[i].rows] = <<>>
      BY <1>1
    <2> QED
      BY <2>1, TotalEmpty DEF DeliveredRows
  <1>3. scan \in Scans /\ scan.limit \in -1 .. MaxLimit /\ Len(scan.sizes) \in Nat
    BY ScanTyped
  <1>4. ReaderTypeOK
    <2>1. remaining \in -1 .. MaxLimit /\ inputRead \in 0 .. Len(scan.sizes)
      BY <1>3
    <2>2. readerRefs \in Nat /\ kept \in {0, 1} /\ inputReleases \in {0, 1}
      OBVIOUS
    <2> QED
      BY <1>1, <1>3, <2>1, <2>2, Zenon DEF ReaderTypeOK
  <1>5. BatchesAsAsked
    BY <1>1 DEF BatchesAsAsked
  <1>6. LimitKept
    BY <1>1, <1>2, <1>3, ReaderAssumption DEF LimitKept
  <1>7. EndReached /\ InputFreedOnce
    BY DEF EndReached, InputFreedOnce
  <1> QED
    BY <1>4, <1>5, <1>6, <1>7 DEF ReaderInv

(* What a step keeps that neither reads the input nor ends it.             *)
LEMMA DeliveredKept ==
  ASSUME ReaderInv, UNCHANGED <<scan, remaining, inputRead, delivered>>
  PROVE  /\ scan' \in Scans /\ remaining' \in -1 .. MaxLimit
         /\ inputRead' \in 0 .. Len(scan'.sizes) /\ delivered' \in Seq(Batches)
         /\ BatchesAsAsked' /\ LimitKept'
  <1>1. DeliveredRows' = DeliveredRows /\ AskedColumns' = AskedColumns
    BY DEF DeliveredRows, AskedColumns
  <1>2. BatchesAsAsked'
    BY <1>1 DEF ReaderInv, BatchesAsAsked
  <1>3. LimitKept'
    BY <1>1 DEF ReaderInv, LimitKept
  <1> QED
    BY <1>2, <1>3 DEF ReaderInv, ReaderTypeOK

LEMMA DeniedStep ==
  ASSUME ReaderInv, ReadNext, NextDenied \/ NextEnds
  PROVE  ReaderInv'
  <1>1. /\ UNCHANGED <<scan, remaining, inputRead, delivered, readerRefs, inputReleases>>
        /\ batch' = Nil /\ kept' = 0 /\ more' = FALSE
    BY DEF ReadNext, NextDenied, NextEnds, Dropped
  <1>2. readerErr' \in BOOLEAN /\ readerDone' \in BOOLEAN
    BY DEF NextDenied, NextEnds, ReaderInv, ReaderTypeOK
  <1>3. /\ scan' \in Scans /\ remaining' \in -1 .. MaxLimit
        /\ inputRead' \in 0 .. Len(scan'.sizes) /\ delivered' \in Seq(Batches)
        /\ BatchesAsAsked' /\ LimitKept'
    BY <1>1, DeliveredKept
  <1>4. ReaderTypeOK'
    BY <1>1, <1>2, <1>3 DEF ReaderInv, ReaderTypeOK
  <1>5. EndReached'
    BY <1>1 DEF NextDenied, NextEnds, ReaderInv, EndReached, ReaderTypeOK
  <1>6. InputFreedOnce'
    BY <1>1 DEF ReaderInv, InputFreedOnce
  <1> QED
    BY <1>3, <1>4, <1>5, <1>6 DEF ReaderInv

(* The next batch of the input, cut where the limit is reached.            *)
LEMMA BatchStep ==
  ASSUME ReaderInv, ReadNext, NextBatch
  PROVE  ReaderInv'
  <1> DEFINE b == inputRead + 1
             rows == Capped(scan.sizes[b])
             slice == Slice(b)
             last == Len(scan.sizes)
  <1>1. ReaderTypeOK /\ LimitKept /\ MaxLimit \in Nat
    BY ReaderAssumption DEF ReaderInv
  <1>2. /\ scan \in Scans /\ scan' = scan /\ inputRead \in 0 .. last
        /\ remaining \in -1 .. MaxLimit /\ delivered \in Seq(Batches)
        /\ Len(delivered) = inputRead
    BY <1>1 DEF ReaderTypeOK, LimitKept, ReadNext
  <1>3. inputRead < last /\ remaining # 0 /\ ~readerDone
    BY DEF NextBatch
  <1>4. /\ last \in Nat /\ scan.limit \in -1 .. MaxLimit /\ AskedColumns \in Seq(Nat)
        /\ \A i \in 1 .. last : scan.sizes[i] \in Nat
    BY <1>2, ScanTyped
  <1>5. b \in 1 .. last
    BY <1>2, <1>3, <1>4
  <1>6. /\ scan \in Scans /\ scan' = scan /\ last \in Nat /\ inputRead \in 0 .. last
        /\ inputRead < last /\ b \in 1 .. last /\ scan.sizes[b] \in Nat
        /\ scan.limit \in -1 .. MaxLimit /\ remaining \in -1 .. MaxLimit /\ remaining # 0
        /\ ~readerDone /\ AskedColumns \in Seq(Nat) /\ AskedColumns' = AskedColumns
        /\ delivered \in Seq(Batches) /\ Len(delivered) = inputRead
    <2>1. AskedColumns' = AskedColumns
      BY <1>2 DEF AskedColumns
    <2> HIDE DEF b, last
    <2> QED
      BY <1>2, <1>3, <1>4, <1>5, <2>1
  <1>7. /\ rows \in Nat /\ rows <= scan.sizes[b]
        /\ remaining >= 0 => rows <= remaining /\ (rows = scan.sizes[b] \/ rows = remaining)
        /\ remaining < 0 => rows = scan.sizes[b]
    <2> DEFINE size == scan.sizes[b]
    <2>1. size \in Nat /\ remaining \in Int
      BY <1>1, <1>6
    <2> HIDE DEF size
    <2>2. rows = IF remaining >= 0 /\ size > remaining THEN remaining ELSE size
      BY DEF Capped, size
    <2> HIDE DEF rows
    <2>3. /\ rows \in Nat /\ rows <= size
          /\ remaining >= 0 => rows <= remaining /\ (rows = size \/ rows = remaining)
          /\ remaining < 0 => rows = size
      BY <2>1, <2>2
    <2> QED
      BY <2>3 DEF size
  <1>8. /\ slice \in Batches /\ slice.number = b /\ slice.rows = rows
        /\ slice.columns = AskedColumns
    BY <1>6, <1>7 DEF Slice, Batches
  <1>9. /\ inputRead' = b /\ batch' = slice /\ kept' = 1 /\ more' = TRUE
        /\ delivered' = Append(delivered, slice)
        /\ remaining' = IF remaining >= 0 THEN remaining - rows ELSE remaining
        /\ readerErr' = readerErr /\ readerDone' = readerDone
        /\ readerRefs' = readerRefs /\ inputReleases' = inputReleases /\ readerRefs > 0
    BY DEF NextBatch, ReadNext
  <1> HIDE DEF rows, slice, last
  <1>10. /\ delivered' \in Seq(Batches) /\ Len(delivered') = b
         /\ DOMAIN delivered = 1 .. inputRead /\ DOMAIN delivered' = 1 .. b
         /\ \A i \in 1 .. inputRead : delivered'[i] = delivered[i]
         /\ delivered'[b] = slice
         /\ DeliveredRows' = DeliveredRows + rows
    BY <1>6, <1>8, <1>9, DeliveredGrows
  <1>11. /\ remaining' \in -1 .. MaxLimit /\ remaining' <= remaining
         /\ remaining' >= 0 <=> remaining >= 0
    BY <1>1, <1>6, <1>7, <1>9
  <1>12. LimitKept
    BY DEF ReaderInv
  <1>13. ReaderTypeOK'
    <2>1. /\ scan' \in Scans /\ inputRead' \in 0 .. Len(scan'.sizes)
          /\ batch' \in Batches \union {Nil} /\ remaining' \in -1 .. MaxLimit
          /\ delivered' \in Seq(Batches)
      BY <1>6, <1>8, <1>9, <1>10, <1>11 DEF last
    <2>2. /\ readerErr' \in BOOLEAN /\ readerDone' \in BOOLEAN /\ more' \in BOOLEAN
          /\ readerRefs' \in Nat /\ kept' \in {0, 1} /\ inputReleases' \in {0, 1}
      BY <1>9 DEF ReaderInv, ReaderTypeOK
    <2> QED
      BY <2>1, <2>2, Zenon DEF ReaderTypeOK
  <1>14. BatchesAsAsked'
    <2> SUFFICES ASSUME NEW i \in 1 .. b
                 PROVE  /\ delivered'[i].number = i /\ delivered'[i].columns = AskedColumns
                        /\ \/ delivered'[i].rows = scan.sizes[i]
                           \/ /\ i = b /\ DeliveredRows' = scan.limit
                              /\ delivered'[i].rows < scan.sizes[i]
      BY <1>6, <1>10 DEF BatchesAsAsked
    <2>1. CASE i = b
      <3>1. /\ delivered'[i].number = i /\ delivered'[i].columns = AskedColumns
            /\ delivered'[i].rows = rows
        <4>1. delivered'[i] = slice
          BY <1>10, <2>1
        <4> QED
          BY <1>8, <2>1, <4>1
      <3>2. CASE rows = scan.sizes[b]
        BY <2>1, <3>1, <3>2
      <3>3. CASE rows # scan.sizes[b]
        <4>1. rows < scan.sizes[b] /\ remaining >= 0 /\ rows = remaining
          BY <1>1, <1>6, <1>7, <3>3
        <4>2. DeliveredRows' = scan.limit
          <5> DEFINE limit == scan.limit
                     total == DeliveredRows
          <5>1. /\ DeliveredRows' = total + rows /\ total \in Nat /\ limit \in -1 .. MaxLimit
                /\ limit = -1 => remaining = -1
                /\ limit >= 0 => total = limit - remaining
            BY <1>6, <1>10, <1>12 DEF LimitKept
          <5> HIDE DEF limit, total
          <5>2. DeliveredRows' = limit
            BY <1>1, <1>6, <4>1, <5>1
          <5> QED
            BY <5>2 DEF limit
        <4> QED
          BY <2>1, <3>1, <4>1, <4>2
      <3> QED
        BY <3>2, <3>3
    <2>2. CASE i # b
      <3>1. i \in 1 .. inputRead
        BY <1>6, <2>2
      <3>2. scan.limit # DeliveredRows
        BY <1>1, <1>6, <1>12 DEF LimitKept
      <3> QED
        BY <1>6, <1>10, <3>1, <3>2 DEF ReaderInv, BatchesAsAsked
    <2> QED
      BY <2>1, <2>2
  <1>15. LimitKept'
    <2> DEFINE limit == scan.limit
               total == DeliveredRows
    <2>1. limit \in Int /\ total \in Nat /\ remaining \in Int /\ rows \in Nat
      BY <1>1, <1>6, <1>7, <1>12 DEF LimitKept
    <2>2. /\ remaining <= limit /\ (limit = -1 => remaining = -1)
          /\ limit >= 0 => remaining >= 0 /\ total = limit - remaining
      BY <1>12 DEF LimitKept
    <2>3. scan'.limit = limit /\ limit >= -1
      BY <1>1, <1>6
    <2>4. DeliveredRows' = total + rows
      BY <1>10
    <2> HIDE DEF limit, total
    <2>5. /\ DeliveredRows' \in Nat /\ remaining' <= limit
          /\ limit = -1 => remaining' = -1
          /\ limit >= 0 => remaining' >= 0 /\ DeliveredRows' = limit - remaining'
          /\ limit # 0
      BY <1>6, <1>7, <1>9, <2>1, <2>2, <2>3, <2>4
    <2> QED
      BY <1>9, <1>10, <2>3, <2>5 DEF LimitKept
  <1>16. EndReached'
    BY <1>6, <1>9 DEF ReaderInv, EndReached
  <1>17. InputFreedOnce'
    <2>1. slice # Nil
      BY <1>8, ReaderAssumption DEF Batches
    <2> QED
      BY <1>9, <2>1 DEF ReaderInv, ReaderTypeOK, InputFreedOnce
  <1> QED
    BY <1>13, <1>14, <1>15, <1>16, <1>17 DEF ReaderInv

LEMMA ReferenceStep ==
  ASSUME ReaderInv, RetainReader \/ ReleaseReader
  PROVE  ReaderInv'
  <1>1. UNCHANGED <<scan, remaining, inputRead, readerErr, readerDone, more, delivered>>
    BY DEF RetainReader, ReleaseReader
  <1>2. /\ scan' \in Scans /\ remaining' \in -1 .. MaxLimit
        /\ inputRead' \in 0 .. Len(scan'.sizes) /\ delivered' \in Seq(Batches)
        /\ BatchesAsAsked' /\ LimitKept'
    BY <1>1, DeliveredKept
  <1>3. readerRefs \in Nat /\ kept \in {0, 1} /\ inputReleases \in {0, 1} /\ InputFreedOnce
    BY DEF ReaderInv, ReaderTypeOK
  <1>4. /\ readerRefs' \in Nat /\ kept' \in {0, 1} /\ inputReleases' \in {0, 1}
        /\ batch' \in {batch, Nil}
    BY <1>3, ReaderAssumption DEF RetainReader, ReleaseReader, InputFreedOnce
  <1>5. InputFreedOnce'
    BY <1>3, ReaderAssumption DEF RetainReader, ReleaseReader, InputFreedOnce
  <1>6. ReaderTypeOK'
    BY <1>1, <1>2, <1>4, Zenon DEF ReaderInv, ReaderTypeOK
  <1>7. EndReached'
    BY <1>1 DEF ReaderInv, EndReached
  <1> QED
    BY <1>2, <1>5, <1>6, <1>7 DEF ReaderInv

LEMMA ReaderStep == ReaderInv /\ [ReaderNext]_readerVars => ReaderInv'
  <1> SUFFICES ASSUME ReaderInv, [ReaderNext]_readerVars PROVE ReaderInv'
    OBVIOUS
  <1>1. CASE ReadNext
    BY <1>1, DeniedStep, BatchStep DEF ReadNext
  <1>2. CASE RetainReader \/ ReleaseReader
    BY <1>2, ReferenceStep
  <1>3. CASE UNCHANGED readerVars
    <2>1. UNCHANGED <<scan, remaining, inputRead, delivered>>
      BY <1>3 DEF readerVars
    <2> QED
      BY <1>3, <2>1, DeliveredKept
         DEF readerVars, ReaderInv, ReaderTypeOK, EndReached, InputFreedOnce
  <1> QED
    BY <1>1, <1>2, <1>3 DEF ReaderNext

(* The inductive invariant of ProviderReader.                              *)
THEOREM ReaderInvariant == ReaderSpec => []ReaderInv
  <1> QED
    BY ReaderInitially, ReaderStep, PTL DEF ReaderSpec

(* The types: what remains never falls below -1, which is no limit.        *)
THEOREM ReaderTypeCorrect == ReaderSpec => []ReaderTypeOK
  <1>1. ReaderInv => ReaderTypeOK
    BY DEF ReaderInv
  <1> QED
    BY <1>1, ReaderInvariant, PTL

(* A Go provider's reader delivers what was asked for, up to the limit and *)
(* no further, and frees its input once (provider_reader.go).              *)
THEOREM ReaderDeliversCorrect == ReaderSpec => []ReaderDelivers
  <1>1. ASSUME ReaderInv PROVE ReaderDelivers
    <2>1. ReaderTypeOK /\ BatchesAsAsked /\ LimitKept /\ EndReached /\ InputFreedOnce
      BY <1>1 DEF ReaderInv
    <2>2. /\ scan.limit \in Int /\ remaining \in Int /\ scan.limit >= -1
          /\ DOMAIN delivered = 1 .. Len(delivered) /\ DeliveredRows \in Nat
      BY <2>1, ScanTyped, LenProperties, ReaderAssumption DEF ReaderTypeOK, LimitKept
    <2>3. scan.limit >= 0 => DeliveredRows <= scan.limit /\ (scan.limit = 0 => inputRead = 0)
      BY <2>1, <2>2 DEF LimitKept
    <2>4. ASSUME ~more, ~readerErr
          PROVE  \/ scan.limit >= 0 /\ DeliveredRows = scan.limit
                 \/ /\ scan.ending = "eof" /\ Len(delivered) = Len(scan.sizes)
                    /\ \A i \in DOMAIN delivered : delivered[i].rows = scan.sizes[i]
      <3>1. CASE remaining = 0
        BY <2>1, <2>2, <3>1 DEF LimitKept
      <3>2. CASE remaining # 0
        <4>1. readerDone /\ scan.ending = "eof" /\ Len(delivered) = Len(scan.sizes)
          BY <2>1, <2>4, <3>2 DEF EndReached, LimitKept
        <4>2. DeliveredRows # scan.limit
          BY <2>1, <2>2, <3>2 DEF LimitKept
        <4> QED
          BY <2>1, <4>1, <4>2 DEF BatchesAsAsked
      <3> QED
        BY <3>1, <3>2
    <2> QED
      BY <2>1, <2>3, <2>4 DEF ReaderDelivers
  <1> QED
    BY <1>1, ReaderInvariant, PTL

(***************************************************************************)
(* Numbers: cells, and the count of affected rows.                         *)
(***************************************************************************)

LEMMA Division ==
  ASSUME NEW n \in Nat, NEW d \in Nat \ {0}
  PROVE  /\ n \div d \in Nat
         /\ d * (n \div d) <= n /\ n < d * (n \div d) + d
  BY SMT

LEMMA QuotientOrder ==
  ASSUME NEW n \in Nat, NEW d \in Nat \ {0}, NEW v \in Nat
  PROVE  v > n \div d <=> v * d > n
  <1> DEFINE q == n \div d
  <1>1. q \in Nat /\ d * q <= n /\ n < d * q + d
    BY Division
  <1> HIDE DEF q
  <1>2. CASE v > q
    <2>1. PICK k \in Nat : v = q + 1 + k
      <3>1. v - q - 1 \in Nat /\ v = q + 1 + (v - q - 1)
        BY <1>1, <1>2
      <3> QED
        BY <3>1
    <2>2. v * d = d * q + d + k * d /\ k * d >= 0 /\ d * q \in Int /\ k * d \in Int
      BY <1>1, <2>1, SMT
    <2>3. v * d > n
      BY <1>1, <2>2
    <2> QED
      BY <1>2, <2>3 DEF q
  <1>3. CASE ~(v > q)
    <2>1. PICK k \in Nat : q = v + k
      <3>1. q - v \in Nat /\ q = v + (q - v)
        BY <1>1, <1>3
      <3> QED
        BY <3>1
    <2>2. d * q = v * d + k * d /\ k * d >= 0 /\ v * d \in Int /\ k * d \in Int
      BY <1>1, <2>1, SMT
    <2>3. ~(v * d > n)
      BY <1>1, <2>2
    <2> QED
      BY <1>3, <2>3 DEF q
  <1> QED
    BY <1>2, <1>3

(* A number that int64 holds is not wrapped.                               *)
LEMMA Unwrapped ==
  ASSUME NEW n \in Int64
  PROVE  Wrap(n) = n
  <1> DEFINE m == 2 * MaxInt64 + 2
             k == n - MinInt64
  <1>1. MaxInt64 \in Nat /\ n \in Int /\ MinInt64 \in Int
    BY CellAssumption, ValuesAssumption DEF Int64, MinInt64
  <1>2. k \in 0 .. m - 1 /\ m \in Nat \ {0}
    BY <1>1 DEF Int64, MinInt64
  <1> HIDE DEF k, m
  <1>3. k % m = k
    BY <1>2, SMT
  <1> QED
    BY <1>1, <1>3 DEF Wrap, k, m

(* durationNanos refuses exactly the durations that int64 cannot hold.     *)
LEMMA DurationExact ==
  ASSUME NEW v \in Int64, NEW m \in Nat \ {0}
  PROVE  DurationNanos(v, m) = IF v * m \in Int64 THEN v * m ELSE Error
  <1> DEFINE p == v * m
  <1>1. MaxInt64 \in Nat /\ v \in Int /\ MinInt64 \in Int /\ -MinInt64 = MaxInt64 + 1
        /\ MinInt64 < 0
    BY CellAssumption, ValuesAssumption DEF Int64, MinInt64
  <1>2. p \in Int
    BY <1>1
  <1>3. CASE v >= 0
    <2>1. v > MaxInt64 \div m <=> p > MaxInt64
      BY <1>1, <1>3, QuotientOrder
    <2>2. p >= 0
      BY <1>1, <1>3, SMT
    <2>3. DurationNanos(v, m) = IF v > 0 /\ v > MaxInt64 \div m THEN Error ELSE Wrap(p)
      BY <1>1, <1>3 DEF DurationNanos, Quotient
    <2>4. MaxInt64 \div m \in Nat
      BY <1>1, Division
    <2> HIDE DEF p
    <2>5. p \in Int64 <=> ~(p > MaxInt64)
      BY <1>1, <1>2, <2>2 DEF Int64
    <2>6. v > 0 /\ v > MaxInt64 \div m <=> ~(p \in Int64)
      BY <1>1, <1>3, <2>1, <2>4, <2>5
    <2>7. DurationNanos(v, m) = IF p \in Int64 THEN p ELSE Error
      BY <2>3, <2>6, Unwrapped
    <2> QED
      BY <2>7 DEF p
  <1>4. CASE v < 0
    <2> DEFINE w == -v
               least == -MinInt64
    <2>1. w \in Nat /\ least \in Nat /\ w * m = -p /\ w * m >= 0
      BY <1>1, <1>4, SMT
    <2>2. w > least \div m <=> w * m > least
      BY <2>1, QuotientOrder
    <2>3. least \div m \in Nat
      BY <2>1, Division
    <2>4. DurationNanos(v, m) = IF v < -(least \div m) THEN Error ELSE Wrap(p)
      BY <1>1, <1>4 DEF DurationNanos, Quotient
    <2> HIDE DEF p
    <2>5. p \in Int64 <=> ~(w * m > least)
      BY <1>1, <1>2, <2>1 DEF Int64
    <2>6. v < -(least \div m) <=> w > least \div m
      BY <1>1, <2>3
    <2>7. DurationNanos(v, m) = IF p \in Int64 THEN p ELSE Error
      BY <2>2, <2>4, <2>5, <2>6, Unwrapped
    <2> QED
      BY <2>7 DEF p
  <1> QED
    BY <1>1, <1>3, <1>4

(* An integer or a duration.                                               *)
LEMMA IntegralArrives ==
  ASSUME cell \in CellInputs, cell.type \in Integral, cell.value # Null
  PROVE  ArrowValue(cell.type, cell.value, cell.multiplier) =
            IF Exactly \in Int64 THEN Number(Exactly) ELSE Opaque("error")
  <1> DEFINE type == cell.type
             value == cell.value
             m == cell.multiplier
  <1>1. /\ type \in Integral /\ value # Null /\ m \in Nat \ {0} /\ type # "null"
        /\ value \in IF type \in Unsigned THEN Uint64 ELSE Int64
    BY CellAssumption, ValuesAssumption DEF CellInputs, Integral, Signed, Unsigned
  <1>2. MaxInt64 \in Nat /\ MinInt64 \in Int /\ MinInt64 < 0
    BY CellAssumption, ValuesAssumption DEF MinInt64
  <1>3. Exactly = IF type = "duration" THEN value * m ELSE value
    BY DEF Exactly
  <1> HIDE DEF type, value, m
  <1>4. CASE type \in Signed
    <2>1. type \notin Unsigned /\ type # "duration"
      BY <1>4 DEF Signed, Unsigned
    <2>2. ArrowValue(type, value, m) = Number(value)
      BY <1>1, <1>4 DEF ArrowValue, Signed, Unsigned, Floats, Times, Bytes, Texts,
                  Decimals, Intervals
    <2> QED
      BY <1>1, <1>3, <2>1, <2>2 DEF type, value, m
  <1>5. CASE type \in Unsigned
    <2>1. type \notin Signed /\ type # "duration"
      BY <1>5 DEF Signed, Unsigned
    <2>2. ArrowValue(type, value, m) =
            IF value > MaxInt64 THEN Opaque("error") ELSE Number(value)
      BY <1>1, <1>5, <2>1 DEF ArrowValue, Signed, Unsigned, Floats, Times, Bytes, Texts,
                  Decimals, Intervals
    <2>3. value \in Int64 <=> ~(value > MaxInt64)
      BY <1>1, <1>2, <1>5 DEF Uint64, Int64
    <2> QED
      BY <1>1, <1>3, <2>1, <2>2, <2>3 DEF type, value, m
  <1>6. CASE type = "duration"
    <2>1. type \notin Signed /\ type \notin Unsigned
      BY <1>6 DEF Signed, Unsigned
    <2>2. ArrowValue(type, value, m) =
            IF DurationNanos(value, m) = Error THEN Opaque("error")
            ELSE Number(DurationNanos(value, m))
      BY <1>1, <1>6, <2>1 DEF ArrowValue, Signed, Unsigned, Floats, Times, Bytes, Texts,
                  Decimals, Intervals
    <2>3. value \in Int64
      BY <1>1, <2>1
    <2> DEFINE product == value * m
    <2>4. DurationNanos(value, m) = IF product \in Int64 THEN product ELSE Error
      BY <1>1, <2>3, DurationExact
    <2>5. \A n \in Int64 : n # Error
      BY <1>2, CellAssumption, ValuesAssumption DEF Int64, MinInt64
    <2>6. Exactly = product
      BY <1>3, <1>6
    <2> HIDE DEF product
    <2>7. ArrowValue(type, value, m) =
            IF product \in Int64 THEN Number(product) ELSE Opaque("error")
      BY <2>2, <2>4, <2>5
    <2> QED
      BY <2>6, <2>7 DEF type, value, m
  <1> QED
    BY <1>1, <1>4, <1>5, <1>6 DEF Integral

(* Another value, or a null, fits the type that the column announces.      *)
LEMMA OtherArrives ==
  ASSUME NEW type \in Types, Accepted(type), NEW nullable \in BOOLEAN, NEW value, NEW m,
         ~(type \in Integral /\ value # Null)
  PROVE  /\ ArrowValue(type, value, m) \in {Opaque(kind) : kind \in
                {"nil", "bool", "float64", "[]byte", "Time", "string"}}
         /\ (value = Null => nullable \/ type = "null") =>
                Holds(ScanType(type, nullable), ArrowValue(type, value, m).kind)
  <1> USE DEF Opaque, Holds
  <1>1. CASE value = Null \/ type = "null"
    <2>1. ArrowValue(type, value, m) = Opaque("nil")
      BY <1>1 DEF ArrowValue
    <2>2. value = Null /\ nullable =>
            ScanType(type, nullable) \in {"any", "[]byte", "NullBool", "NullInt64",
                                          "NullFloat64", "NullTime", "NullString"}
      BY DEF ScanType
    <2>3. type = "null" => ScanType(type, nullable) = "any"
      BY DEF ScanType, Signed, Unsigned, Floats, Times, Texts, Decimals, Intervals, Bytes
    <2>4. ArrowValue(type, value, m).kind = "nil"
      BY <2>1
    <2> QED
      BY <1>1, <2>1, <2>2, <2>3, <2>4
  <1> DEFINE Is(kind, go, nullableGo) ==
               /\ ArrowValue(type, value, m) = Opaque(kind)
               /\ ScanType(type, nullable) = IF nullable THEN nullableGo ELSE go
  <1>2. CASE value # Null /\ type = "bool"
    <2>1. Is("bool", "bool", "NullBool")
      BY <1>2 DEF ArrowValue, ScanType, Signed, Unsigned, Floats, Times, Bytes, Texts,
                  Decimals, Intervals
    <2> QED
      BY <2>1
  <1>3. CASE value # Null /\ type \in Floats
    <2>1. Is("float64", "float64", "NullFloat64")
      BY <1>3 DEF ArrowValue, ScanType, Signed, Unsigned, Floats, Times, Bytes, Texts,
                  Decimals, Intervals
    <2> QED
      BY <2>1
  <1>4. CASE value # Null /\ type \in Times
    <2>1. Is("Time", "Time", "NullTime")
      BY <1>4 DEF ArrowValue, ScanType, Signed, Unsigned, Floats, Times, Bytes, Texts,
                  Decimals, Intervals
    <2> QED
      BY <2>1
  <1>5. CASE value # Null /\ type \in Texts \union Decimals \union Intervals
    <2>1. Is("string", "string", "NullString")
      BY <1>5 DEF ArrowValue, ScanType, Signed, Unsigned, Floats, Times, Bytes, Texts,
                  Decimals, Intervals
    <2> QED
      BY <2>1
  <1>6. CASE value # Null /\ type \in Bytes
    <2>1. Is("[]byte", "[]byte", "[]byte")
      BY <1>6 DEF ArrowValue, ScanType, Signed, Unsigned, Floats, Times, Bytes, Texts,
                  Decimals, Intervals
    <2> QED
      BY <2>1
  <1>7. \/ value = Null \/ type = "null" \/ type = "bool" \/ type \in Floats \/ type \in Times
        \/ type \in Texts \union Decimals \union Intervals \/ type \in Bytes
    BY DEF Types, Accepted, Integral
  <1> QED
    BY <1>1, <1>2, <1>3, <1>4, <1>5, <1>6, <1>7

LEMMA CellStep == CellTypeOK /\ CellExact /\ [Convert]_cellVars => CellTypeOK' /\ CellExact'
  <1> SUFFICES ASSUME CellTypeOK, CellExact, [Convert]_cellVars
               PROVE  CellTypeOK' /\ CellExact'
    OBVIOUS
  <1>1. CASE Convert
    <2>1. /\ cell \in CellInputs /\ cell' = cell /\ Accepted(cell.type)
          /\ arrived' = ArrowValue(cell.type, cell.value, cell.multiplier)
          /\ cell.type \in Types /\ cell.nullable \in BOOLEAN
      BY <1>1 DEF Convert, CellTypeOK, CellInputs
    <2>2. Exactly' = Exactly
      BY <2>1 DEF Exactly
    <2>3. CASE cell.type \in Integral /\ cell.value # Null
      <3>1. arrived' = IF Exactly \in Int64 THEN Number(Exactly) ELSE Opaque("error")
        BY <2>1, <2>3, IntegralArrives
      <3> QED
        BY <2>1, <2>2, <2>3, <3>1 DEF CellTypeOK, CellExact, Arrived
    <2>4. CASE ~(cell.type \in Integral /\ cell.value # Null)
      <3>1. /\ arrived' \in {Opaque(kind) : kind \in
                    {"nil", "bool", "float64", "[]byte", "Time", "string"}}
            /\ (cell.value = Null => cell.nullable \/ cell.type = "null") =>
                    Holds(ScanType(cell.type, cell.nullable), arrived'.kind)
        BY <2>1, <2>4, OtherArrives
      <3>2. arrived' \in Arrived
        BY <3>1 DEF Arrived
      <3> QED
        BY <2>1, <2>4, <3>1, <3>2 DEF CellTypeOK, CellExact
    <2> QED
      BY <2>3, <2>4
  <1>2. CASE UNCHANGED cellVars
    BY <1>2 DEF cellVars, CellTypeOK, CellExact, Exactly
  <1> QED
    BY <1>1, <1>2

(* Whatever the widths of the integers and the units of the durations, a   *)
(* cell arrives exactly or as an error (arrowValue), in a value that the   *)
(* type of its column can hold (scanType).                                 *)
THEOREM CellsCorrect == CellSpec => [](CellTypeOK /\ CellExact)
  <1>1. CellInit => CellTypeOK /\ CellExact
    BY DEF CellInit, CellTypeOK, CellExact, Arrived, Unread
  <1> QED
    BY <1>1, CellStep, PTL DEF CellSpec

\* The values of a count column.
CountNumbers == Int64 \union Uint64
SumOrError == Int64 \union {Error}

LEMMA Numbers ==
  /\ MaxInt64 \in Nat /\ MinInt64 \in Int /\ MinInt64 = -MaxInt64 - 1
  /\ Null \notin CountNumbers /\ Error \notin CountNumbers
  /\ \A n : n \in Int64 <=> n \in Int /\ MinInt64 <= n /\ n <= MaxInt64
  /\ CountNumbers \subseteq Int /\ 0 \in Int64
  <1>1. MaxInt64 \in Nat /\ MinInt64 \in Int /\ MinInt64 = -MaxInt64 - 1
    BY CellAssumption, ValuesAssumption DEF MinInt64
  <1>2. CountNumbers \subseteq Int
    BY <1>1 DEF CountNumbers, Int64, Uint64
  <1>3. \A n : n \in Int64 <=> n \in Int /\ MinInt64 <= n /\ n <= MaxInt64
    BY <1>1 DEF Int64
  <1>4. 0 \in Int64
    BY <1>1, <1>3
  <1> QED
    BY <1>1, <1>2, <1>3, <1>4, CellAssumption, ValuesAssumption

(* The guarded addition is exact or an error.                              *)
LEMMA AddExact ==
  ASSUME NEW t \in SumOrError, NEW v \in SumOrError
  PROVE  /\ t = Error \/ v = Error => Add(t, v) = Error
         /\ t # Error /\ v # Error =>
              /\ t \in Int64 /\ v \in Int64
              /\ Add(t, v) = IF t + v \in Int64 THEN t + v ELSE Error
  <1>1. CASE t # Error /\ v # Error
    <2>1. t \in Int64 /\ v \in Int64 /\ t \in Int /\ v \in Int
      BY <1>1, Numbers DEF SumOrError
    <2>2. t + v \in Int64 <=> ~Overflows(t, v)
      BY <2>1, Numbers DEF Overflows
    <2>3. t + v \in Int64 => AddInt64(t, v) = t + v
      BY Unwrapped DEF AddInt64
    <2> QED
      BY <1>1, <2>1, <2>2, <2>3 DEF Add
  <1> QED
    BY <1>1 DEF Add

LEMMA IntegerValueTyped ==
  ASSUME NEW v \in CountNumbers
  PROVE  /\ IntegerValue(v) \in SumOrError
         /\ IntegerValue(v) = Error <=> ~counts.isInteger \/ v > MaxInt64
         /\ IntegerValue(v) # Error => IntegerValue(v) = v
  <1>1. v \in Int /\ (v \in Int64 \/ v \in Uint64) /\ v # Error
    BY Numbers DEF CountNumbers
  <1>2. v <= MaxInt64 => v \in Int64
    BY <1>1, Numbers DEF Uint64
  <1>3. v <= MaxInt64 <=> ~(v > MaxInt64)
    BY <1>1, Numbers
  <1> QED
    BY <1>1, <1>2, <1>3 DEF IntegerValue, SumOrError

LEMMA PlainTyped ==
  ASSUME NEW column \in Seq(CountNumbers \union {Null})
  PROVE  /\ Len(column) \in Nat /\ DOMAIN column = 1 .. Len(column)
         /\ \A i \in 1 .. Len(column) : column[i] \in CountNumbers \union {Null}
         /\ Plain(column) \in Seq(Int) /\ Len(Plain(column)) = Len(column)
         /\ \A i \in 1 .. Len(column) :
              Plain(column)[i] = IF column[i] = Null THEN 0 ELSE column[i]
  <1> DEFINE n == Len(column)
  <1>1. n \in Nat /\ DOMAIN column = 1 .. n
    BY LenProperties
  <1>2. \A i \in 1 .. n : column[i] \in CountNumbers \union {Null}
    BY ElementOfSeq
  <1> HIDE DEF n
  <1>3. Plain(column) \in [1 .. n -> Int]
    BY <1>1, <1>2, Numbers DEF Plain
  <1>4. \A i \in 1 .. n : Plain(column)[i] = IF column[i] = Null THEN 0 ELSE column[i]
    BY <1>1 DEF Plain
  <1> DEFINE plain == Plain(column)
  <1> HIDE DEF plain
  <1>5. plain \in [1 .. n -> Int]
    BY <1>3 DEF plain
  <1>6. plain \in Seq(Int) /\ Len(plain) = n
    BY <1>1, <1>5, FunctionIsSeq
  <1> QED
    BY <1>1, <1>2, <1>4, <1>6 DEF n, plain

(* The recursion that sums a column.                                       *)
LEMMA SumsToExist ==
  ASSUME NEW column \in Seq(CountNumbers \union {Null})
  PROVE  /\ SumsTo(column)[0] = 0
         /\ \A n \in 1 .. Len(column) :
              SumsTo(column)[n] = IF column[n] = Null THEN SumsTo(column)[n - 1]
                                  ELSE Add(SumsTo(column)[n - 1], IntegerValue(column[n]))
  <1> DEFINE last == Len(column)
             Next_(f, n) == IF n = 0 THEN 0
                            ELSE IF column[n] = Null THEN f[n - 1]
                            ELSE Add(f[n - 1], IntegerValue(column[n]))
             step == [p \in (1 .. last) \X SumOrError |->
                        IF column[p[1]] = Null THEN p[2]
                        ELSE Add(p[2], IntegerValue(column[p[1]]))]
  <1>1. last \in Nat /\ \A n \in 1 .. last : column[n] \in CountNumbers \union {Null}
    BY PlainTyped
  <1> HIDE DEF last
  <1>2. ASSUME NEW n \in 1 .. last, NEW v \in SumOrError
        PROVE  /\ step[<<n, v>>] \in SumOrError
               /\ step[<<n, v>>] = IF column[n] = Null THEN v
                                   ELSE Add(v, IntegerValue(column[n]))
    <2>1. step[<<n, v>>] = IF column[n] = Null THEN v ELSE Add(v, IntegerValue(column[n]))
      OBVIOUS
    <2>2. column[n] # Null => IntegerValue(column[n]) \in SumOrError
      BY <1>1, IntegerValueTyped
    <2>3. \A t, u \in SumOrError : Add(t, u) \in SumOrError
      BY AddExact DEF SumOrError
    <2> HIDE DEF step
    <2> QED
      BY <2>1, <2>2, <2>3
  <1>3. step \in [(1 .. last) \X SumOrError -> SumOrError]
    <2>1. \A p \in (1 .. last) \X SumOrError : step[p] \in SumOrError
      <3> SUFFICES ASSUME NEW n \in 1 .. last, NEW v \in SumOrError PROVE step[<<n, v>>] \in SumOrError
        OBVIOUS
      <3> HIDE DEF step
      <3> QED
        BY <1>2
    <2>2. step = [p \in (1 .. last) \X SumOrError |-> step[p]]
      OBVIOUS
    <2> HIDE DEF step
    <2> QED
      BY <2>1, <2>2
  <1> HIDE DEF step
  <1>4. PICK f : Recursive(f, SumOrError, 0, last, step)
    <2> DEFINE zero == 0
    <2>1. zero \in SumOrError
      BY Numbers DEF SumOrError
    <2> HIDE DEF zero
    <2>2. \E f : Recursive(f, SumOrError, zero, last, step)
      BY <1>1, <1>3, <2>1, Recursion
    <2> QED
      BY <2>2 DEF zero
  <1>5. ASSUME NEW n \in 1 .. last PROVE f[n] = Next_(f, n) /\ n # 0
    <2>1. n - 1 \in 0 .. last /\ n # 0
      BY <1>1
    <2>2. f \in [0 .. last -> SumOrError] /\ f[n] = step[<<n, f[n - 1]>>]
      BY <1>4 DEF Recursive
    <2>3. f[n - 1] \in SumOrError
      BY <2>1, <2>2
    <2> QED
      BY <1>2, <2>1, <2>2, <2>3
  <1>6. f = [n \in 0 .. last |-> Next_(f, n)]
    <2>1. \A n \in 0 .. last : f[n] = Next_(f, n)
      BY <1>1, <1>4, <1>5 DEF Recursive
    <2> HIDE DEF Next_
    <2> QED
      BY <1>4, <2>1 DEF Recursive
  <1>7. SumsTo(column) = [n \in 0 .. last |-> Next_(SumsTo(column), n)]
    BY <1>6 DEF SumsTo, last
  <1> DEFINE g == SumsTo(column)
  <1>8. \A n \in 0 .. last : g[n] = Next_(g, n)
    BY <1>7
  <1> HIDE DEF g
  <1>9. g[0] = 0
    BY <1>1, <1>8
  <1>10. ASSUME NEW n \in 1 .. last
         PROVE  g[n] = IF column[n] = Null THEN g[n - 1]
                       ELSE Add(g[n - 1], IntegerValue(column[n]))
    <2>1. n \in 0 .. last /\ n # 0
      BY <1>1
    <2> QED
      BY <1>8, <2>1
  <1> QED
    BY <1>9, <1>10 DEF last, g

Positive(column) == \A i \in 1 .. Len(column) : Plain(column)[i] >= 0

\* What is known of the sum of a column's first n values.
SummedTo(column, n) ==
    LET sum == SumsTo(column)[n]
        exact == SumsOf(Plain(column))[n]
    IN  /\ exact \in Int /\ sum \in SumOrError
        /\ sum # Error => sum = exact
        /\ Positive(column) => exact >= 0
        /\ sum = Error => ~counts.isInteger \/ ~Positive(column) \/ exact > MaxInt64

LEMMA ColumnSummed ==
  ASSUME NEW column \in Seq(CountNumbers \union {Null})
  PROVE  SummedTo(column, Len(column))
  <1> DEFINE last == Len(column)
             sum == SumsTo(column)
             exact == SumsOf(Plain(column))
             I == {n \in Nat : n <= last => SummedTo(column, n)}
  <1>1. last \in Nat /\ exact \in [0 .. last -> Int] /\ sum[0] = 0 /\ exact[0] = 0
    BY PlainTyped, SumsExist, SumsToExist
  <1>2. 0 \in I
    BY <1>1, Numbers DEF SummedTo, SumOrError
  <1>3. ASSUME NEW n \in Nat, n \in I, n + 1 <= last PROVE SummedTo(column, n + 1)
    <2> DEFINE c == column[n + 1]
               v == Plain(column)[n + 1]
    <2>1. n + 1 \in 1 .. last /\ n + 1 - 1 = n /\ SummedTo(column, n) /\ n + 1 \in 0 .. last
      BY <1>1, <1>3
    <2>2. /\ c \in CountNumbers \union {Null} /\ v = IF c = Null THEN 0 ELSE c
          /\ exact[n + 1] = exact[n] + v
          /\ sum[n + 1] = IF c = Null THEN sum[n] ELSE Add(sum[n], IntegerValue(c))
          /\ Positive(column) => v >= 0
      <3>1. exact[n + 1] = exact[n] + v
        BY <2>1, PlainTyped, SumsExist
      <3>2. sum[n + 1] = IF c = Null THEN sum[n] ELSE Add(sum[n], IntegerValue(c))
        BY <2>1, SumsToExist
      <3> QED
        BY <2>1, <3>1, <3>2, PlainTyped DEF Positive
    <2>3. /\ exact[n] \in Int /\ sum[n] \in SumOrError
          /\ sum[n] # Error => sum[n] = exact[n]
          /\ Positive(column) => exact[n] >= 0
          /\ sum[n] = Error => ~counts.isInteger \/ ~Positive(column) \/ exact[n] > MaxInt64
      BY <2>1 DEF SummedTo
    <2> HIDE DEF c, v, sum, exact
    <2>4. /\ exact[n + 1] \in Int /\ sum[n + 1] \in SumOrError
          /\ sum[n + 1] # Error => sum[n + 1] = exact[n + 1]
          /\ Positive(column) => exact[n + 1] >= 0
          /\ sum[n + 1] = Error =>
                ~counts.isInteger \/ ~Positive(column) \/ exact[n + 1] > MaxInt64
      <3>1. CASE c = Null
        BY <2>2, <2>3, <3>1
      <3>2. CASE c # Null
        <4>1. c \in CountNumbers /\ c \in Int /\ v = c
          BY <2>2, <3>2, Numbers
        <4>2. exact[n + 1] \in Int /\ (Positive(column) => exact[n + 1] >= 0 /\ c >= 0)
          BY <2>2, <2>3, <4>1
        <4> DEFINE given == IntegerValue(c)
        <4>3. /\ given \in SumOrError /\ (given = Error <=> ~counts.isInteger \/ c > MaxInt64)
              /\ given # Error => given = c
          BY <4>1, IntegerValueTyped
        <4> HIDE DEF given
        <4>4. sum[n + 1] = Add(sum[n], given)
          BY <2>2, <3>2 DEF given
        <4>5. CASE sum[n] = Error
          <5>1. sum[n + 1] = Error
            BY <2>3, <4>3, <4>4, <4>5, AddExact
          <5>2. exact[n] > MaxInt64 /\ c >= 0 => exact[n + 1] > MaxInt64
            BY <2>2, <2>3, <4>1, Numbers
          <5> QED
            BY <2>3, <4>2, <4>5, <5>1, <5>2 DEF SumOrError
        <4>6. CASE sum[n] # Error /\ given = Error
          <5>1. sum[n + 1] = Error
            BY <2>3, <4>3, <4>4, <4>6, AddExact
          <5>2. exact[n] >= 0 /\ c > MaxInt64 => exact[n + 1] > MaxInt64
            BY <2>2, <2>3, <4>1, Numbers
          <5> QED
            BY <2>3, <4>2, <4>3, <4>6, <5>1, <5>2 DEF SumOrError
        <4>7. CASE sum[n] # Error /\ given # Error
          <5>1. sum[n + 1] = IF exact[n + 1] \in Int64 THEN exact[n + 1] ELSE Error
            BY <2>2, <2>3, <4>1, <4>3, <4>4, <4>7, AddExact
          <5>2. exact[n + 1] >= 0 /\ exact[n + 1] \notin Int64 => exact[n + 1] > MaxInt64
            BY <4>2, Numbers
          <5>3. sum[n + 1] \in SumOrError
            BY <5>1 DEF SumOrError
          <5> QED
            BY <4>2, <5>1, <5>2, <5>3, CellAssumption, ValuesAssumption
        <4> QED
          BY <4>5, <4>6, <4>7
      <3> QED
        BY <3>1, <3>2
    <2> QED
      BY <2>4 DEF SummedTo, sum, exact
  <1>4. Nat \subseteq I
    <2> HIDE DEF last
    <2>1. \A n \in Nat : n \in I => n + 1 \in I
      BY <1>1, <1>3
    <2> HIDE DEF I
    <2> QED
      BY <1>2, <2>1, Induction
  <1> QED
    BY <1>1, <1>4

(* Sums of numbers that are not negative grow.                             *)
LEMMA SumsGrow ==
  ASSUME NEW s \in Seq(Int), \A i \in 1 .. Len(s) : s[i] >= 0, NEW k \in 0 .. Len(s)
  PROVE  SumsOf(s)[k] >= 0 /\ SumsOf(s)[k] <= Total(s)
  <1> DEFINE last == Len(s)
             sum == SumsOf(s)
             I == {n \in Nat : n <= last => sum[n] >= 0 /\ (k <= n => sum[k] <= sum[n])}
  <1>1. /\ last \in Nat /\ k \in 0 .. last /\ sum \in [0 .. last -> Int] /\ sum[0] = 0
        /\ \A n \in 1 .. last : sum[n] = sum[n - 1] + s[n]
    BY SumsExist, LenProperties
  <1>2. \A i \in 1 .. last : s[i] \in Int /\ s[i] >= 0
    BY ElementOfSeq
  <1> HIDE DEF last, sum
  <1>3. 0 \in I
    BY <1>1
  <1>4. ASSUME NEW n \in Nat, n \in I PROVE n + 1 \in I
    <2> SUFFICES ASSUME n + 1 <= last
                 PROVE  sum[n + 1] >= 0 /\ (k <= n + 1 => sum[k] <= sum[n + 1])
      OBVIOUS
    <2>1. n + 1 \in 1 .. last /\ n + 1 - 1 = n /\ n \in 0 .. last
      BY <1>1
    <2>2. sum[n + 1] = sum[n] + s[n + 1]
      BY <1>1, <2>1
    <2>3. sum[n] \in Int /\ sum[k] \in Int /\ sum[n + 1] \in Int
          /\ s[n + 1] \in Int /\ s[n + 1] >= 0
      BY <1>1, <1>2, <2>1
    <2>4. sum[n] >= 0 /\ (k <= n => sum[k] <= sum[n])
      BY <1>1, <1>4, <2>1
    <2>5. sum[n + 1] >= 0 /\ sum[n + 1] >= sum[n]
      <3> DEFINE a == sum[n]
                 c == s[n + 1]
      <3>1. a \in Int /\ c \in Int /\ c >= 0 /\ a >= 0 /\ sum[n + 1] = a + c
        BY <1>1, <2>1, <2>2, <2>3, <2>4
      <3> HIDE DEF a, c
      <3>2. sum[n + 1] >= 0 /\ sum[n + 1] >= a
        BY <3>1
      <3> QED
        BY <3>2 DEF a
    <2>6. CASE k <= n
      BY <1>1, <2>1, <2>3, <2>4, <2>5, <2>6
    <2>7. CASE ~(k <= n)
      <3>1. k <= n + 1 => k = n + 1
        BY <1>1, <2>7
      <3> QED
        BY <2>3, <2>5, <3>1
    <2> QED
      BY <2>6, <2>7
  <1> HIDE DEF I
  <1>5. k \in I /\ last \in I
    <2>1. Nat \subseteq I
      BY <1>3, <1>4, Induction
    <2> QED
      BY <1>1, <2>1
  <1> QED
    BY <1>1, <1>5 DEF I, Total, sum, last

LEMMA CountsTyped ==
  ASSUME counts \in Counts
  PROVE  /\ Len(counts.batches) \in Nat /\ DOMAIN counts.batches = 1 .. Len(counts.batches)
         /\ \A b \in 1 .. Len(counts.batches) :
              counts.batches[b] \in Seq(CountNumbers \union {Null})
         /\ counts.isCount \in BOOLEAN /\ counts.isInteger \in BOOLEAN
         /\ counts.fails \in BOOLEAN
         /\ Len(counts.batches) = 0 => counts.batches = <<>>
  <1>1. ASSUME NEW S, NEW n \in Nat, NEW s \in Sequences(S, n)
        PROVE  s \in Seq(S)
    <2>1. PICK k \in 0 .. n : s \in [1 .. k -> S]
      BY DEF Sequences
    <2>2. k \in Nat
      BY <2>1
    <2> QED
      BY <2>1, <2>2, FunctionIsSeq
  <1>2. MaxColumn \in Nat /\ MaxCounts \in Nat
        /\ CountValues \subseteq CountNumbers \union {Null}
    BY CountAssumption DEF CountNumbers
  <1>3. /\ counts.batches \in Sequences(Sequences(CountValues, MaxColumn), MaxCounts)
        /\ counts.isCount \in BOOLEAN /\ counts.isInteger \in BOOLEAN
        /\ counts.fails \in BOOLEAN
    BY DEF Counts
  <1>4. counts.batches \in Seq(Sequences(CountValues, MaxColumn))
    BY <1>1, <1>2, <1>3
  <1>5. /\ Len(counts.batches) \in Nat /\ DOMAIN counts.batches = 1 .. Len(counts.batches)
        /\ Len(counts.batches) = 0 => counts.batches = <<>>
    BY <1>4, LenProperties, EmptySeq
  <1>6. ASSUME NEW b \in 1 .. Len(counts.batches)
        PROVE  counts.batches[b] \in Seq(CountNumbers \union {Null})
    <2> DEFINE column == counts.batches[b]
    <2>1. column \in Sequences(CountValues, MaxColumn)
      BY <1>4, ElementOfSeq
    <2> HIDE DEF column
    <2>2. PICK k \in 0 .. MaxColumn : column \in [1 .. k -> CountValues]
      BY <2>1 DEF Sequences
    <2>3. k \in Nat
      BY <1>2
    <2>4. column \in [1 .. k -> CountNumbers \union {Null}]
      BY <1>2, <2>2
    <2>5. column \in Seq(CountNumbers \union {Null})
      BY <2>3, <2>4, FunctionIsSeq
    <2> QED
      BY <2>5 DEF column
  <1> QED
    BY <1>3, <1>5, <1>6

(* The sums of the batches.                                                *)
LEMMA BatchesSummed ==
  ASSUME counts \in Counts
  PROVE  /\ BatchSums \in Seq(Int) /\ Len(BatchSums) = Len(counts.batches)
         /\ SumsOf(BatchSums)[0] = 0
         /\ \A b \in 1 .. Len(counts.batches) :
              /\ SummedTo(counts.batches[b], Len(counts.batches[b]))
              /\ SumsOf(BatchSums)[b - 1] \in Int
              /\ SumsOf(BatchSums)[b] = SumsOf(BatchSums)[b - 1] + Total(Plain(counts.batches[b]))
              /\ AllPositive => /\ Positive(counts.batches[b])
                                /\ SumsOf(BatchSums)[b] >= 0
                                /\ SumsOf(BatchSums)[b] <= Total(BatchSums)
  <1> DEFINE last == Len(counts.batches)
             exact(b) == Total(Plain(counts.batches[b]))
  <1>1. /\ last \in Nat /\ DOMAIN counts.batches = 1 .. last
        /\ \A b \in 1 .. last : counts.batches[b] \in Seq(CountNumbers \union {Null})
    BY CountsTyped
  <1>2. ASSUME NEW b \in 1 .. last
        PROVE  /\ SummedTo(counts.batches[b], Len(counts.batches[b]))
               /\ exact(b) \in Int
               /\ AllPositive => Positive(counts.batches[b]) /\ exact(b) >= 0
    <2> DEFINE column == counts.batches[b]
    <2>1. column \in Seq(CountNumbers \union {Null})
      BY <1>1
    <2>2. AllPositive => Positive(column)
      BY <1>1, <2>1, PlainTyped DEF AllPositive, Positive
    <2> HIDE DEF column
    <2>3. SummedTo(column, Len(column)) /\ Len(Plain(column)) = Len(column)
      BY <2>1, ColumnSummed, PlainTyped
    <2>4. Total(Plain(column)) \in Int /\ (Positive(column) => Total(Plain(column)) >= 0)
      BY <2>3 DEF SummedTo, Total
    <2> QED
      BY <2>2, <2>3, <2>4 DEF column
  <1>3. BatchSums = [b \in 1 .. last |-> exact(b)]
    BY <1>1 DEF BatchSums
  <1> HIDE DEF last, exact
  <1>4. BatchSums \in [1 .. last -> Int]
    BY <1>2, <1>3
  <1>5. BatchSums \in Seq(Int) /\ Len(BatchSums) = last
    BY <1>1, <1>4, FunctionIsSeq
  <1>6. /\ SumsOf(BatchSums) \in [0 .. last -> Int] /\ SumsOf(BatchSums)[0] = 0
        /\ \A b \in 1 .. last : SumsOf(BatchSums)[b] = SumsOf(BatchSums)[b - 1] + BatchSums[b]
    BY <1>5, SumsExist
  <1>7. \A b \in 1 .. last : BatchSums[b] = exact(b)
    BY <1>3
  <1>8. AllPositive => \A b \in 1 .. last : /\ SumsOf(BatchSums)[b] >= 0
                                           /\ SumsOf(BatchSums)[b] <= Total(BatchSums)
    <2> SUFFICES ASSUME AllPositive, NEW b \in 1 .. last
                 PROVE  /\ SumsOf(BatchSums)[b] >= 0 /\ SumsOf(BatchSums)[b] <= Total(BatchSums)
      OBVIOUS
    <2>1. \A i \in 1 .. Len(BatchSums) : BatchSums[i] >= 0
      BY <1>2, <1>5, <1>7
    <2>2. b \in 0 .. Len(BatchSums)
      BY <1>1, <1>5
    <2> QED
      BY <1>5, <2>1, <2>2, SumsGrow
  <1>9. \A b \in 1 .. last : SumsOf(BatchSums)[b - 1] \in Int
    <2>1. \A b \in 1 .. last : b - 1 \in 0 .. last
      BY <1>1
    <2> QED
      BY <1>6, <2>1
  <1> QED
    BY <1>2, <1>5, <1>6, <1>7, <1>8, <1>9 DEF last, exact

LEMMA CountInitially == CountInit => CountInv
  <1> SUFFICES ASSUME CountInit PROVE CountInv
    OBVIOUS
  <1> USE DEF CountInit, CountStart
  <1>1. SumsOf(BatchSums)[0] = 0 /\ 0 \in 0 .. Len(counts.batches)
    BY CountsTyped, BatchesSummed
  <1> QED
    BY <1>1, Numbers DEF CountInv, CountTypeOK, CountExact

(* A batch is added, refused, or ends a result that counts nothing.        *)
LEMMA ReadCountsStep == CountInv /\ ReadCounts => CountInv'
  <1> SUFFICES ASSUME CountInv, ReadCounts PROVE CountInv'
    OBVIOUS
  <1> DEFINE b == countsRead + 1
             column == counts.batches[b]
             count == SumIntegerArray(column)
             exact == Total(Plain(column))
             before == SumsOf(BatchSums)[countsRead]
             after == SumsOf(BatchSums)[b]
             last == Len(counts.batches)
             sum == Add(rowsAffected, count)
  <1>1. /\ counts \in Counts /\ countsRead \in 0 .. last /\ countsRead < last
        /\ last \in Nat /\ execAnswer = "reading" /\ rowsAffected \in Int64
        /\ rowsAffected = before /\ (~counts.isCount => countsRead = 0)
        /\ counts' = counts /\ countsRead' = b
    BY CountsTyped DEF CountInv, CountTypeOK, ReadCounts
  <1>2. b \in 1 .. last /\ b - 1 = countsRead /\ b \in 0 .. last
    BY <1>1
  <1>3. /\ SummedTo(column, Len(column)) /\ before \in Int /\ after = before + exact
        /\ AllPositive => Positive(column) /\ after >= 0 /\ after <= Total(BatchSums)
        /\ SumsOf(BatchSums)[0] = 0 /\ Total(BatchSums) \in Int
    <2>1. Total(BatchSums) \in Int
      <3>1. BatchSums \in Seq(Int)
        BY <1>1, BatchesSummed
      <3>2. SumsOf(BatchSums) \in [0 .. Len(BatchSums) -> Int] /\ Len(BatchSums) \in Nat
        BY <3>1, SumsExist, LenProperties
      <3>3. Len(BatchSums) \in 0 .. Len(BatchSums)
        BY <3>2
      <3> QED
        BY <3>2, <3>3 DEF Total
    <2> HIDE DEF last
    <2>2. SumsOf(BatchSums)[b - 1] = before
      BY <1>2
    <2> HIDE DEF b
    <2> QED
      BY <1>1, <1>2, <2>1, <2>2, BatchesSummed DEF last
  <1>4. /\ count \in SumOrError /\ exact \in Int /\ (count # Error => count = exact)
        /\ count = Error => ~counts.isInteger \/ ~Positive(column) \/ exact > MaxInt64
    <2>1. column \in Seq(CountNumbers \union {Null})
      BY <1>1, <1>2, CountsTyped
    <2> HIDE DEF column
    <2>2. Len(Plain(column)) = Len(column)
      BY <2>1, PlainTyped
    <2> QED
      BY <1>3, <2>2 DEF SummedTo, SumIntegerArray, Total
  <1>5. /\ \/ ~counts.isCount /\ execAnswer' = "done" /\ rowsAffected' = rowsAffected
           \/ counts.isCount /\ sum = Error /\ execAnswer' = "error"
              /\ rowsAffected' = rowsAffected
           \/ counts.isCount /\ sum # Error /\ rowsAffected' = sum /\ execAnswer' = execAnswer
    BY DEF ReadCounts
  <1>6. BatchSums' = BatchSums /\ AllPositive' = AllPositive
    BY <1>1 DEF BatchSums, AllPositive
  <1> HIDE DEF b, column, count, exact, after, last
  <1>7. CASE ~counts.isCount
    <2>1. execAnswer' = "done" /\ rowsAffected' = 0
      BY <1>1, <1>3, <1>5, <1>7
    <2> QED
      BY <1>1, <1>2, <1>6, <1>7, <2>1, Numbers
         DEF CountInv, CountTypeOK, CountExact, last
  <1>8. CASE counts.isCount /\ sum = Error
    <2>1. execAnswer' = "error" /\ rowsAffected' = rowsAffected
      BY <1>5, <1>8
    <2>2. ~counts.isInteger \/ ~AllPositive \/ Total(BatchSums) > MaxInt64
      <3> DEFINE total == Total(BatchSums)
      <3>1. /\ rowsAffected \in Int64 /\ rowsAffected \in Int /\ total \in Int
            /\ rowsAffected # Error /\ rowsAffected \in SumOrError
        BY <1>1, <1>3, Numbers, CellAssumption, ValuesAssumption DEF SumOrError
      <3>2. CASE count = Error
        <4>1. before >= 0 \/ ~AllPositive
          <5>1. CASE countsRead = 0
            BY <1>3, <5>1
          <5>2. CASE countsRead # 0
            <6>1. countsRead \in 1 .. last
              BY <1>1, <5>2
            <6> QED
              BY <1>1, <6>1, BatchesSummed DEF last
          <5> QED
            BY <5>1, <5>2
        <4> HIDE DEF before, total
        <4> QED
          BY <1>3, <1>4, <3>1, <3>2, <4>1, Numbers DEF total
      <3>3. CASE count # Error
        <4>1. rowsAffected + count \notin Int64 /\ count \in Int64
          BY <1>4, <1>8, <3>1, <3>3, AddExact, CellAssumption, ValuesAssumption, Numbers
        <4>2. rowsAffected + count = after
          BY <1>1, <1>3, <1>4, <3>3
        <4> HIDE DEF before, total
        <4> QED
          BY <1>3, <1>4, <3>1, <4>1, <4>2, Numbers DEF total
      <3> QED
        BY <3>2, <3>3
    <2> QED
      BY <1>1, <1>2, <1>6, <1>8, <2>1, <2>2 DEF CountInv, CountTypeOK, CountExact, last
  <1>9. CASE counts.isCount /\ sum # Error
    <2>1. execAnswer' = "reading" /\ rowsAffected' = sum
      BY <1>1, <1>5, <1>9
    <2>2. rowsAffected # Error /\ rowsAffected \in SumOrError
      BY <1>1, Numbers, CellAssumption, ValuesAssumption DEF SumOrError
    <2>3. sum \in Int64 /\ sum = after
      <3>1. count # Error
        BY <1>4, <1>9, <2>2, AddExact
      <3>2. sum = rowsAffected + count /\ sum \in Int64
        BY <1>4, <1>9, <2>2, <3>1, AddExact
      <3> HIDE DEF sum, before
      <3> QED
        BY <1>1, <1>3, <1>4, <3>1, <3>2
    <2> HIDE DEF sum
    <2> QED
      BY <1>1, <1>2, <1>6, <1>9, <2>1, <2>3
         DEF CountInv, CountTypeOK, CountExact, last, after
  <1> QED
    BY <1>5, <1>7, <1>8, <1>9

LEMMA ReadEndsStep == CountInv /\ ReadEnds => CountInv'
  <1> SUFFICES ASSUME CountInv, ReadEnds PROVE CountInv'
    OBVIOUS
  <1>1. BatchSums' = BatchSums /\ AllPositive' = AllPositive
    BY DEF ReadEnds, BatchSums, AllPositive
  <1>2. /\ counts \in Counts /\ countsRead = Len(counts.batches) /\ rowsAffected \in Int64
        /\ rowsAffected = SumsOf(BatchSums)[countsRead]
        /\ (~counts.isCount => countsRead = 0) /\ countsRead \in 0 .. Len(counts.batches)
        /\ counts' = counts /\ countsRead' = countsRead /\ rowsAffected' = rowsAffected
        /\ execAnswer' = IF counts.fails THEN "error" ELSE "done"
    BY DEF CountInv, CountTypeOK, ReadEnds
  <1>3. rowsAffected = Total(BatchSums) /\ (countsRead = 0 => rowsAffected = 0)
    BY <1>2, BatchesSummed DEF Total
  <1>4. ~counts.isCount => counts.batches = <<>>
    BY <1>2, CountsTyped
  <1>5. counts.fails \in BOOLEAN /\ counts.isCount \in BOOLEAN
    BY <1>2, CountsTyped
  <1>6. CountTypeOK'
    BY <1>2 DEF CountTypeOK
  <1>7. CountExact'
    BY <1>1, <1>2, <1>3, <1>4, <1>5 DEF CountExact
  <1> QED
    BY <1>2, <1>6, <1>7 DEF CountInv

(* The inductive invariant of RowsAffected: what execResult has summed is  *)
(* the exact sum of the batches it has read.                               *)
THEOREM CountInvariant == CountSpec => []CountInv
  <1>1. CountInv /\ UNCHANGED countVars => CountInv'
    BY DEF CountInv, CountTypeOK, CountExact, countVars, BatchSums, AllPositive
  <1>2. CountInv /\ [CountNext]_countVars => CountInv'
    BY <1>1, ReadCountsStep, ReadEndsStep DEF CountNext
  <1> QED
    BY <1>2, CountInitially, PTL DEF CountSpec

(* Numbers arrive exactly or as errors, and the affected rows are the exact*)
(* sum of any result's counts, without a wrapped addition (rows.go,        *)
(* result.go).                                                             *)
THEOREM NumbersAreExact == CellSpec /\ CountSpec => []NumbersExact
  <1>1. CellTypeOK /\ CellExact /\ CountInv => NumbersExact
    BY DEF NumbersExact, CountInv
  <1> QED
    BY <1>1, CellsCorrect, CountInvariant, PTL

(***************************************************************************)
(* Parameters.                                                             *)
(***************************************************************************)

(* n, ten times n, a hundred times n, ...                                  *)
LEMMA TensExist ==
  ASSUME NEW n \in Nat, NEW last \in Nat
  PROVE  /\ TensOf(n, last) \in [0 .. last -> Nat]
         /\ TensOf(n, last)[0] = n
         /\ \A k \in 1 .. last : TensOf(n, last)[k] = 10 * TensOf(n, last)[k - 1]
  <1> DEFINE step == [p \in (1 .. last) \X Nat |-> 10 * p[2]]
             Next_(f, k) == IF k = 0 THEN n ELSE 10 * f[k - 1]
  <1>1. step \in [(1 .. last) \X Nat -> Nat]
    OBVIOUS
  <1>2. \A k \in 1 .. last, v \in Nat : step[<<k, v>>] = 10 * v
    OBVIOUS
  <1> HIDE DEF step
  <1>3. PICK f : Recursive(f, Nat, n, last, step)
    <2> DEFINE V == Nat
    <2>1. n \in V /\ last \in Nat /\ step \in [(1 .. last) \X V -> V]
      BY <1>1
    <2> HIDE DEF V
    <2>2. \E f : Recursive(f, V, n, last, step)
      BY <2>1, Recursion
    <2> QED
      BY <2>2 DEF V
  <1>4. ASSUME NEW k \in 1 .. last
        PROVE  k - 1 \in 0 .. last /\ f[k] = 10 * f[k - 1]
    <2>1. k - 1 \in 0 .. last
      OBVIOUS
    <2>2. f \in [0 .. last -> Nat] /\ f[k] = step[<<k, f[k - 1]>>]
      BY <1>3 DEF Recursive
    <2>3. f[k - 1] \in Nat
      BY <2>1, <2>2
    <2> QED
      BY <1>2, <2>1, <2>2, <2>3
  <1>5. f = [k \in 0 .. last |-> Next_(f, k)]
    <2>1. \A k \in 0 .. last : f[k] = Next_(f, k)
      BY <1>3, <1>4 DEF Recursive
    <2> HIDE DEF Next_
    <2> QED
      BY <1>3, <2>1 DEF Recursive
  <1> DEFINE g == TensOf(n, last)
  <1>6. g = [k \in 0 .. last |-> Next_(g, k)]
    BY <1>5 DEF TensOf
  <1>7. g[0] = n /\ \A k \in 1 .. last : g[k] = 10 * g[k - 1]
    BY <1>6
  <1>8. DOMAIN g = 0 .. last /\ g = [k \in 0 .. last |-> g[k]]
    BY <1>6
  <1> HIDE DEF g
  <1> DEFINE I == {k \in Nat : k <= last => g[k] \in Nat}
  <1>9. 0 \in I
    BY <1>7
  <1>10. ASSUME NEW k \in Nat, k \in I PROVE k + 1 \in I
    <2> SUFFICES ASSUME k + 1 <= last PROVE g[k + 1] \in Nat
      OBVIOUS
    <2>1. g[k] \in Nat /\ k + 1 \in 1 .. last /\ k + 1 - 1 = k
      BY <1>10
    <2>2. g[k + 1] = 10 * g[k]
      BY <1>7, <2>1
    <2> QED
      BY <2>1, <2>2
  <1>11. \A k \in 0 .. last : g[k] \in Nat
    <2> HIDE DEF I
    <2>1. Nat \subseteq I
      BY <1>9, <1>10, Induction
    <2> QED
      BY <2>1 DEF I
  <1>12. g \in [0 .. last -> Nat]
    BY <1>8, <1>11
  <1> QED
    BY <1>7, <1>12 DEF g

LEMMA TensAgree ==
  ASSUME NEW n \in Nat, NEW last \in Nat, NEW k \in 0 .. last
  PROVE  TensOf(n, last)[k] = TimesTen(n, k)
  <1> DEFINE f == TensOf(n, last)
             g == TensOf(n, k)
             I == {j \in Nat : j <= k => f[j] = g[j]}
  <1>1. /\ f[0] = n /\ \A j \in 1 .. last : f[j] = 10 * f[j - 1]
        /\ g[0] = n /\ \A j \in 1 .. k : g[j] = 10 * g[j - 1]
    <2>1. k \in Nat
      OBVIOUS
    <2>2. /\ f[0] = n /\ \A j \in 1 .. last : f[j] = 10 * f[j - 1]
      BY TensExist
    <2>3. /\ g[0] = n /\ \A j \in 1 .. k : g[j] = 10 * g[j - 1]
      BY <2>1, TensExist
    <2> QED
      BY <2>2, <2>3
  <1> HIDE DEF f, g
  <1>2. 0 \in I
    BY <1>1
  <1>3. ASSUME NEW j \in Nat, j \in I PROVE j + 1 \in I
    <2> SUFFICES ASSUME j + 1 <= k PROVE f[j + 1] = g[j + 1]
      OBVIOUS
    <2>1. f[j] = g[j] /\ j + 1 \in 1 .. k /\ j + 1 \in 1 .. last /\ j + 1 - 1 = j
      BY <1>3
    <2> QED
      BY <1>1, <2>1
  <1>4. k \in I
    <2> HIDE DEF I
    <2> QED
      BY <1>2, <1>3, Induction
  <1> QED
    BY <1>4 DEF f, g, TimesTen

LEMMA TenTimes ==
  ASSUME NEW n \in Nat, NEW k \in Nat
  PROVE  /\ TimesTen(n, k) \in Nat /\ TimesTen(n, 0) = n
         /\ TimesTen(n, k + 1) = 10 * TimesTen(n, k)
  <1>1. TensOf(n, k) \in [0 .. k -> Nat]
    BY TensExist
  <1>2. TimesTen(n, k) \in Nat
    <2>1. k \in 0 .. k
      OBVIOUS
    <2> QED
      BY <1>1, <2>1 DEF TimesTen
  <1>3. TimesTen(n, 0) = n
    BY TensExist DEF TimesTen
  <1>4. TensOf(n, k + 1)[k + 1] = 10 * TensOf(n, k + 1)[k]
    <2>1. k + 1 \in 1 .. k + 1 /\ k + 1 \in Nat /\ k + 1 - 1 = k
      OBVIOUS
    <2> QED
      BY <2>1, TensExist
  <1>5. TensOf(n, k + 1)[k] = TimesTen(n, k)
    BY TensAgree
  <1> QED
    BY <1>2, <1>3, <1>4, <1>5 DEF TimesTen

LEMMA TensGrow ==
  ASSUME NEW k \in Nat, NEW m \in Nat, k <= m
  PROVE  TimesTen(1, k) >= 1 /\ TimesTen(1, k) <= TimesTen(1, m)
  <1> DEFINE t(i) == TimesTen(1, i)
             P == {i \in Nat : t(i) >= 1}
             I == {i \in Nat : k <= i => t(k) <= t(i)}
  <1>1. \A i \in Nat : t(i) \in Nat /\ t(0) = 1 /\ t(i + 1) = 10 * t(i)
    BY TenTimes
  <1> HIDE DEF t
  <1>2. \A i \in Nat : t(i) >= 1
    <2>1. 0 \in P
      BY <1>1
    <2>2. \A i \in Nat : i \in P => i + 1 \in P
      BY <1>1
    <2> HIDE DEF P
    <2>3. Nat \subseteq P
      BY <2>1, <2>2, Induction
    <2> QED
      BY <2>3 DEF P
  <1>3. 0 \in I
    BY <1>1
  <1>4. ASSUME NEW i \in Nat, i \in I PROVE i + 1 \in I
    <2>1. CASE k <= i
      BY <1>1, <1>4, <2>1
    <2>2. CASE ~(k <= i)
      <3>1. k <= i + 1 => k = i + 1
        BY <2>2
      <3>2. t(i + 1) \in Nat
        BY <1>1
      <3> QED
        BY <3>1, <3>2
    <2> QED
      BY <2>1, <2>2
  <1>5. m \in I
    <2> HIDE DEF I
    <2> QED
      BY <1>3, <1>4, Induction
  <1> QED
    BY <1>2, <1>5 DEF t

Digits == 0 .. 9
Numeric == Digits \union {Dot}

LEMMA NumbersExist ==
  ASSUME NEW s \in Seq(Numeric)
  PROVE  /\ NumbersRead(s) \in [0 .. Len(s) -> Nat]
         /\ NumbersRead(s)[0] = 0
         /\ \A n \in 1 .. Len(s) : NumbersRead(s)[n] =
                IF s[n] = Dot THEN NumbersRead(s)[n - 1] ELSE 10 * NumbersRead(s)[n - 1] + s[n]
  <1> DEFINE last == Len(s)
             Grow(n, v) == IF s[n] = Dot THEN v ELSE 10 * v + s[n]
             step == [p \in (1 .. last) \X Nat |-> Grow(p[1], p[2])]
             Next_(f, n) == IF n = 0 THEN 0 ELSE IF s[n] = Dot THEN f[n - 1] ELSE 10 * f[n - 1] + s[n]
  <1>1. last \in Nat /\ \A n \in 1 .. last : s[n] \in Numeric
    BY ElementOfSeq, LenProperties
  <1> HIDE DEF last
  <1>2. \A n \in 1 .. last, v \in Nat : Grow(n, v) \in Nat
    BY <1>1 DEF Numeric, Digits
  <1> HIDE DEF Grow
  <1>3. step \in [(1 .. last) \X Nat -> Nat]
    BY <1>2
  <1>4. \A n \in 1 .. last, v \in Nat : step[<<n, v>>] = Grow(n, v)
    OBVIOUS
  <1> HIDE DEF step
  <1>5. PICK f : Recursive(f, Nat, 0, last, step)
    <2> DEFINE V == Nat
               zero == 0
    <2>1. zero \in V /\ last \in Nat /\ step \in [(1 .. last) \X V -> V]
      BY <1>1, <1>3
    <2> HIDE DEF V, zero
    <2>2. \E f : Recursive(f, V, zero, last, step)
      BY <2>1, Recursion
    <2> QED
      BY <2>2 DEF V, zero
  <1>6. ASSUME NEW n \in 1 .. last
        PROVE  n - 1 \in 0 .. last /\ f[n] = Grow(n, f[n - 1])
    <2>1. n - 1 \in 0 .. last
      BY <1>1
    <2>2. f \in [0 .. last -> Nat] /\ f[n] = step[<<n, f[n - 1]>>]
      BY <1>5 DEF Recursive
    <2>3. f[n - 1] \in Nat
      BY <2>1, <2>2
    <2> QED
      BY <1>4, <2>1, <2>2, <2>3
  <1>7. f = [n \in 0 .. last |-> Next_(f, n)]
    <2>1. \A n \in 0 .. last : f[n] = Next_(f, n)
      BY <1>1, <1>5, <1>6 DEF Recursive, Grow
    <2> HIDE DEF Next_
    <2> QED
      BY <1>5, <2>1 DEF Recursive
  <1> DEFINE g == NumbersRead(s)
  <1>8. g = [n \in 0 .. last |-> Next_(g, n)]
    BY <1>7 DEF NumbersRead, last
  <1>9. g[0] = 0 /\ \A n \in 1 .. last : g[n] = Grow(n, g[n - 1])
    BY <1>1, <1>8 DEF Grow
  <1>10. DOMAIN g = 0 .. last /\ g = [n \in 0 .. last |-> g[n]]
    BY <1>8
  <1> HIDE DEF g
  <1> DEFINE I == {n \in Nat : n <= last => g[n] \in Nat}
  <1>11. 0 \in I
    BY <1>9
  <1>12. ASSUME NEW n \in Nat, n \in I PROVE n + 1 \in I
    <2> SUFFICES ASSUME n + 1 <= last PROVE g[n + 1] \in Nat
      OBVIOUS
    <2>1. g[n] \in Nat /\ n + 1 \in 1 .. last /\ n + 1 - 1 = n
      BY <1>1, <1>12
    <2>2. g[n + 1] = Grow(n + 1, g[n])
      BY <1>9, <2>1
    <2> QED
      BY <1>2, <2>1, <2>2
  <1>13. \A n \in 0 .. last : g[n] \in Nat
    <2> HIDE DEF I
    <2>1. Nat \subseteq I
      BY <1>11, <1>12, Induction
    <2> QED
      BY <1>1, <2>1 DEF I
  <1>14. g \in [0 .. last -> Nat]
    BY <1>10, <1>13
  <1> QED
    BY <1>9, <1>14 DEF g, last, Grow

(* Zeros after digits.                                                     *)
LEMMA ZerosAre ==
  ASSUME NEW n \in Nat
  PROVE  Zeros(n) \in Seq(Digits) /\ Len(Zeros(n)) = n /\ \A i \in 1 .. n : Zeros(n)[i] = 0
  <1>1. Zeros(n) \in [1 .. n -> Digits]
    BY DEF Zeros, Digits
  <1>2. \A i \in 1 .. n : Zeros(n)[i] = 0
    BY DEF Zeros
  <1>3. Zeros(n) \in Seq(Digits) /\ Len(Zeros(n)) = n
    BY <1>1, FunctionIsSeq
  <1> QED
    BY <1>2, <1>3

LEMMA DigitsRead ==
  ASSUME NEW s \in Seq(Digits)
  PROVE  /\ s \in Seq(Numeric) /\ Len(s) \in Nat /\ \A n \in 1 .. Len(s) : s[n] \in Digits
         /\ NumbersRead(s) \in [0 .. Len(s) -> Nat] /\ NumbersRead(s)[0] = 0
         /\ \A n \in 1 .. Len(s) : NumbersRead(s)[n] = 10 * NumbersRead(s)[n - 1] + s[n]
         /\ NumberRead(s) \in Nat
  <1>1. Digits \subseteq Numeric
    BY DEF Numeric
  <1>2. s \in Seq(Numeric)
    BY <1>1, SeqMonotonic
  <1>3. Len(s) \in Nat /\ \A n \in 1 .. Len(s) : s[n] \in Digits
    BY LenProperties, ElementOfSeq
  <1>4. \A n \in 1 .. Len(s) : s[n] # Dot
    BY <1>3, ParameterAssumption DEF Digits
  <1>5. /\ NumbersRead(s) \in [0 .. Len(s) -> Nat] /\ NumbersRead(s)[0] = 0
        /\ \A n \in 1 .. Len(s) : NumbersRead(s)[n] = 10 * NumbersRead(s)[n - 1] + s[n]
    BY <1>2, <1>4, NumbersExist
  <1>6. NumberRead(s) \in Nat
    <2>1. Len(s) \in 0 .. Len(s)
      BY <1>3
    <2> QED
      BY <1>5, <2>1 DEF NumberRead
  <1> QED
    BY <1>2, <1>3, <1>5, <1>6

\* Sequences that begin alike read alike.
LEMMA ReadAgree ==
  ASSUME NEW s \in Seq(Numeric), NEW t \in Seq(Numeric), NEW n \in Nat,
         n <= Len(s), n <= Len(t), \A i \in 1 .. n : s[i] = t[i]
  PROVE  NumbersRead(s)[n] = NumbersRead(t)[n]
  <1> DEFINE f == NumbersRead(s)
             g == NumbersRead(t)
             I == {j \in Nat : j <= n => f[j] = g[j]}
  <1>1. Len(s) \in Nat /\ Len(t) \in Nat
    BY LenProperties
  <1>2. /\ f[0] = 0 /\ \A j \in 1 .. Len(s) : f[j] = IF s[j] = Dot THEN f[j - 1] ELSE 10 * f[j - 1] + s[j]
        /\ g[0] = 0 /\ \A j \in 1 .. Len(t) : g[j] = IF t[j] = Dot THEN g[j - 1] ELSE 10 * g[j - 1] + t[j]
    BY NumbersExist
  <1> HIDE DEF f, g
  <1>3. 0 \in I
    BY <1>2
  <1>4. ASSUME NEW j \in Nat, j \in I PROVE j + 1 \in I
    <2> SUFFICES ASSUME j + 1 <= n PROVE f[j + 1] = g[j + 1]
      OBVIOUS
    <2>1. f[j] = g[j] /\ j + 1 \in 1 .. Len(s) /\ j + 1 \in 1 .. Len(t) /\ j + 1 \in 1 .. n /\ j + 1 - 1 = j
      BY <1>1, <1>4
    <2>2. s[j + 1] = t[j + 1]
      BY <2>1
    <2> QED
      BY <1>2, <2>1, <2>2
  <1>5. n \in I
    <2> HIDE DEF I
    <2> QED
      BY <1>3, <1>4, Induction
  <1> QED
    BY <1>5 DEF f, g

LEMMA Padded ==
  ASSUME NEW s \in Seq(Digits), NEW k \in Nat
  PROVE  NumberRead(s \o Zeros(k)) = TimesTen(NumberRead(s), k)
  <1> DEFINE t == s \o Zeros(k)
             L == Len(s)
             z == Zeros(k)
             f == NumbersRead(t)
             N == NumberRead(s)
             ten(j) == TimesTen(N, j)
             I == {j \in Nat : j <= k => f[L + j] = ten(j)}
  <1>1. z \in Seq(Digits) /\ Len(z) = k /\ \A i \in 1 .. k : z[i] = 0
    BY ZerosAre
  <1>2. t \in Seq(Digits) /\ Len(t) = L + k /\ L \in Nat
    <2>1. L \in Nat
      BY LenProperties
    <2> HIDE DEF z, L
    <2> QED
      BY <1>1, <2>1, ConcatProperties DEF z, L
  <1>3. \A i \in 1 .. L + k : t[i] = IF i <= L THEN s[i] ELSE z[i - L]
    <2> HIDE DEF z
    <2> QED
      BY <1>1, ConcatProperties DEF z
  <1>4. N \in Nat
    BY DigitsRead
  <1>5. \A j \in Nat : ten(j) \in Nat /\ ten(0) = N /\ ten(j + 1) = 10 * ten(j)
    <2> HIDE DEF N
    <2> QED
      BY <1>4, TenTimes
  <1>6. f[L] = N
    <2>1. s \in Seq(Numeric) /\ t \in Seq(Numeric)
      <3> HIDE DEF t
      <3> QED
        BY <1>2, DigitsRead
    <2>2. L <= Len(s) /\ L <= Len(t) /\ L \in Nat
      <3> HIDE DEF t
      <3> QED
        BY <1>1, <1>2
    <2>3. \A i \in 1 .. L : s[i] = t[i]
      <3> HIDE DEF t, L, z
      <3> QED
        BY <1>2, <1>3
    <2>4. NumbersRead(s)[L] = NumbersRead(t)[L]
      <3> HIDE DEF t, L
      <3> QED
        BY <2>1, <2>2, <2>3, ReadAgree
    <2> QED
      BY <2>4 DEF NumberRead
  <1>7. \A n \in 1 .. L + k : f[n] = 10 * f[n - 1] + t[n]
    <2> HIDE DEF t, L
    <2> QED
      BY <1>2, DigitsRead
  <1> HIDE DEF t, L, z, f, N, ten
  <1>8. 0 \in I
    <2>1. L + 0 = L
      BY <1>2
    <2>2. f[L + 0] = ten(0)
      BY <1>5, <1>6, <2>1
    <2> QED
      BY <2>2
  <1>9. ASSUME NEW j \in Nat, j \in I PROVE j + 1 \in I
    <2> SUFFICES ASSUME j + 1 <= k PROVE f[L + (j + 1)] = ten(j + 1)
      OBVIOUS
    <2>1. f[L + j] = ten(j)
      BY <1>9
    <2> DEFINE m == L + (j + 1)
    <2>2. m \in 1 .. L + k /\ m - 1 = L + j /\ m - L = j + 1 /\ j + 1 \in 1 .. k /\ ~(m <= L)
      BY <1>2
    <2> HIDE DEF m
    <2>3. t[m] = z[m - L]
      BY <1>3, <2>2
    <2>4. t[m] = 0
      BY <1>1, <2>2, <2>3
    <2>5. f[m] = 10 * f[m - 1] + 0
      BY <1>7, <2>2, <2>4
    <2>6. ten(j) \in Nat /\ ten(j + 1) = 10 * ten(j)
      BY <1>5
    <2>7. f[m] = ten(j + 1)
      BY <2>1, <2>2, <2>5, <2>6
    <2> QED
      BY <2>7 DEF m
  <1>10. k \in I
    <2> HIDE DEF I
    <2> QED
      BY <1>8, <1>9, Induction
  <1>11. f[L + k] = ten(k)
    BY <1>10
  <1> QED
    BY <1>2, <1>11 DEF f, t, L, N, ten, NumberRead

(* As many digits, as large a number.                                      *)
LEMMA LeastChosen ==
  ASSUME NEW T \in SUBSET Nat, T # {}
  PROVE  LET least == CHOOSE i \in T : \A j \in T : i <= j
         IN  least \in T /\ \A j \in T : least <= j
  BY LeastNumber

LEMMA ZerosRead ==
  ASSUME NEW s \in Seq(Digits), NEW n \in Nat, n <= Len(s), \A i \in 1 .. n : s[i] = 0
  PROVE  NumbersRead(s)[n] = 0
  <1> DEFINE f == NumbersRead(s)
             I == {j \in Nat : j <= n => f[j] = 0}
  <1>1. Len(s) \in Nat /\ f[0] = 0 /\ \A j \in 1 .. Len(s) : f[j] = 10 * f[j - 1] + s[j]
    BY DigitsRead
  <1> HIDE DEF f
  <1>2. 0 \in I
    BY <1>1
  <1>3. ASSUME NEW j \in Nat, j \in I PROVE j + 1 \in I
    <2> SUFFICES ASSUME j + 1 <= n PROVE f[j + 1] = 0
      OBVIOUS
    <2>1. f[j] = 0 /\ j + 1 \in 1 .. Len(s) /\ j + 1 \in 1 .. n /\ j + 1 - 1 = j
      BY <1>1, <1>3
    <2>2. s[j + 1] = 0
      BY <2>1
    <2>3. f[j + 1] = 10 * f[j] + s[j + 1]
      BY <1>1, <2>1
    <2> QED
      BY <2>1, <2>2, <2>3
  <1>4. n \in I
    <2> HIDE DEF I
    <2> QED
      BY <1>2, <1>3, Induction
  <1> QED
    BY <1>4 DEF f

LEMMA Sized ==
  ASSUME NEW s \in Seq(Digits)
  PROVE  LET n == Significant(s)
         IN  /\ n \in Nat
             /\ n = 0 => NumberRead(s) = 0
             /\ n # 0 => TimesTen(1, n - 1) <= NumberRead(s) /\ NumberRead(s) < TimesTen(1, n)
  <1> DEFINE L == Len(s)
             f == NumbersRead(s)
             nonzero == {i \in DOMAIN s : s[i] # 0}
             ten(k) == TimesTen(1, k)
  <1>1. /\ L \in Nat /\ DOMAIN s = 1 .. L /\ \A i \in 1 .. L : s[i] \in 0 .. 9
        /\ f[0] = 0 /\ \A j \in 1 .. L : f[j] \in Nat /\ f[j] = 10 * f[j - 1] + s[j]
    <2>1. DOMAIN s = 1 .. L
      BY LenProperties
    <2> QED
      BY <2>1, DigitsRead DEF Digits
  <1>2. NumberRead(s) = f[L]
    BY DEF NumberRead
  <1>3. \A k \in Nat : ten(k) \in Nat /\ ten(0) = 1 /\ ten(k + 1) = 10 * ten(k)
    BY TenTimes
  <1>4. CASE nonzero = {}
    <2>1. \A i \in 1 .. L : s[i] = 0
      BY <1>1, <1>4
    <2>2. f[L] = 0
      <3>1. L \in Nat /\ L <= Len(s) /\ \A i \in 1 .. L : s[i] = 0
        BY <1>1, <2>1
      <3> HIDE DEF L
      <3> QED
        BY <3>1, ZerosRead
    <2>3. Significant(s) = 0
      BY <1>4 DEF Significant
    <2> QED
      BY <1>2, <2>2, <2>3
  <1>5. CASE nonzero # {}
    <2> DEFINE p == CHOOSE i \in nonzero : \A j \in nonzero : i <= j
    <2>1. p \in nonzero /\ \A j \in nonzero : p <= j
      <3>1. nonzero \in SUBSET Nat
        BY <1>1
      <3> HIDE DEF nonzero
      <3> QED
        BY <1>5, <3>1, LeastChosen
    <2>2. Significant(s) = L - p + 1
      BY <1>5 DEF Significant
    <2> HIDE DEF p, f, ten
    <2>3. p \in 1 .. L /\ s[p] \in 1 .. 9 /\ \A i \in 1 .. p - 1 : s[i] = 0
      <3>1. p \in 1 .. L /\ s[p] \in 0 .. 9 /\ s[p] # 0
        BY <1>1, <2>1
      <3>2. ASSUME NEW i \in 1 .. p - 1 PROVE s[i] = 0
        <4>1. i \in 1 .. L /\ ~(p <= i)
          BY <1>1, <3>1
        <4> QED
          BY <1>1, <2>1, <4>1
      <3> QED
        BY <3>1, <3>2
    <2>4. f[p - 1] = 0
      <3>1. p - 1 \in Nat /\ p - 1 <= Len(s)
        BY <1>1, <2>3
      <3> QED
        BY <2>3, <3>1, ZerosRead DEF f
    <2>5. f[p] = s[p]
      BY <1>1, <2>3, <2>4
    <2> DEFINE J == {j \in Nat : p + j <= L => ten(j) <= f[p + j] /\ f[p + j] < ten(j + 1)}
    <2>6. 0 \in J
      <3>1. p + 0 = p /\ ten(0) = 1 /\ ten(0 + 1) = 10
        BY <1>3, <2>3
      <3> QED
        BY <2>3, <2>5, <3>1
    <2>7. ASSUME NEW j \in Nat, j \in J PROVE j + 1 \in J
      <3> SUFFICES ASSUME p + (j + 1) <= L
                   PROVE  ten(j + 1) <= f[p + (j + 1)] /\ f[p + (j + 1)] < ten(j + 1 + 1)
        OBVIOUS
      <3> DEFINE m == p + (j + 1)
                 q == p + j
      <3>1. m \in 1 .. L /\ m - 1 = q /\ q \in 1 .. L
        BY <1>1, <2>3
      <3>2. ten(j) <= f[q] /\ f[q] < ten(j + 1)
        <4>1. q <= L
          BY <1>1, <2>3
        <4> QED
          BY <2>7, <4>1
      <3> HIDE DEF m, q
      <3>3. f[m] = 10 * f[q] + s[m] /\ s[m] \in 0 .. 9 /\ f[q] \in Nat
        BY <1>1, <3>1
      <3>4. /\ ten(j) \in Nat /\ ten(j + 1) \in Nat /\ ten(j + 1) = 10 * ten(j)
            /\ ten(j + 1 + 1) = 10 * ten(j + 1)
        <4>1. j + 1 \in Nat
          OBVIOUS
        <4> QED
          BY <1>3, <4>1
      <3>5. ten(j + 1) <= f[m] /\ f[m] < ten(j + 1 + 1)
        <4> DEFINE a == ten(j)
                   b == ten(j + 1)
                   c == ten(j + 1 + 1)
                   u == f[q]
                   d == s[m]
        <4>1. a \in Nat /\ b \in Nat /\ b = 10 * a /\ c = 10 * b /\ u \in Nat /\ d \in 0 .. 9
              /\ a <= u /\ u < b /\ f[m] = 10 * u + d
          BY <3>2, <3>3, <3>4
        <4> HIDE DEF a, b, c, u, d
        <4> QED
          BY <4>1 DEF b, c
      <3> QED
        BY <3>5 DEF m
    <2>8. L - p \in J
      <3>1. L - p \in Nat
        BY <1>1, <2>3
      <3> HIDE DEF J
      <3> QED
        BY <2>6, <2>7, <3>1, Induction
    <2>9. p + (L - p) = L /\ L - p + 1 \in Nat /\ L - p + 1 # 0 /\ L - p + 1 - 1 = L - p
      BY <1>1, <2>3
    <2>10. ten(L - p) <= f[L] /\ f[L] < ten(L - p + 1)
      BY <1>1, <2>8, <2>9
    <2>11. Significant(s) \in Nat /\ Significant(s) # 0 /\ Significant(s) - 1 = L - p
      BY <1>1, <2>2, <2>3
    <2>12. ten(Significant(s) - 1) <= NumberRead(s) /\ NumberRead(s) < ten(Significant(s))
      BY <1>2, <2>2, <2>10, <2>11
    <2> QED
      BY <2>11, <2>12 DEF ten
  <1> QED
    BY <1>4, <1>5

LEMMA TooMany ==
  ASSUME NEW s \in Seq(Digits), NEW precision \in Nat, precision # 0
  PROVE  TooManyDigits(s, precision) <=> ~(NumberRead(s) < TimesTen(1, precision))
  <1> DEFINE n == Significant(s)
             v == NumberRead(s)
             ten(k) == TimesTen(1, k)
  <1>1. /\ n \in Nat
        /\ n = 0 => v = 0
        /\ n # 0 => ten(n - 1) <= v /\ v < ten(n)
    BY Sized
  <1>2. v \in Nat /\ \A k \in Nat : ten(k) \in Nat
    BY DigitsRead, TenTimes
  <1>3. ten(precision) >= 1
    BY TensGrow
  <1>4. TooManyDigits(s, precision) <=> (IF n = 0 THEN 1 ELSE n) > precision
    BY DEF TooManyDigits
  <1>5. n # 0 /\ n > precision => ten(precision) <= ten(n - 1)
    <2> SUFFICES ASSUME n # 0, n > precision PROVE ten(precision) <= ten(n - 1)
      OBVIOUS
    <2> HIDE DEF n
    <2>1. n - 1 \in Nat /\ precision <= n - 1
      BY <1>1
    <2> QED
      BY <2>1, TensGrow
  <1>6. n # 0 /\ n <= precision => ten(n) <= ten(precision)
    BY <1>1, TensGrow
  <1> HIDE DEF n, v, ten
  <1> DEFINE fits == v < ten(precision)
             many == (IF n = 0 THEN 1 ELSE n) > precision
  <1>7. CASE n = 0
    <2>1. fits
      BY <1>1, <1>2, <1>3, <1>7
    <2>2. ~many
      BY <1>7
    <2> QED
      BY <1>4, <2>1, <2>2 DEF v, ten
  <1>8. CASE n # 0 /\ n > precision
    <2>1. n - 1 \in Nat
      BY <1>1, <1>8
    <2>2. ten(n - 1) \in Nat /\ ten(precision) \in Nat
      BY <1>2, <2>1
    <2>3. ten(precision) <= ten(n - 1) /\ ten(n - 1) <= v
      BY <1>1, <1>5, <1>8
    <2>4. ~fits
      BY <1>2, <2>2, <2>3
    <2>5. many
      BY <1>8
    <2> QED
      BY <1>4, <2>4, <2>5 DEF v, ten
  <1>9. CASE n # 0 /\ n <= precision
    <2>1. ten(n) \in Nat /\ ten(precision) \in Nat
      BY <1>1, <1>2
    <2>2. v < ten(n) /\ ten(n) <= ten(precision)
      BY <1>1, <1>6, <1>9
    <2>3. fits
      BY <1>2, <2>1, <2>2
    <2>4. ~many
      BY <1>1, <1>9
    <2> QED
      BY <1>4, <2>3, <2>4 DEF v, ten
  <1>10. n > precision \/ n <= precision
    BY <1>1
  <1> QED
    BY <1>7, <1>8, <1>9, <1>10

Parts(body) == IntPart(body) \o FracPart(body)

(* The two parts of a text are the text without its first dot.             *)
LEMMA Pieces ==
  ASSUME NEW C, NEW body \in Seq(C)
  PROVE  LET d == FirstDot(body)
             w == Parts(body)
         IN  /\ FracPart(body) \in Seq(C) /\ IntPart(body) \in Seq(C) /\ w \in Seq(C)
             /\ Dots(body) = {} => w = body /\ Len(FracPart(body)) = 0
             /\ Dots(body) # {} =>
                  /\ d \in 1 .. Len(body) /\ body[d] = Dot /\ \A j \in Dots(body) : d <= j
                  /\ Len(w) = Len(body) - 1 /\ Len(FracPart(body)) = Len(body) - d
                  /\ \A i \in 1 .. Len(w) : w[i] = IF i < d THEN body[i] ELSE body[i + 1]
  <1> DEFINE d == FirstDot(body)
             w == Parts(body)
             L == Len(body)
             int == IntPart(body)
             frac == FracPart(body)
  <1>1. L \in Nat /\ DOMAIN body = 1 .. L /\ \A i \in 1 .. L : body[i] \in C
    BY LenProperties, ElementOfSeq
  <1>2. CASE Dots(body) = {}
    <2>1. int = body /\ frac = <<>>
      BY <1>2 DEF IntPart, FracPart
    <2>2. w = body
      BY <2>1, ConcatEmptySeq DEF Parts
    <2>3. frac \in Seq(C) /\ Len(frac) = 0
      BY <2>1, EmptySeq
    <2> QED
      BY <1>2, <2>1, <2>2, <2>3
  <1>3. CASE Dots(body) # {}
    <2>1. Dots(body) \in SUBSET Nat
      BY <1>1 DEF Dots
    <2>2. d \in Dots(body) /\ \A j \in Dots(body) : d <= j
      BY <1>3, <2>1, LeastChosen DEF FirstDot
    <2>3. d \in 1 .. L /\ body[d] = Dot
      BY <1>1, <2>2 DEF Dots
    <2>4. int = SubSeq(body, 1, d - 1) /\ frac = SubSeq(body, d + 1, L)
      BY <1>3 DEF IntPart, FracPart
    <2> HIDE DEF d, L
    <2>5. int \in Seq(C) /\ Len(int) = d - 1 /\ \A i \in 1 .. d - 1 : int[i] = body[i]
      <3>1. 1 \in Int /\ d - 1 \in Int /\ \A i \in 1 .. d - 1 : body[i] \in C
        BY <1>1, <2>3
      <3>2. /\ int \in Seq(C) /\ Len(int) = IF 1 <= d - 1 THEN (d - 1) - 1 + 1 ELSE 0
            /\ \A i \in 1 .. (d - 1) - 1 + 1 : int[i] = body[1 + i - 1]
        BY <2>4, <3>1, SubSeqProperties
      <3> HIDE DEF int
      <3> QED
        BY <1>1, <2>3, <3>2
    <2>6. frac \in Seq(C) /\ Len(frac) = L - d /\ \A i \in 1 .. L - d : frac[i] = body[d + i]
      <3>1. d + 1 \in Int /\ L \in Int /\ \A i \in d + 1 .. L : body[i] \in C
        BY <1>1, <2>3
      <3>2. /\ frac \in Seq(C) /\ Len(frac) = IF d + 1 <= L THEN L - (d + 1) + 1 ELSE 0
            /\ \A i \in 1 .. L - (d + 1) + 1 : frac[i] = body[(d + 1) + i - 1]
        BY <2>4, <3>1, SubSeqProperties
      <3> HIDE DEF frac
      <3>3. ASSUME NEW i \in 1 .. L - d PROVE frac[i] = body[d + i]
        <4>1. i \in 1 .. L - (d + 1) + 1 /\ (d + 1) + i - 1 = d + i
          BY <1>1, <2>3
        <4> QED
          BY <3>2, <4>1
      <3> QED
        BY <1>1, <2>3, <3>2, <3>3
    <2> HIDE DEF int, frac
    <2>7. /\ w \in Seq(C) /\ Len(w) = Len(int) + Len(frac)
          /\ \A i \in 1 .. Len(int) + Len(frac) :
                w[i] = IF i <= Len(int) THEN int[i] ELSE frac[i - Len(int)]
      BY <2>5, <2>6, ConcatProperties DEF Parts, int, frac
    <2> HIDE DEF w
    <2>8. Len(w) = L - 1
      BY <1>1, <2>3, <2>5, <2>6, <2>7
    <2>9. ASSUME NEW i \in 1 .. L - 1 PROVE w[i] = IF i < d THEN body[i] ELSE body[i + 1]
      <3>1. i \in 1 .. Len(int) + Len(frac)
        BY <1>1, <2>3, <2>5, <2>6
      <3>2. CASE i < d
        <4>1. i \in 1 .. d - 1 /\ i <= Len(int)
          BY <1>1, <2>3, <2>5, <3>2
        <4> QED
          BY <2>5, <2>7, <3>1, <3>2, <4>1
      <3>3. CASE ~(i < d)
        <4>1. /\ ~(i <= Len(int)) /\ i - Len(int) \in 1 .. L - d
              /\ d + (i - Len(int)) = i + 1
          BY <1>1, <2>3, <2>5, <3>3
        <4> QED
          BY <2>6, <2>7, <3>1, <3>3, <4>1
      <3> QED
        BY <3>2, <3>3
    <2> QED
      BY <1>3, <2>2, <2>3, <2>5, <2>6, <2>7, <2>8, <2>9 DEF d, w, L, int, frac
  <1> QED
    BY <1>2, <1>3

(* Leaving out the dot does not change how digits read.                    *)
LEMMA WholeRead ==
  ASSUME NEW body \in Seq(Numeric), NEW w \in Seq(Digits), NEW d \in 1 .. Len(body),
         body[d] = Dot, Len(w) = Len(body) - 1,
         \A i \in 1 .. Len(w) : w[i] = IF i < d THEN body[i] ELSE body[i + 1]
  PROVE  NumberRead(w) = NumberRead(body)
  <1> DEFINE L == Len(w)
             f == NumbersRead(body)
             g == NumbersRead(w)
             J == {j \in Nat : (d - 1) + j <= L => g[(d - 1) + j] = f[d + j]}
  <1>1. Len(body) = L + 1 /\ L \in Nat /\ d \in 1 .. L + 1
    <2>1. Len(body) \in Nat
      BY LenProperties
    <2> QED
      BY <2>1
  <1>2. /\ \A i \in 1 .. L : w[i] \in Digits /\ g[i] = 10 * g[i - 1] + w[i]
        /\ \A i \in 1 .. L + 1 : f[i] = IF body[i] = Dot THEN f[i - 1] ELSE 10 * f[i - 1] + body[i]
    BY <1>1, DigitsRead, NumbersExist
  <1>3. g[d - 1] = f[d - 1]
    <2>1. /\ d - 1 \in Nat /\ d - 1 <= Len(w) /\ d - 1 <= Len(body)
          /\ \A i \in 1 .. d - 1 : i \in 1 .. Len(w) /\ i < d
      BY <1>1
    <2>2. w \in Seq(Numeric)
      BY DigitsRead
    <2>3. \A i \in 1 .. d - 1 : w[i] = body[i]
      BY <2>1
    <2> QED
      BY <2>1, <2>2, <2>3, ReadAgree
  <1> HIDE DEF f, g, L
  <1>4. 0 \in J
    <2>1. (d - 1) + 0 = d - 1 /\ d + 0 = d
      BY <1>1
    <2>2. f[d] = f[d - 1]
      BY <1>1, <1>2
    <2> QED
      BY <1>3, <2>1, <2>2
  <1>5. ASSUME NEW j \in Nat, j \in J PROVE j + 1 \in J
    <2> SUFFICES ASSUME (d - 1) + (j + 1) <= L PROVE g[(d - 1) + (j + 1)] = f[d + (j + 1)]
      OBVIOUS
    <2> DEFINE m == (d - 1) + (j + 1)
               n == d + (j + 1)
    <2>1. /\ m \in 1 .. L /\ m - 1 = (d - 1) + j /\ n \in 1 .. L + 1 /\ n - 1 = d + j
          /\ ~(m < d) /\ m + 1 = n
      BY <1>1
    <2>2. g[m - 1] = f[n - 1]
      <3>1. (d - 1) + j <= L
        BY <1>1
      <3> QED
        BY <1>5, <2>1, <3>1
    <2> HIDE DEF m, n
    <2>3. w[m] = body[n]
      BY <2>1 DEF L
    <2>4. w[m] \in Digits /\ body[n] # Dot
      BY <1>2, <2>1, <2>3, ParameterAssumption DEF Digits
    <2>5. g[m] = 10 * g[m - 1] + w[m] /\ f[n] = 10 * f[n - 1] + body[n]
      BY <1>2, <2>1, <2>4
    <2>6. g[m] = f[n]
      BY <2>2, <2>3, <2>5
    <2> QED
      BY <2>6 DEF m, n
  <1>6. (L + 1) - d \in J
    <2>1. (L + 1) - d \in Nat
      BY <1>1
    <2> HIDE DEF J
    <2> QED
      BY <1>4, <1>5, <2>1, Induction
  <1>7. (d - 1) + ((L + 1) - d) = L /\ d + ((L + 1) - d) = L + 1 /\ L <= L
    BY <1>1
  <1>8. g[L] = f[L + 1]
    BY <1>6, <1>7
  <1> QED
    BY <1>1, <1>8 DEF f, g, L, NumberRead

Characters == 0 .. 9 \union {Minus, Plus, Dot, Space}

\* The body of a number: digits, and one dot among them.
NumberBody(body) ==
    /\ \A i \in DOMAIN body : IsDigit(body[i]) \/ body[i] = Dot
    /\ \E i \in DOMAIN body : IsDigit(body[i])
    /\ \A i, j \in Dots(body) : i = j

(* A text is a number if, and only if, its two parts are digits.           *)
LEMMA PartsOfNumbers ==
  ASSUME NEW body \in Seq(Characters)
  PROVE  LET w == Parts(body)
         IN  /\ NumberBody(body) <=> w # <<>> /\ \A i \in DOMAIN w : IsDigit(w[i])
             /\ NumberBody(body) => w \in Seq(Digits) /\ NumberRead(w) = NumberRead(body)
  <1> DEFINE w == Parts(body)
             d == FirstDot(body)
             L == Len(body)
  <1>1. /\ L \in Nat /\ DOMAIN body = 1 .. L /\ \A i \in 1 .. L : body[i] \in Characters
        /\ w \in Seq(Characters) /\ Len(w) \in Nat /\ DOMAIN w = 1 .. Len(w)
        /\ w # <<>> <=> Len(w) # 0
    <2>1. L \in Nat /\ DOMAIN body = 1 .. L /\ \A i \in 1 .. L : body[i] \in Characters
      BY LenProperties, ElementOfSeq
    <2>2. w \in Seq(Characters)
      BY Pieces
    <2> HIDE DEF w
    <2>3. Len(w) \in Nat /\ DOMAIN w = 1 .. Len(w)
      BY <2>2, LenProperties
    <2>4. w # <<>> <=> Len(w) # 0
      BY <2>2, EmptySeq
    <2> QED
      BY <2>1, <2>2, <2>3, <2>4
  <1>2. ~IsDigit(Dot)
    BY ParameterAssumption DEF IsDigit
  <1>3. \A i : i \in Dots(body) <=> i \in 1 .. L /\ body[i] = Dot
    BY <1>1 DEF Dots
  <1>4. ASSUME w # <<>>, \A i \in DOMAIN w : IsDigit(w[i]) PROVE NumberBody(body)
    <2>1. CASE Dots(body) = {}
      <3>1. w = body
        BY <2>1, Pieces
      <3>2. 1 \in DOMAIN w
        BY <1>1, <1>4
      <3> QED
        BY <1>4, <2>1, <3>1, <3>2 DEF NumberBody
    <2>2. CASE Dots(body) # {}
      <3>1. /\ d \in 1 .. L /\ body[d] = Dot /\ Len(w) = L - 1
            /\ \A i \in 1 .. Len(w) : w[i] = IF i < d THEN body[i] ELSE body[i + 1]
        BY <2>2, Pieces
      <3> HIDE DEF d, w
      <3>2. ASSUME NEW i \in 1 .. L, i # d PROVE IsDigit(body[i])
        <4>1. CASE i < d
          <5>1. i \in 1 .. Len(w)
            BY <1>1, <3>1, <4>1
          <5>2. w[i] = body[i]
            BY <3>1, <4>1, <5>1
          <5> QED
            BY <1>1, <1>4, <5>1, <5>2
        <4>2. CASE ~(i < d)
          <5>1. i - 1 \in 1 .. Len(w) /\ ~(i - 1 < d) /\ (i - 1) + 1 = i
            BY <1>1, <3>1, <3>2, <4>2
          <5>2. w[i - 1] = body[i]
            BY <3>1, <5>1
          <5> QED
            BY <1>1, <1>4, <5>1, <5>2
        <4> QED
          BY <4>1, <4>2
      <3>3. \A i \in DOMAIN body : IsDigit(body[i]) \/ body[i] = Dot
        BY <1>1, <3>1, <3>2
      <3>4. \A i \in Dots(body) : i = d
        BY <1>2, <1>3, <3>2
      <3>5. \E i \in DOMAIN body : IsDigit(body[i])
        <4>1. PICK i \in 1 .. L : i # d
          <5>1. L >= 2
            BY <1>1, <1>4, <3>1
          <5>2. 1 \in 1 .. L /\ 2 \in 1 .. L /\ 1 # 2
            BY <1>1, <5>1
          <5> QED
            BY <5>2
        <4> QED
          BY <1>1, <3>2, <4>1
      <3> QED
        BY <3>3, <3>4, <3>5 DEF NumberBody
    <2> QED
      BY <2>1, <2>2
  <1>5. ASSUME NumberBody(body)
        PROVE  /\ w # <<>> /\ \A i \in DOMAIN w : IsDigit(w[i])
               /\ w \in Seq(Digits) /\ NumberRead(w) = NumberRead(body)
    <2>1. PICK e \in 1 .. L : IsDigit(body[e])
      BY <1>1, <1>5 DEF NumberBody
    <2>2. CASE Dots(body) = {}
      <3>1. w = body
        BY <2>2, Pieces
      <3> HIDE DEF w
      <3>2. \A i \in DOMAIN w : IsDigit(w[i])
        BY <1>1, <1>3, <1>5, <2>2, <3>1 DEF NumberBody
      <3>3. w # <<>>
        BY <1>1, <2>1, <3>1
      <3> QED
        <4>1. w \in [1 .. Len(w) -> Digits]
          <5>1. w \in [1 .. Len(w) -> Characters]
            BY <1>1, LenProperties
          <5> QED
            BY <1>1, <3>2, <5>1 DEF Digits, IsDigit
        <4>2. w \in Seq(Digits)
          BY <1>1, <4>1, FunctionIsSeq
        <4> QED
          BY <3>1, <3>2, <3>3, <4>2
    <2>3. CASE Dots(body) # {}
      <3>1. /\ d \in 1 .. L /\ body[d] = Dot /\ Len(w) = L - 1
            /\ \A i \in 1 .. Len(w) : w[i] = IF i < d THEN body[i] ELSE body[i + 1]
        BY <2>3, Pieces
      <3> HIDE DEF d, w
      <3>2. \A i \in 1 .. L : i # d => IsDigit(body[i])
        BY <1>1, <1>3, <1>5, <3>1 DEF NumberBody
      <3>3. ASSUME NEW i \in 1 .. Len(w) PROVE IsDigit(w[i])
        <4>1. i \in 1 .. L /\ i + 1 \in 1 .. L /\ (i < d => i # d) /\ (~(i < d) => i + 1 # d)
          BY <1>1, <3>1
        <4> QED
          BY <3>1, <3>2, <4>1
      <3>4. w # <<>>
        <4>1. e # d
          BY <1>2, <2>1, <3>1
        <4>2. L >= 2
          BY <1>1, <2>1, <3>1, <4>1
        <4> QED
          BY <1>1, <3>1, <4>2
      <3>5. w \in Seq(Digits)
        <4>1. w \in [1 .. Len(w) -> Characters]
          BY <1>1, LenProperties
        <4>2. w \in [1 .. Len(w) -> Digits]
          BY <3>3, <4>1 DEF Digits, IsDigit
        <4> QED
          BY <1>1, <4>2, FunctionIsSeq
      <3>6. body \in Seq(Numeric)
        <4>1. body \in [1 .. L -> Characters]
          BY LenProperties
        <4>2. body \in [1 .. L -> Numeric]
          BY <3>1, <3>2, <4>1 DEF Digits, IsDigit, Numeric
        <4> QED
          BY <1>1, <4>2, FunctionIsSeq
      <3>7. NumberRead(w) = NumberRead(body)
        BY <3>1, <3>5, <3>6, WholeRead
      <3> QED
        BY <1>1, <3>3, <3>4, <3>5, <3>7
    <2> QED
      BY <2>2, <2>3
  <1> QED
    BY <1>4, <1>5

(* The largest number of a bounded set.                                    *)
LEMMA LargestIs ==
  ASSUME NEW n \in Nat, NEW S, S \subseteq 0 .. n, S # {}
  PROVE  Largest(S) \in S /\ \A m \in S : m <= Largest(S)
  <1> DEFINE U == {u \in Nat : \A m \in S : m <= u}
  <1>1. n \in U
    OBVIOUS
  <1>2. PICK u \in U : \A v \in U : u <= v
    <2>1. U \in SUBSET Nat /\ U # {}
      BY <1>1
    <2> HIDE DEF U
    <2> QED
      BY <2>1, LeastNumber
  <1>3. u \in S
    <2> SUFFICES ASSUME u \notin S PROVE FALSE
      OBVIOUS
    <2>1. u \in Nat /\ \A m \in S : m \in Nat /\ m <= u /\ m # u
      BY <1>2
    <2>2. PICK m \in S : TRUE
      OBVIOUS
    <2>3. u - 1 \in Nat /\ \A k \in S : k <= u - 1
      BY <2>1, <2>2
    <2>4. u - 1 \in U
      BY <2>3
    <2> QED
      BY <1>2, <2>1, <2>4
  <1>4. \E g \in S : \A m \in S : m <= g
    BY <1>2, <1>3
  <1> HIDE DEF U
  <1> QED
    BY <1>4 DEF Largest

\* What is left of a text without the spaces around it.
LEMMA Trimmed ==
  ASSUME NEW text \in Seq(Characters)
  PROVE  Trim(text) \in Seq(Characters)
  <1> DEFINE inked == {i \in DOMAIN text : text[i] # Space}
             from == CHOOSE i \in inked : \A j \in inked : i <= j
             to == CHOOSE i \in inked : \A j \in inked : j <= i
             L == Len(text)
  <1>1. L \in Nat /\ DOMAIN text = 1 .. L /\ \A i \in 1 .. L : text[i] \in Characters
    BY LenProperties, ElementOfSeq
  <1>2. inked \in SUBSET (1 .. L)
    BY <1>1
  <1>3. CASE inked = {}
    BY <1>3, EmptySeq DEF Trim
  <1>4. CASE inked # {}
    <2> HIDE DEF inked
    <2>1. from \in inked
      <3>1. inked \in SUBSET Nat
        BY <1>1, <1>2
      <3> QED
        BY <1>4, <3>1, LeastChosen
    <2>2. to \in inked
      <3>1. inked \subseteq 0 .. L
        BY <1>1, <1>2
      <3>2. Largest(inked) \in inked /\ \A j \in inked : j <= Largest(inked)
        BY <1>1, <1>4, <3>1, LargestIs
      <3> QED
        BY <3>2
    <2>3. Trim(text) = SubSeq(text, from, to)
      BY <1>4 DEF Trim, inked
    <2> HIDE DEF from, to
    <2>4. \A i \in from .. to : text[i] \in Characters
      BY <1>1, <1>2, <2>1, <2>2
    <2> QED
      BY <1>1, <1>2, <2>1, <2>2, <2>3, <2>4, SubSeqProperties, SMT
  <1> QED
    BY <1>3, <1>4

(* A decimal is parsed exactly or refused.                                 *)
LEMMA DecimalParsed ==
  ASSUME NEW v, Trim(v.value) \in Seq(Characters), v.precision \in Nat, v.scale \in Int
  PROVE  /\ ParseDecimal128(v.value, v.precision, v.scale) =
                IF DecimalFits(v) THEN IF Negated(v) THEN -Scaled(v) ELSE Scaled(v) ELSE Error
         /\ DecimalFits(v) => Trim(v.value) # <<>> /\ Scaled(v) \in Nat
  <1> DEFINE text == Trim(v.value)
             scale == v.scale
             precision == v.precision
             body == Body(text)
             int == IntPart(body)
             frac == FracPart(body)
             w == Parts(body)
             z == Zeros(scale - Len(frac))
             digits == int \o frac \o z
             refused == \/ ~ValidDecimalType(precision, scale)
                        \/ w = <<>>
                        \/ \E i \in DOMAIN w : ~IsDigit(w[i])
                        \/ Len(frac) > scale
                        \/ TooManyDigits(digits, precision)
  <1>1. ParseTrimmed(text, precision, scale) =
            IF refused THEN Error
            ELSE IF Negated(v) THEN -NumberRead(digits) ELSE NumberRead(digits)
    BY DEF ParseTrimmed, Parts, Negated
  <1>2. body \in Seq(Characters)
    BY HeadTailProperties DEF Body, HasSign
  <1>3. Len(frac) = Places(text) /\ Len(frac) \in Nat
    <2>1. Dots(body) = {} => Len(frac) = 0
      BY <1>2, Pieces
    <2>2. Dots(body) # {} => Len(frac) = Len(body) - FirstDot(body)
      BY <1>2, Pieces
    <2>3. frac \in Seq(Characters)
      BY <1>2, Pieces
    <2> HIDE DEF frac
    <2>4. Len(frac) \in Nat
      BY <2>3, LenProperties
    <2> QED
      BY <2>1, <2>2, <2>4 DEF Places
  <1>4. /\ IsNumber(text) <=> w # <<>> /\ \A i \in DOMAIN w : IsDigit(w[i])
        /\ IsNumber(text) => w \in Seq(Digits) /\ NumberRead(w) = NumberRead(body)
    <2>1. IsNumber(text) <=> NumberBody(body)
      BY DEF IsNumber, NumberBody
    <2> QED
      BY <1>2, <2>1, PartsOfNumbers
  <1>5. ASSUME ValidDecimalType(precision, scale), IsNumber(text), Places(text) <= scale
        PROVE  /\ NumberRead(digits) = Scaled(v) /\ Scaled(v) \in Nat
               /\ TooManyDigits(digits, precision) <=> ~(Scaled(v) < TimesTen(1, precision))
    <2>1. scale - Len(frac) \in Nat /\ scale - Len(frac) = scale - Places(text)
      BY <1>3, <1>5
    <2>2. w \in Seq(Digits) /\ NumberRead(w) = NumberRead(body)
      BY <1>4, <1>5
    <2>3. digits = w \o z
      BY DEF Parts
    <2>4. z \in Seq(Digits)
      BY <2>1, ZerosAre
    <2>5. digits \in Seq(Digits)
      <3> HIDE DEF w, z
      <3> QED
        BY <2>2, <2>3, <2>4, ConcatProperties
    <2>6. NumberRead(digits) = TimesTen(NumberRead(w), scale - Len(frac))
      <3> HIDE DEF w, frac, scale, digits
      <3> QED
        BY <2>1, <2>2, <2>3, Padded
    <2>7. NumberRead(digits) = Scaled(v)
      BY <2>1, <2>2, <2>6 DEF Scaled
    <2>8. precision \in Nat /\ precision # 0
      BY <1>5 DEF ValidDecimalType
    <2> HIDE DEF digits, precision
    <2>9. NumberRead(digits) \in Nat
      BY <2>5, DigitsRead
    <2> QED
      BY <2>5, <2>7, <2>8, <2>9, TooMany
  <1>6. Len(frac) > scale <=> ~(Places(text) <= scale)
    BY <1>3
  <1>7. DecimalFits(v) <=> /\ ValidDecimalType(precision, scale) /\ IsNumber(text)
                           /\ Places(text) <= scale /\ Scaled(v) < TimesTen(1, precision)
    BY DEF DecimalFits
  <1>8. IsNumber(text) => text # <<>>
    BY DEF IsNumber, Body, HasSign
  <1> HIDE DEF text, scale, precision, body, int, frac, w, z, digits
  <1>9. refused <=> ~DecimalFits(v)
    BY <1>4, <1>5, <1>6, <1>7
  <1> HIDE DEF refused
  <1> QED
    BY <1>1, <1>5, <1>7, <1>8, <1>9 DEF text, scale, precision, ParseDecimal128

(* The types: what is bound is the scalar of the argument (parameter_value).*)
THEOREM ParameterTypeCorrect == ParameterSpec => []ParameterTypeOK
  <1>1. ParameterInit => ParameterTypeOK
    BY DEF ParameterInit, ParameterTypeOK
  <1>2. ParameterTypeOK /\ [Bind]_parameterVars => ParameterTypeOK'
    BY DEF ParameterTypeOK, Bind, parameterVars
  <1> QED
    BY <1>1, <1>2, PTL DEF ParameterSpec

\* What normalizeParameterValue, setStatementParam and parameter_value make of a value.
LEMMA ScalarizedExactly ==
  ASSUME NEW v \in Arguments, v.value # Null
  PROVE  IF Fits(v)
         THEN /\ Scalarized(v).value = IF v.type # "decimal" THEN v.value
                                       ELSE IF Negated(v) THEN -Scaled(v) ELSE Scaled(v)
              /\ Scalarized(NullOf(v)) = [Scalarized(v) EXCEPT !.value = Null]
         ELSE Scalarized(v) = Error
  <1> DEFINE null == NullOf(v)
             type == ScalarType(ToParameter(v))
  <1>1. /\ v.type \in Codes /\ v.value \in GoValue(v.type)
        /\ v.precision \in Nat /\ v.scale \in Int
    <2>1. v.type \in Codes \union {"nil"} /\ v.value \in GoValue(v.type)
      BY ParameterAssumption
    <2>2. v.type # "nil"
      BY <2>1 DEF GoValue
    <2> QED
      BY <2>1, <2>2, ParameterAssumption
  <1>2. /\ null.type = v.type /\ null.value = Null /\ null.precision = v.precision
        /\ null.scale = v.scale /\ null.zone = v.zone
    BY DEF NullOf
  <1>3. ScalarType(ToParameter(null)) = type
    BY <1>2 DEF ToParameter, ScalarType
  <1>u. /\ v.zone \notin InvalidZones =>
               ToParameter(v).zone \notin InvalidZones /\ ToParameter(null).zone \notin InvalidZones
        /\ v.zone \in InvalidZones => v.type = "timestamp" /\ ToParameter(v).zone = v.zone
    <2>1. NoZone \notin InvalidZones /\ "UTC" \notin InvalidZones
      BY ParameterAssumption
    <2>2. v.zone \in InvalidZones => v.type = "timestamp"
      BY ParameterAssumption
    <2> HIDE DEF null
    <2> QED
      BY <1>2, <2>1, <2>2 DEF ToParameter
  <1>w. /\ ToParameter(v).code = v.type /\ ToParameter(v).isNull = FALSE
        /\ ToParameter(v).value = v.value
        /\ ToParameter(null).code = v.type /\ ToParameter(null).isNull = TRUE
        /\ ToParameter(null).precision = v.precision /\ ToParameter(null).scale = v.scale
    <2> HIDE DEF null
    <2> QED
      BY <1>2 DEF ToParameter
  <1>n. /\ NotUtf8(ToParameter(v)) <=> \/ v.zone \in InvalidZones
                                       \/ v.type = "string" /\ v.value \in InvalidStrings
        /\ v.zone \notin InvalidZones => ~NotUtf8(ToParameter(null))
    <2> DEFINE p == ToParameter(v)
               o == ToParameter(null)
    <2>1. v.type # "nil"
      BY <1>1 DEF Codes
    <2>2. /\ p.code = v.type /\ ~p.isNull /\ p.value = v.value /\ o.code = v.type /\ o.isNull
          /\ v.zone \notin InvalidZones => p.zone \notin InvalidZones /\ o.zone \notin InvalidZones
          /\ v.zone \in InvalidZones => v.type = "timestamp" /\ p.zone = v.zone
      BY <1>u, <1>w
    <2> HIDE DEF p, o
    <2>3. NotUtf8(p) <=> \/ v.type = "string" /\ v.value \in InvalidStrings
                         \/ v.type = "timestamp" /\ p.zone \in InvalidZones
      BY <2>1, <2>2 DEF NotUtf8
    <2>4. NotUtf8(o) => o.zone \in InvalidZones
      BY <2>2 DEF NotUtf8
    <2>5. /\ NotUtf8(p) <=> \/ v.zone \in InvalidZones
                            \/ v.type = "string" /\ v.value \in InvalidStrings
          /\ v.zone \notin InvalidZones => ~NotUtf8(o)
      <3>1. CASE v.zone \in InvalidZones
        BY <2>2, <2>3, <3>1
      <3>2. CASE v.zone \notin InvalidZones
        BY <2>2, <2>3, <2>4, <3>2
      <3> QED
        BY <3>1, <3>2
    <2> QED
      BY <2>5 DEF p, o
  <1>4. /\ v.type # "decimal" \/ ValidDecimalType(v.precision, v.scale)
        /\ v.zone \notin InvalidZones
        => Scalarized(null) = Scalar(type, Null)
    <2> DEFINE p == ToParameter(null)
               legal == v.type # "decimal" \/ ValidDecimalType(v.precision, v.scale)
    <2>1. /\ p.isNull = TRUE /\ p.code = v.type
          /\ p.precision = v.precision /\ p.scale = v.scale
      BY <1>w
    <2>2. v.zone \notin InvalidZones => ~NotUtf8(p)
      BY <1>n
    <2> HIDE DEF p, null
    <2>3. legal => ~Refused(null)
      BY <1>2 DEF Refused
    <2>4. legal /\ v.zone \notin InvalidZones => ParameterValue(p) = Scalar(ScalarType(p), Null)
      BY <2>1, <2>2 DEF ParameterValue
    <2>5. ScalarType(p) = type
      BY <1>3 DEF p
    <2> HIDE DEF type
    <2> QED
      BY <2>3, <2>4, <2>5 DEF Scalarized, p
  <1> DEFINE BoundTo(n) == /\ Scalarized(v) = Scalar(type, n)
                            /\ Scalarized(null) = Scalar(type, Null)
  <1>5. ASSUME NEW n, BoundTo(n)
        PROVE  /\ Scalarized(v).value = n
               /\ Scalarized(null) = [Scalarized(v) EXCEPT !.value = Null]
    <2> HIDE DEF null, type
    <2> QED
      BY <1>5 DEF Scalar
  <1>6. CASE v.type # "decimal"
    <2> DEFINE legal == ~Refused(v) /\ ~NotUtf8(ToParameter(v))
    <2> HIDE DEF null
    <2>a. legal <=> /\ ~Refused(v) /\ v.zone \notin InvalidZones
                    /\ ~(v.type = "string" /\ v.value \in InvalidStrings)
      BY <1>n
    <2>b. v.zone \in InvalidZones => v.type = "timestamp"
      BY <1>u
    <2> HIDE DEF legal
    <2>1. Fits(v) <=> legal
      <3>1. CASE v.type = "time"
        BY <2>a, <2>b, <3>1 DEF Fits, Refused
      <3>2. CASE v.type = "timestamp"
        BY <2>a, <3>2 DEF Fits, Refused
      <3>3. CASE v.type = "string"
        BY <2>a, <2>b, <3>3 DEF Fits, Refused
      <3>4. CASE v.type \notin {"time", "timestamp", "string"}
        BY <1>6, <2>a, <2>b, <3>4 DEF Fits, Refused
      <3> QED
        BY <3>1, <3>2, <3>3, <3>4
    <2>2. legal => Scalarized(v) = Scalar(type, v.value)
      <3> DEFINE p == ToParameter(v)
      <3>1. p.code = v.type /\ p.isNull = FALSE /\ p.value = v.value
        BY <1>w
      <3> HIDE DEF p
      <3>2. ~NotUtf8(p) => ParameterValue(p) = Scalar(ScalarType(p), v.value)
        BY <1>6, <3>1 DEF ParameterValue
      <3> QED
        BY <3>2 DEF Scalarized, p, legal
    <2>3. ~legal => Scalarized(v) = Error
      BY DEF Scalarized, ParameterValue, legal
    <2>4. legal => BoundTo(v.value)
      <3> HIDE DEF type
      <3> QED
        BY <1>4, <1>6, <2>a, <2>2
    <2> HIDE DEF BoundTo
    <2> QED
      BY <1>5, <1>6, <2>1, <2>3, <2>4 DEF null
  <1>7. CASE v.type = "decimal"
    <2> DEFINE parsed == ParseDecimal128(v.value, v.precision, v.scale)
               meant == IF Negated(v) THEN -Scaled(v) ELSE Scaled(v)
    <2>1. Trim(v.value) \in Seq(Characters)
      <3>1. v.value \in Seq(Characters)
        BY <1>1, <1>7 DEF GoValue, Characters
      <3> QED
        BY <3>1, Trimmed
    <2>2. /\ parsed = IF DecimalFits(v) THEN meant ELSE Error
          /\ DecimalFits(v) => Trim(v.value) # <<>> /\ Scaled(v) \in Nat
      BY <1>1, <2>1, DecimalParsed
    <2>3. Fits(v) <=> DecimalFits(v)
      BY <1>7 DEF Fits
    <2>4. Refused(v) => ~DecimalFits(v)
      BY <1>7, <2>2 DEF Refused, DecimalFits
    <2>5. Scalarized(v) = IF Refused(v) \/ parsed = Error THEN Error ELSE Scalar(type, parsed)
      <3>1. ~NotUtf8(ToParameter(v))
        BY <1>7, <1>n, <1>u
      <3> QED
        BY <1>7, <3>1 DEF Scalarized, ToParameter, ParameterValue
    <2>6. DecimalFits(v) => meant # Error
      <3>1. DecimalFits(v) => meant \in Int
        BY <2>2
      <3> QED
        BY <3>1, ValuesAssumption
    <2> HIDE DEF parsed, meant, null, type
    <2>7. DecimalFits(v) => BoundTo(meant)
      <3>1. DecimalFits(v) => ValidDecimalType(v.precision, v.scale)
        BY DEF DecimalFits
      <3> QED
        BY <1>4, <1>7, <1>u, <2>2, <2>4, <2>5, <2>6, <3>1
    <2>8. ~DecimalFits(v) => Scalarized(v) = Error
      BY <2>2, <2>5
    <2> HIDE DEF BoundTo
    <2> QED
      BY <1>5, <1>7, <2>3, <2>7, <2>8 DEF null, meant
  <1> QED
    BY <1>6, <1>7

(* Any argument is bound as exactly the value it stands for, or refused     *)
(* because no scalar of its type holds it; a typed null gets the type that *)
(* its values get (parameters.go, parameters.rs).                          *)
THEOREM ParametersAreExact == ParameterSpec => []ParametersExact
  <1>1. ParameterTypeOK => ParametersExact
    <2> SUFFICES ASSUME ParameterTypeOK, bound # Unbound, argument.value # Null
                 PROVE  IF Fits(argument)
                        THEN /\ bound.value = IF argument.type # "decimal" THEN argument.value
                                              ELSE IF Negated(argument) THEN -Scaled(argument)
                                              ELSE Scaled(argument)
                             /\ Scalarized(NullOf(argument)) = [bound EXCEPT !.value = Null]
                        ELSE bound = Error
      BY DEF ParametersExact
    <2>1. argument \in Arguments /\ bound = Scalarized(argument)
      BY DEF ParameterTypeOK
    <2> QED
      BY <2>1, ScalarizedExactly
  <1> QED
    BY <1>1, ParameterTypeCorrect, PTL

(***************************************************************************)
(* Filters that are pushed to a Go provider.                               *)
(***************************************************************************)

\* step gives a value at each place, from the values at smaller places alone.
CourseStep(V, last, step) ==
    /\ step \in [(1 .. last) \X [1 .. last -> V] -> V]
    /\ \A n \in 1 .. last : \A f, g \in [1 .. last -> V] :
        (\A m \in 1 .. n - 1 : f[m] = g[m]) => step[<<n, f>>] = step[<<n, g>>]

CourseOf(f, V, last, step) ==
    f \in [1 .. last -> V] /\ \A n \in 1 .. last : f[n] = step[<<n, f>>]

(* A function on 1 .. last can be defined from its values at smaller       *)
(* places.                                                                 *)
LEMMA CourseOfValues ==
  ASSUME NEW V, NEW some \in V, NEW last \in Nat, NEW step, CourseStep(V, last, step)
  PROVE  \E f : CourseOf(f, V, last, step)
  <1> USE DEF CourseStep
  <1> DEFINE F == [1 .. last -> V]
             Solves(f, k) == \A n \in 1 .. k : f[n] = step[<<n, f>>]
             S == {k \in Nat : k <= last => \E f \in F : Solves(f, k)}
  <1>1. 0 \in S
    <2>1. [n \in 1 .. last |-> some] \in F
      OBVIOUS
    <2>2. \A f \in F : Solves(f, 0)
      OBVIOUS
    <2> HIDE DEF F, Solves
    <2> QED
      BY <2>1, <2>2
  <1>2. ASSUME NEW k \in Nat, k \in S PROVE k + 1 \in S
    <2> SUFFICES ASSUME k + 1 <= last PROVE \E f \in F : Solves(f, k + 1)
      <3> HIDE DEF F, Solves
      <3> QED
        OBVIOUS
    <2>1. PICK f \in F : Solves(f, k)
      <3> HIDE DEF F, Solves
      <3> QED
        BY <1>2
    <2> DEFINE next == step[<<k + 1, f>>]
               g == [f EXCEPT ![k + 1] = next]
    <2>2. k + 1 \in 1 .. last /\ next \in V
      <3>1. k + 1 \in 1 .. last
        OBVIOUS
      <3> QED
        BY <3>1, <2>1
    <2>3. f \in [1 .. last -> V]
      BY <2>1
    <2> HIDE DEF next
    <2>4. g \in F /\ g[k + 1] = next /\ \A n \in 1 .. last : n # k + 1 => g[n] = f[n]
      BY <2>2, <2>3
    <2> HIDE DEF g
    <2>5. ASSUME NEW n \in 1 .. k + 1 PROVE g[n] = step[<<n, g>>]
      <3>1. n \in 1 .. last /\ (n # k + 1 => n \in 1 .. k) /\ \A m \in 1 .. n - 1 : m \in 1 .. last /\ m # k + 1
        OBVIOUS
      <3>2. \A m \in 1 .. n - 1 : f[m] = g[m]
        BY <3>1, <2>4
      <3>3. step[<<n, f>>] = step[<<n, g>>]
        BY <3>1, <3>2, <2>3, <2>4
      <3>4. CASE n = k + 1
        BY <3>3, <3>4, <2>4 DEF next
      <3>5. CASE n # k + 1
        BY <3>1, <3>3, <3>5, <2>1, <2>4
      <3> QED
        BY <3>4, <3>5
    <2> QED
      BY <2>4, <2>5
  <1>3. last \in S
    <2> HIDE DEF S
    <2>1. Nat \subseteq S
      BY <1>1, <1>2, Induction
    <2> QED
      BY <2>1
  <1>4. \E f \in F : Solves(f, last)
    <2> HIDE DEF F, Solves
    <2> QED
      BY <1>3
  <1> QED
    BY <1>4 DEF CourseOf

(* f is evaluated: its operands come before it. *)
Grounded(f, last) ==
    /\ DOMAIN f = 1 .. last
    /\ \A i \in 1 .. last :
        /\ f[i].kind \in {"and", "or"} => f[i].left \in 1 .. i - 1 /\ f[i].right \in 1 .. i - 1
        /\ f[i].kind = "not" => f[i].expr \in 1 .. i - 1

EvalAt(f, i, truth, row_, other) ==
    CASE f[i].kind = "and" -> Conjunction(truth[f[i].left], truth[f[i].right])
      [] f[i].kind = "or" -> Disjunction(truth[f[i].left], truth[f[i].right])
      [] f[i].kind = "not" -> Negation(truth[f[i].expr])
      [] OTHER -> PredicateTruth(f[i], row_, other)

LEMMA Evaluated ==
  ASSUME NEW f, NEW last \in Nat, Grounded(f, last), NEW row_, NEW other
  PROVE  \A i \in 1 .. last : Eval(f, row_, other)[i] = EvalAt(f, i, Eval(f, row_, other), row_, other)
  <1> DEFINE V == Truths \union {PredicateTruth(f[i], row_, other) : i \in 1 .. last}
             Here(i, t) == EvalAt(f, i, t, row_, other)
             step == [p \in (1 .. last) \X [1 .. last -> V] |-> Here(p[1], p[2])]
  <1>1. ASSUME NEW i \in 1 .. last, NEW t PROVE Here(i, t) \in V
    <2>1. \A s : Negation(s) \in Truths
      BY DEF Negation, Truths
    <2>2. \A s, u : Conjunction(s, u) \in Truths /\ Disjunction(s, u) \in Truths
      BY <2>1 DEF Conjunction, Disjunction, Truths
    <2>3. PredicateTruth(f[i], row_, other) \in V
      OBVIOUS
    <2> QED
      BY <2>1, <2>2, <2>3 DEF EvalAt
  <1>2. ASSUME NEW i \in 1 .. last, NEW t, NEW u, \A m \in 1 .. i - 1 : t[m] = u[m]
        PROVE  Here(i, t) = Here(i, u)
    BY <1>2 DEF EvalAt, Grounded
  <1> HIDE DEF V, Here
  <1>3. \E t \in [1 .. last -> V] : \A n \in 1 .. last : t[n] = Here(n, t)
    <2>1. step \in [(1 .. last) \X [1 .. last -> V] -> V]
      BY <1>1
    <2>2. \A n \in 1 .. last : \A t \in [1 .. last -> V] : step[<<n, t>>] = Here(n, t)
      OBVIOUS
    <2> HIDE DEF step
    <2>3. \A n \in 1 .. last : \A t, u \in [1 .. last -> V] :
            (\A m \in 1 .. n - 1 : t[m] = u[m]) => step[<<n, t>>] = step[<<n, u>>]
      <3> TAKE n \in 1 .. last
      <3> TAKE t, u \in [1 .. last -> V]
      <3> HAVE \A m \in 1 .. n - 1 : t[m] = u[m]
      <3>1. Here(n, t) = Here(n, u)
        BY <1>2
      <3> QED
        BY <2>2, <3>1
    <2> DEFINE some == "null"
    <2>4. some \in V
      BY DEF V, Truths
    <2> HIDE DEF some
    <2>5. CourseStep(V, last, step)
      BY <2>1, <2>3 DEF CourseStep
    <2>6. \E t : CourseOf(t, V, last, step)
      BY <2>4, <2>5, CourseOfValues
    <2> QED
      BY <2>2, <2>6 DEF CourseOf
  <1>4. PICK t \in [1 .. last -> V] : \A n \in 1 .. last : t[n] = Here(n, t)
    BY <1>3
  <1> DEFINE Is(s) == s = [i \in 1 .. last |-> Here(i, s)]
  <1>5. Is(t)
    BY <1>4
  <1>6. Eval(f, row_, other) = CHOOSE s : Is(s)
    BY DEF Eval, EvalAt, Here, Grounded
  <1>7. Is(Eval(f, row_, other))
    <2> HIDE DEF Is
    <2> QED
      BY <1>5, <1>6
  <1> QED
    BY <1>7 DEF Here

ClassifyAt(f, i, classified) ==
    CASE f[i].kind \in {"and", "or"} ->
            IF Unsupported \in {classified[f[i].left], classified[f[i].right]}
            THEN Unsupported ELSE f[i]
      [] f[i].kind = "not" ->
            IF classified[f[i].expr] = Unsupported THEN Unsupported ELSE f[i]
      [] OTHER -> ClassifyPredicate(f[i])

LEMMA Classified ==
  ASSUME NEW f, NEW last \in Nat, Grounded(f, last)
  PROVE  /\ DOMAIN Classify(f) = 1 .. last
         /\ \A i \in 1 .. last : Classify(f)[i] = ClassifyAt(f, i, Classify(f))
  <1> DEFINE V == {Unsupported} \union {f[i] : i \in 1 .. last}
                    \union {ClassifyPredicate(f[i]) : i \in 1 .. last}
             Here(i, t) == ClassifyAt(f, i, t)
             step == [p \in (1 .. last) \X [1 .. last -> V] |-> Here(p[1], p[2])]
  <1>1. ASSUME NEW i \in 1 .. last, NEW t PROVE Here(i, t) \in V
    <2>1. f[i] \in V /\ Unsupported \in V /\ ClassifyPredicate(f[i]) \in V
      OBVIOUS
    <2> HIDE DEF V
    <2> QED
      BY <2>1 DEF ClassifyAt
  <1>2. ASSUME NEW i \in 1 .. last, NEW t, NEW u, \A m \in 1 .. i - 1 : t[m] = u[m]
        PROVE  Here(i, t) = Here(i, u)
    BY <1>2 DEF ClassifyAt, Grounded
  <1>3. \E some : some \in V
    OBVIOUS
  <1> HIDE DEF V, Here
  <1>4. PICK some : some \in V
    BY <1>3
  <1>5. \E t \in [1 .. last -> V] : \A n \in 1 .. last : t[n] = Here(n, t)
    <2>1. step \in [(1 .. last) \X [1 .. last -> V] -> V]
      BY <1>1
    <2>2. \A n \in 1 .. last : \A t \in [1 .. last -> V] : step[<<n, t>>] = Here(n, t)
      OBVIOUS
    <2> HIDE DEF step
    <2>3. \A n \in 1 .. last : \A t, u \in [1 .. last -> V] :
            (\A m \in 1 .. n - 1 : t[m] = u[m]) => step[<<n, t>>] = step[<<n, u>>]
      <3> TAKE n \in 1 .. last
      <3> TAKE t, u \in [1 .. last -> V]
      <3> HAVE \A m \in 1 .. n - 1 : t[m] = u[m]
      <3>1. Here(n, t) = Here(n, u)
        BY <1>2
      <3> QED
        BY <2>2, <3>1
    <2>4. CourseStep(V, last, step)
      BY <2>1, <2>3 DEF CourseStep
    <2>5. \E t : CourseOf(t, V, last, step)
      BY <1>4, <2>4, CourseOfValues
    <2> QED
      BY <2>2, <2>5 DEF CourseOf
  <1>6. PICK t \in [1 .. last -> V] : \A n \in 1 .. last : t[n] = Here(n, t)
    BY <1>5
  <1> DEFINE Is(s) == s = [i \in 1 .. last |-> Here(i, s)]
  <1>7. Is(t)
    BY <1>6
  <1>8. Classify(f) = CHOOSE s : Is(s)
    BY DEF Classify, ClassifyAt, Here, Grounded
  <1>9. Is(Classify(f))
    <2> HIDE DEF Is
    <2> QED
      BY <1>7, <1>8
  <1> QED
    BY <1>9 DEF Here

SqlValues == Int \union {NoValue}

(* A comparison is the mirrored comparison of the swapped operands.        *)
LEMMA Swapped ==
  ASSUME NEW op \in Ops, NEW a \in SqlValues, NEW b \in SqlValues
  PROVE  Compared(Swap(op), b, a) = Compared(op, a, b)
  <1>1. CASE a = NoValue \/ b = NoValue
    BY <1>1 DEF Compared
  <1>2. CASE ~(a = NoValue \/ b = NoValue)
    <2>1. a \in Int /\ b \in Int
      BY <1>2 DEF SqlValues
    <2>2. CASE op = "eq"
      BY <1>2, <2>1, <2>2 DEF Compared, Swap, Of
    <2>3. CASE op = "neq"
      BY <1>2, <2>1, <2>3 DEF Compared, Swap, Of
    <2>4. CASE op = "lt"
      BY <1>2, <2>1, <2>4 DEF Compared, Swap, Of
    <2>5. CASE op = "lteq"
      BY <1>2, <2>1, <2>5 DEF Compared, Swap, Of
    <2>6. CASE op = "gt"
      BY <1>2, <2>1, <2>6 DEF Compared, Swap, Of
    <2>7. CASE op = "gteq"
      BY <1>2, <2>1, <2>7 DEF Compared, Swap, Of
    <2> QED
      BY <2>2, <2>3, <2>4, <2>5, <2>6, <2>7 DEF Ops
  <1> QED
    BY <1>1, <1>2

(* A predicate that is pushed reaches the provider with its meaning, as    *)
(* long as its literals are finite.                                        *)
LEMMA PredicateKept ==
  ASSUME NEW e \in Predicates, NEW row_ \in SqlValues, NEW other,
         Literals \cap NonFinite = {}, ClassifyPredicate(e) # Unsupported
  PROVE  LET received == ReceivedPredicate(ClassifyPredicate(e))
         IN  /\ PredicateTruth(received, row_, other) = PredicateTruth(e, row_, other)
             /\ received.kind \notin {"and", "or", "not"}
  <1> DEFINE received == ReceivedPredicate(ClassifyPredicate(e))
             Kept == /\ PredicateTruth(received, row_, other) = PredicateTruth(e, row_, other)
                     /\ received.kind \notin {"and", "or", "not"}
  <1>1. \A v \in Literals : Decoded(v) = v /\ v \in SqlValues
    BY PushdownAssumption DEF Decoded, SqlValues
  <1>2. CASE e \in [kind : {"compare"}, left : Sides, op : Ops, right : Sides]
    <2>1. /\ e.kind = "compare" /\ e.left \in Sides /\ e.right \in Sides /\ e.op \in Ops
      BY <1>2
    <2>2. \A side \in Sides : side.kind = "literal" =>
            side.value \in Literals /\ side = Literal(side.value)
      BY DEF Sides, Literal, Column, OtherExpr
    <2>3. CASE e.left = Column /\ IsLiteral(e.right)
      <3>1. ClassifyPredicate(e) = Compare(e.op, e.right)
        BY <2>1, <2>3 DEF ClassifyPredicate
      <3>2. received = Compare(e.op, e.right)
        <4>1. Literal(Decoded(e.right.value)) = e.right
          BY <1>1, <2>1, <2>2, <2>3 DEF IsLiteral
        <4> QED
          BY <3>1, <4>1 DEF ReceivedPredicate, Compare
      <3>3. PredicateTruth(e, row_, other) = Compared(e.op, row_, e.right.value)
        BY <2>1, <2>3 DEF PredicateTruth, IsLiteral, Column
      <3>4. PredicateTruth(received, row_, other) = Compared(e.op, row_, e.right.value)
        BY <3>2, <2>3 DEF PredicateTruth, IsLiteral, Column, Compare
      <3> QED
        BY <3>2, <3>3, <3>4 DEF Compare
    <2>4. CASE IsLiteral(e.left) /\ e.right = Column /\ ~(e.left = Column /\ IsLiteral(e.right))
      <3>1. ClassifyPredicate(e) = Compare(Swap(e.op), e.left)
        BY <2>1, <2>4 DEF ClassifyPredicate
      <3>2. received = Compare(Swap(e.op), e.left)
        <4>1. Literal(Decoded(e.left.value)) = e.left
          BY <1>1, <2>1, <2>2, <2>4 DEF IsLiteral
        <4> QED
          BY <3>1, <4>1 DEF ReceivedPredicate, Compare
      <3>3. PredicateTruth(e, row_, other) = Compared(e.op, e.left.value, row_)
        BY <2>1, <2>4 DEF PredicateTruth, IsLiteral, Column
      <3>4. PredicateTruth(received, row_, other) = Compared(Swap(e.op), row_, e.left.value)
        BY <3>2, <2>4 DEF PredicateTruth, IsLiteral, Column, Compare
      <3>5. e.left.value \in SqlValues
        BY <1>1, <2>1, <2>2, <2>4 DEF IsLiteral
      <3> QED
        BY <2>1, <3>2, <3>3, <3>4, <3>5, Swapped DEF Compare
    <2> QED
      BY <2>1, <2>3, <2>4 DEF ClassifyPredicate
  <1>3. CASE e \in [kind : {"is_null"}, negated : BOOLEAN]
    <2>1. e.kind = "is_null"
      BY <1>3
    <2>2. ClassifyPredicate(e) = e /\ received = e
      BY <2>1 DEF ClassifyPredicate, ReceivedPredicate
    <2> QED
      BY <2>1, <2>2
  <1>4. CASE e \in [kind : {"between"}, negated : BOOLEAN, low : Literals, high : Literals]
    <2>1. e.kind = "between" /\ e.low \in Literals /\ e.high \in Literals
      BY <1>4
    <2>2. ClassifyPredicate(e) = e
      BY <2>1 DEF ClassifyPredicate
    <2>3. received = [e EXCEPT !.low = Decoded(e.low), !.high = Decoded(e.high)]
      BY <2>1, <2>2 DEF ReceivedPredicate
    <2>4. received = e
      BY <1>1, <1>4, <2>1, <2>3
    <2> QED
      BY <2>1, <2>4
  <1>5. CASE e \in [kind : {"in_list"}, negated : BOOLEAN, list : Seq(Literals)]
    <2>1. e.kind = "in_list" /\ e.list \in Seq(Literals)
      BY <1>5
    <2>2. ClassifyPredicate(e) = e
      BY <2>1 DEF ClassifyPredicate
    <2>3. received = [e EXCEPT !.list = [i \in DOMAIN e.list |-> Decoded(e.list[i])]]
      BY <2>1, <2>2 DEF ReceivedPredicate
    <2>4. [i \in DOMAIN e.list |-> Decoded(e.list[i])] = e.list
      <3> DEFINE list == e.list
      <3>1. list \in Seq(Literals)
        BY <2>1
      <3> HIDE DEF list
      <3>2. list \in [1 .. Len(list) -> Literals]
        BY <3>1, LenProperties, ElementOfSeq
      <3>3. \A i \in DOMAIN list : Decoded(list[i]) = list[i]
        BY <3>2, <1>1
      <3>4. [i \in DOMAIN list |-> Decoded(list[i])] = list
        BY <3>2, <3>3
      <3> QED
        BY <3>4 DEF list
    <2>5. received = e
      BY <1>5, <2>3, <2>4
    <2> QED
      BY <2>1, <2>5
  <1>6. CASE e = OtherExpr
    BY <1>6 DEF ClassifyPredicate, OtherExpr
  <1> QED
    BY <1>2, <1>3, <1>4, <1>5, <1>6 DEF Predicates

LEMMA PredicateKinds == \A e \in Predicates : e.kind \notin {"and", "or", "not"}
  BY DEF Predicates, OtherExpr

LEMMA UnsupportedReceived ==
  ReceivedPredicate(Unsupported) = Unsupported /\ Unsupported.kind = "unsupported"
  <1>1. Unsupported.kind = "unsupported"
    BY DEF Unsupported
  <1> QED
    BY <1>1 DEF ReceivedPredicate

LEMMA WellFormedGrounded ==
  ASSUME NEW f \in Filters
  PROVE  /\ Len(f) \in Nat /\ Len(f) \in 1 .. Len(f) /\ Grounded(f, Len(f))
         /\ \A i \in 1 .. Len(f) : f[i] \in Predicates \/ f[i].kind \in {"and", "or", "not"}
  <1>1. WellFormed(f)
    BY PushdownAssumption
  <1> DEFINE E == Predicates \union Connectives(Nat)
             last == Len(f)
  <1>2. f \in Seq(E) /\ f # <<>>
    BY <1>1 DEF WellFormed
  <1> HIDE DEF E
  <1>3. last \in Nat /\ last # 0 /\ DOMAIN f = 1 .. last
    BY <1>2, LenProperties, EmptySeq
  <1>4. \A i \in 1 .. last : f[i] \in Predicates \union Connectives(1 .. i - 1)
    BY <1>1 DEF WellFormed
  <1> HIDE DEF last
  <1>5. ASSUME NEW i \in 1 .. last
        PROVE  /\ f[i].kind \in {"and", "or"} => f[i].left \in 1 .. i - 1 /\ f[i].right \in 1 .. i - 1
               /\ f[i].kind = "not" => f[i].expr \in 1 .. i - 1
               /\ f[i] \in Predicates \/ f[i].kind \in {"and", "or", "not"}
    <2>1. CASE f[i] \in Predicates
      BY <2>1, PredicateKinds
    <2>2. CASE f[i] \in Connectives(1 .. i - 1)
      <3> DEFINE places == 1 .. i - 1
      <3>1. f[i] \in Connectives(places)
        BY <2>2
      <3> HIDE DEF places
      <3>2. \/ f[i].kind = "not" /\ f[i].expr \in places
            \/ f[i].kind \in {"and", "or"} /\ f[i].left \in places /\ f[i].right \in places
        BY <3>1 DEF Connectives
      <3> QED
        BY <3>2 DEF places
    <2> QED
      BY <1>4, <2>1, <2>2
  <1>6. last \in 1 .. last
    BY <1>3
  <1> QED
    BY <1>3, <1>5, <1>6 DEF Grounded, last

LEMMA MeaningKept ==
  ASSUME NEW f \in Filters, NEW row_ \in SqlValues, NEW other, Literals \cap NonFinite = {}
  PROVE  \A i \in 1 .. Len(f) : Classify(f)[i] # Unsupported =>
            Eval(Received(Classify(f)), row_, other)[i] = Eval(f, row_, other)[i]
  <1> DEFINE last == Len(f)
             classified == Classify(f)
             received == Received(classified)
             truths == Eval(f, row_, other)
             provider == Eval(received, row_, other)
  <1>1. /\ last \in Nat /\ Grounded(f, last)
        /\ \A i \in 1 .. last : f[i] \in Predicates \/ f[i].kind \in {"and", "or", "not"}
    BY WellFormedGrounded
  <1> HIDE DEF last
  <1>2. /\ DOMAIN classified = 1 .. last
        /\ \A i \in 1 .. last : classified[i] = ClassifyAt(f, i, classified)
    BY <1>1, Classified
  <1>3. \A i \in 1 .. last : truths[i] = EvalAt(f, i, truths, row_, other)
    BY <1>1, Evaluated
  <1> HIDE DEF classified
  <1>4. DOMAIN received = 1 .. last /\ \A i \in 1 .. last : received[i] = ReceivedPredicate(classified[i])
    BY <1>2 DEF Received
  <1> HIDE DEF received
  <1>5. ASSUME NEW i \in 1 .. last, f[i] \in Predicates
        PROVE  /\ received[i].kind \notin {"and", "or", "not"}
               /\ classified[i] # Unsupported =>
                    PredicateTruth(received[i], row_, other) = PredicateTruth(f[i], row_, other)
    <2>1. classified[i] = ClassifyPredicate(f[i])
      BY <1>2, <1>5, PredicateKinds DEF ClassifyAt
    <2>2. CASE classified[i] = Unsupported
      BY <1>4, <2>2, UnsupportedReceived
    <2>3. CASE classified[i] # Unsupported
      BY <1>4, <1>5, <2>1, <2>3, PredicateKept
    <2> QED
      BY <2>2, <2>3
  <1>6. ASSUME NEW i \in 1 .. last, f[i].kind \in {"and", "or", "not"}
        PROVE  /\ classified[i] # Unsupported => received[i] = f[i]
               /\ received[i].kind \in {"and", "or", "not"} => received[i] = f[i]
    <2>1. classified[i] \in {f[i], Unsupported}
      BY <1>2, <1>6 DEF ClassifyAt
    <2>2. CASE classified[i] = Unsupported
      BY <1>4, <2>2, UnsupportedReceived
    <2>3. CASE classified[i] = f[i]
      BY <1>4, <1>6, <2>3 DEF ReceivedPredicate
    <2> QED
      BY <2>1, <2>2, <2>3
  <1>7. Grounded(received, last)
    BY <1>1, <1>4, <1>5, <1>6 DEF Grounded
  <1>8. \A i \in 1 .. last : provider[i] = EvalAt(received, i, provider, row_, other)
    BY <1>1, <1>7, Evaluated
  <1> HIDE DEF truths, provider
  <1> DEFINE Same(i) == classified[i] # Unsupported => provider[i] = truths[i]
             S == {k \in Nat : \A i \in 1 .. last : i <= k => Same(i)}
  <1>9. ASSUME NEW i \in 1 .. last, \A m \in 1 .. i - 1 : m \in 1 .. last /\ Same(m)
        PROVE  Same(i)
    <2> SUFFICES ASSUME classified[i] # Unsupported PROVE provider[i] = truths[i]
      OBVIOUS
    <2>1. CASE f[i] \in Predicates
      <3>1. truths[i] = PredicateTruth(f[i], row_, other)
        BY <1>3, <2>1, PredicateKinds DEF EvalAt
      <3>2. provider[i] = PredicateTruth(received[i], row_, other)
        BY <1>5, <1>8, <2>1 DEF EvalAt
      <3> QED
        BY <1>5, <2>1, <3>1, <3>2
    <2>2. CASE f[i].kind \in {"and", "or"}
      <3>1. received[i] = f[i] /\ f[i].left \in 1 .. i - 1 /\ f[i].right \in 1 .. i - 1
        BY <1>1, <1>6, <2>2 DEF Grounded
      <3>2. classified[f[i].left] # Unsupported /\ classified[f[i].right] # Unsupported
        BY <1>2, <2>2 DEF ClassifyAt
      <3>3. provider[f[i].left] = truths[f[i].left] /\ provider[f[i].right] = truths[f[i].right]
        BY <1>9, <3>1, <3>2
      <3> QED
        BY <1>3, <1>8, <2>2, <3>1, <3>3 DEF EvalAt
    <2>3. CASE f[i].kind = "not"
      <3>1. received[i] = f[i] /\ f[i].expr \in 1 .. i - 1
        BY <1>1, <1>6, <2>3 DEF Grounded
      <3>2. classified[f[i].expr] # Unsupported
        BY <1>2, <2>3 DEF ClassifyAt
      <3>3. provider[f[i].expr] = truths[f[i].expr]
        BY <1>9, <3>1, <3>2
      <3> QED
        BY <1>3, <1>8, <2>3, <3>1, <3>3 DEF EvalAt
    <2> QED
      BY <1>1, <2>1, <2>2, <2>3
  <1> HIDE DEF Same
  <1>10. 0 \in S
    OBVIOUS
  <1>11. ASSUME NEW k \in Nat, k \in S PROVE k + 1 \in S
    <2> SUFFICES ASSUME NEW i \in 1 .. last, i <= k + 1 PROVE Same(i)
      OBVIOUS
    <2>1. \A m \in 1 .. i - 1 : m \in 1 .. last /\ Same(m)
      BY <1>1, <1>11
    <2> QED
      BY <1>9, <2>1
  <1>12. last \in S
    <2> HIDE DEF S
    <2>1. Nat \subseteq S
      BY <1>10, <1>11, Induction
    <2> QED
      BY <1>1, <2>1
  <1>13. \A i \in 1 .. last : Same(i)
    BY <1>12
  <1> QED
    BY <1>13 DEF Same, last, classified, received, truths, provider

\* Only a filter that classify supports is pushed.
PushdownInv ==
    /\ PushdownTypeOK
    /\ pushed # <<>> => Classify(filter)[Len(filter)] # Unsupported

(* The inductive invariant of Pushdown: what a provider reads is the        *)
(* classified filter, and all of it was classified (filters_to_json).      *)
THEOREM PushdownInvariant == PushdownSpec => []PushdownInv
  <1>1. PushdownInit => PushdownInv
    BY DEF PushdownInit, PushdownInv, PushdownTypeOK
  <1>2. PushdownInv /\ [Push]_pushdownVars => PushdownInv'
    BY DEF PushdownInv, PushdownTypeOK, Push, pushdownVars
  <1> QED
    BY <1>1, <1>2, PTL DEF PushdownSpec

\* A literal that JSON cannot write would be read as another one.
LEMMA PushdownInvConservative ==
  ASSUME Literals \cap NonFinite = {}
  PROVE  PushdownInv => PushdownConservative
  <1> SUFFICES ASSUME PushdownInv, pushed # <<>>,
                      NEW value \in Literals \union NonFinite, NEW other \in Truths
               PROVE  Eval(pushed, value, other)[Len(filter)] = Eval(filter, value, other)[Len(filter)]
    BY DEF PushdownConservative
  <1>1. filter \in Filters /\ pushed = Received(Classify(filter))
        /\ Classify(filter)[Len(filter)] # Unsupported
    BY DEF PushdownInv, PushdownTypeOK
  <1>2. value \in SqlValues
    BY PushdownAssumption DEF NonFinite, SqlValues
  <1> QED
    BY <1>1, <1>2, MeaningKept, WellFormedGrounded

(* However a filter is nested, negated or mirrored, the filter that a       *)
(* provider reads holds for every row that the SQL filter holds for, unless *)
(* it compares with an infinity or NaN (classify, decodeExpr).             *)
THEOREM PushdownIsConservative ==
  ASSUME Literals \cap NonFinite = {}
  PROVE  PushdownSpec => []PushdownConservative
  BY PushdownInvariant, PushdownInvConservative, PTL

(***************************************************************************)
(* Placeholders.  A text is the concatenation of its tokens' bytes, by     *)
(* recursion, so each step adds one token to what was copied.  The cursor  *)
(* never passes a token before its location is sought, and no two          *)
(* locations are equal.  Arguments that are not refused are a permutation: *)
(* their ordinals map the positions onto themselves.                       *)
(***************************************************************************)

ByteSet == Tokens \X Nat

LEMMA BytesTyped ==
  ASSUME NEW token \in Tokens
  PROVE  BytesOf(token) \in Seq(ByteSet) /\ Len(BytesOf(token)) \in Nat \ {0}
  <1> DEFINE width == IF token.kind = "text" THEN token.value ELSE 1
  <1>1. width \in Nat \ {0}
    BY DEF Tokens
  <1> HIDE DEF width
  <1>2. BytesOf(token) = [k \in 1 .. width |-> <<token, k>>]
    BY DEF BytesOf, width
  <1>3. BytesOf(token) \in [1 .. width -> ByteSet]
    BY <1>1, <1>2 DEF ByteSet
  <1>4. BytesOf(token) \in Seq(ByteSet)
    BY <1>1, <1>3, SeqDef
  <1>5. Len(BytesOf(token)) = width
    BY <1>1, <1>3, <1>4, LenProperties
  <1> QED
    BY <1>1, <1>4, <1>5

(* The texts of the first tokens, one after the other.                     *)
LEMMA TextsExist ==
  ASSUME NEW s \in Seq(Tokens)
  PROVE  /\ TextsOf(s) \in [0 .. Len(s) -> Seq(ByteSet)]
         /\ TextsOf(s)[0] = <<>>
         /\ \A n \in 1 .. Len(s) : TextsOf(s)[n] = TextsOf(s)[n - 1] \o BytesOf(s[n])
  <1> DEFINE last == Len(s)
             V == Seq(ByteSet)
             step == [p \in (1 .. last) \X V |-> p[2] \o BytesOf(s[p[1]])]
             Next_(f, n) == IF n = 0 THEN <<>> ELSE f[n - 1] \o BytesOf(s[n])
  <1>1. last \in Nat /\ \A n \in 1 .. last : BytesOf(s[n]) \in V
    BY ElementOfSeq, LenProperties, BytesTyped
  <1> HIDE DEF last
  <1>2. <<>> \in V /\ \A a, b \in V : a \o b \in V
    BY ConcatProperties
  <1> HIDE DEF V
  <1>3. step \in [(1 .. last) \X V -> V]
    BY <1>1, <1>2
  <1>4. \A n \in 1 .. last, v \in V : step[<<n, v>>] = v \o BytesOf(s[n])
    OBVIOUS
  <1> HIDE DEF step
  <1>5. PICK f : Recursive(f, V, <<>>, last, step)
    BY <1>1, <1>2, <1>3, Recursion
  <1>6. /\ f \in [0 .. last -> V] /\ f[0] = <<>>
        /\ \A n \in 1 .. last : f[n] = f[n - 1] \o BytesOf(s[n])
    <2>1. \A n \in 1 .. last : n - 1 \in 0 .. last
      BY <1>1
    <2> QED
      BY <1>4, <1>5, <2>1 DEF Recursive
  <1> DEFINE Is(t) == t = [n \in 0 .. last |-> Next_(t, n)]
  <1>7. Is(f)
    <2> SUFFICES ASSUME NEW n \in 0 .. last PROVE f[n] = Next_(f, n)
      BY <1>6
    <2>1. n # 0 => n \in 1 .. last
      BY <1>1
    <2> QED
      BY <1>6, <2>1
  <1>8. TextsOf(s) = CHOOSE t : Is(t)
    BY DEF TextsOf, last
  <1>9. Is(TextsOf(s))
    <2> HIDE DEF Is
    <2> QED
      BY <1>7, <1>8
  <1> DEFINE texts == TextsOf(s)
  <1> HIDE DEF texts
  <1>10. texts = [n \in 0 .. last |-> Next_(texts, n)]
    BY <1>9 DEF texts
  <1>11. texts[0] = <<>> /\ \A n \in 1 .. last : texts[n] = texts[n - 1] \o BytesOf(s[n])
    <2>1. \A n \in 0 .. last : texts[n] = Next_(texts, n)
      <3> HIDE DEF Next_
      <3> QED
        BY <1>10
    <2>2. 0 \in 0 .. last /\ \A n \in 1 .. last : n \in 0 .. last /\ n # 0
      BY <1>1
    <2> QED
      BY <2>1, <2>2
  <1>12. \A n \in 0 .. last : texts[n] \in V
    <2> DEFINE T == {n \in Nat : n <= last => texts[n] \in V}
    <2>1. 0 \in T
      BY <1>2, <1>11
    <2>2. ASSUME NEW n \in Nat, n \in T PROVE n + 1 \in T
      <3> SUFFICES ASSUME n + 1 <= last PROVE texts[n + 1] \in V
        OBVIOUS
      <3>1. n + 1 \in 1 .. last /\ (n + 1) - 1 = n /\ texts[n] \in V
        BY <1>1, <2>2
      <3> QED
        BY <1>1, <1>2, <1>11, <3>1
    <2> HIDE DEF T
    <2>3. Nat \subseteq T
      BY <2>1, <2>2, Induction
    <2> QED
      BY <1>1, <2>3 DEF T
  <1>13. DOMAIN texts = 0 .. last
    BY <1>10
  <1>14. texts \in [0 .. last -> V]
    BY <1>10, <1>12, <1>13
  <1> QED
    BY <1>11, <1>14 DEF texts, V, last

(* A longer text begins with the shorter one.                              *)
LEMMA TextsGrow ==
  ASSUME NEW s \in Seq(Tokens), NEW m \in 0 .. Len(s), NEW n \in 0 .. m
  PROVE  /\ Len(TextsOf(s)[n]) \in Nat /\ Len(TextsOf(s)[m]) \in Nat
         /\ Len(TextsOf(s)[n]) <= Len(TextsOf(s)[m])
         /\ \A k \in 1 .. Len(TextsOf(s)[n]) : TextsOf(s)[m][k] = TextsOf(s)[n][k]
  <1> DEFINE texts == TextsOf(s)
             last == Len(s)
             V == Seq(ByteSet)
             short == texts[n]
             Begins(t) == /\ Len(short) <= Len(t)
                          /\ \A k \in 1 .. Len(short) : t[k] = short[k]
             T == {k \in Nat : n + k <= last => Begins(texts[n + k])}
  <1>1. /\ last \in Nat /\ texts \in [0 .. last -> V]
        /\ \A k \in 1 .. last : texts[k] = texts[k - 1] \o BytesOf(s[k])
        /\ \A k \in 1 .. last : BytesOf(s[k]) \in V
    BY LenProperties, TextsExist, ElementOfSeq, BytesTyped
  <1> HIDE DEF texts, last
  <1>2. n \in Nat /\ n <= last /\ short \in V /\ Len(short) \in Nat
        /\ m \in Nat /\ n <= m /\ m <= last /\ texts[m] \in V
    <2>1. n \in Nat /\ m \in Nat /\ n <= m /\ m <= last /\ n <= last /\ n \in 0 .. last /\ m \in 0 .. last
      BY <1>1 DEF last
    <2>2. short \in V /\ texts[m] \in V
      BY <1>1, <2>1
    <2> QED
      BY <2>1, <2>2, LenProperties
  <1>3. 0 \in T
    BY <1>2
  <1>4. ASSUME NEW k \in Nat, k \in T PROVE k + 1 \in T
    <2> SUFFICES ASSUME n + (k + 1) <= last PROVE Begins(texts[n + (k + 1)])
      OBVIOUS
    <2> DEFINE here == texts[n + k]
               there == texts[n + (k + 1)]
               piece == BytesOf(s[n + (k + 1)])
    <2>1. n + (k + 1) \in 1 .. last /\ (n + (k + 1)) - 1 = n + k /\ n + k \in 0 .. last
      BY <1>1, <1>2
    <2>2. there = here \o piece /\ here \in V /\ piece \in V
      BY <1>1, <2>1
    <2>3. Begins(here)
      BY <1>2, <1>4, <2>1
    <2> HIDE DEF here, piece, there, short
    <2>4. /\ Len(there) = Len(here) + Len(piece) /\ Len(piece) \in Nat /\ Len(here) \in Nat
          /\ \A i \in 1 .. Len(here) : there[i] = here[i]
      BY <2>2, ConcatProperties, LenProperties
    <2>5. \A i \in 1 .. Len(short) : i \in 1 .. Len(here)
      BY <1>2, <2>3, <2>4
    <2>6. Begins(there)
      BY <1>2, <2>3, <2>4, <2>5
    <2> QED
      BY <2>6 DEF there
  <1>5. m - n \in T
    <2> HIDE DEF T
    <2>1. Nat \subseteq T
      BY <1>3, <1>4, Induction
    <2> QED
      BY <1>2, <2>1
  <1>6. Begins(texts[m])
    <2>1. n + (m - n) = m
      BY <1>2
    <2> HIDE DEF Begins
    <2> QED
      BY <1>2, <1>5, <2>1
  <1> QED
    BY <1>2, <1>6, LenProperties DEF texts

\* piece is what follows the first b elements of text, of which a were copied.
Continues(text, a, b, piece) ==
    a <= b /\ b + Len(piece) <= Len(text) /\ \A j \in 1 .. Len(piece) : text[b + j] = piece[j]

CopyContinues(S, text, a, b, piece) ==
    /\ SubSeq(text, a + 1, b) \in Seq(S)
    /\ SubSeq(text, a + 1, b + Len(piece)) = SubSeq(text, a + 1, b) \o piece

(* Copying further adds what follows.                                      *)
LEMMA SubSeqGrows ==
  ASSUME NEW S, NEW text \in Seq(S), NEW piece \in Seq(S), NEW a \in Nat, NEW b \in Nat,
         Continues(text, a, b, piece)
  PROVE  CopyContinues(S, text, a, b, piece)
  <1>0. a <= b /\ b + Len(piece) <= Len(text) /\ \A j \in 1 .. Len(piece) : text[b + j] = piece[j]
    BY DEF Continues
  <1> DEFINE width == Len(piece)
             copied == SubSeq(text, a + 1, b)
             all == SubSeq(text, a + 1, b + width)
  <1>1. width \in Nat /\ Len(text) \in Nat /\ b <= Len(text) /\ a + 1 \in 1 .. Len(text) + 1 /\ a <= b
    BY <1>0, LenProperties
  <1> HIDE DEF width
  <1>2. /\ copied \in Seq(S) /\ Len(copied) = b - a
        /\ \A i \in 1 .. b - a : copied[i] = text[(a + 1) + i - 1]
    BY <1>1, SubSeqProperties
  <1>3. /\ all \in Seq(S) /\ Len(all) = (b + width) - a
        /\ \A i \in 1 .. (b + width) - a : all[i] = text[(a + 1) + i - 1]
    BY <1>0, <1>1, SubSeqProperties DEF width
  <1> HIDE DEF copied, all
  <1>4. /\ copied \o piece \in Seq(S) /\ Len(copied \o piece) = (b - a) + width
        /\ \A i \in 1 .. b - a : (copied \o piece)[i] = copied[i]
        /\ \A i \in (b - a) + 1 .. (b - a) + width : (copied \o piece)[i] = piece[i - (b - a)]
    <2>1. /\ copied \o piece \in Seq(S) /\ Len(copied \o piece) = Len(copied) + Len(piece)
          /\ \A i \in 1 .. Len(copied) + Len(piece) :
                (copied \o piece)[i] = IF i <= Len(copied) THEN copied[i] ELSE piece[i - Len(copied)]
      BY <1>2, ConcatProperties
    <2>2. /\ \A i \in 1 .. b - a : i \in 1 .. (b - a) + width /\ i <= b - a
          /\ \A i \in (b - a) + 1 .. (b - a) + width : i \in 1 .. (b - a) + width /\ ~(i <= b - a)
      BY <1>1
    <2> QED
      BY <1>2, <2>1, <2>2 DEF width
  <1>5. ASSUME NEW i \in 1 .. (b + width) - a PROVE all[i] = (copied \o piece)[i]
    <2>1. CASE i <= b - a
      <3>1. i \in 1 .. b - a
        BY <2>1
      <3> QED
        BY <1>2, <1>3, <1>4, <3>1
    <2>2. CASE ~(i <= b - a)
      <3> DEFINE j == i - (b - a)
      <3>1. i \in (b - a) + 1 .. (b - a) + width /\ j \in 1 .. width /\ (a + 1) + i - 1 = b + j
        BY <1>1, <2>2
      <3> HIDE DEF j
      <3>2. text[b + j] = piece[j]
        BY <1>0, <3>1 DEF width
      <3> QED
        BY <1>3, <1>4, <3>1, <3>2 DEF j
    <2> QED
      BY <2>1, <2>2
  <1>6. all = copied \o piece
    <2> DEFINE other == copied \o piece
    <2> HIDE DEF other
    <2>1. Len(all) = Len(other) /\ all \in Seq(S) /\ other \in Seq(S)
          /\ \A i \in 1 .. Len(all) : all[i] = other[i]
      BY <1>1, <1>3, <1>4, <1>5 DEF other
    <2>2. all = other
      BY <2>1, SeqEqual
    <2> QED
      BY <2>2 DEF other
  <1> QED
    BY <1>2, <1>6 DEF copied, all, width, CopyContinues

LEMMA CopyGrows ==
  ASSUME NEW s \in Seq(Tokens), NEW n \in 1 .. Len(s), NEW a \in Nat, a <= Len(TextsOf(s)[n - 1])
  PROVE  /\ SubSeq(TextOf(s), a + 1, Len(TextsOf(s)[n - 1])) \in Seq(ByteSet)
         /\ SubSeq(TextOf(s), a + 1, Len(TextsOf(s)[n])) =
              SubSeq(TextOf(s), a + 1, Len(TextsOf(s)[n - 1])) \o BytesOf(s[n])
         /\ Len(TextsOf(s)[n - 1]) <= Len(TextsOf(s)[n])
  <1> DEFINE texts == TextsOf(s)
             text == TextOf(s)
             piece == BytesOf(s[n])
             b == Len(texts[n - 1])
             c == Len(texts[n])
  <1>1. Len(s) \in Nat /\ n - 1 \in 0 .. n /\ n \in 0 .. Len(s) /\ n - 1 \in 0 .. Len(s)
        /\ Len(s) \in 0 .. Len(s)
    BY LenProperties
  <1>2. /\ texts[n - 1] \in Seq(ByteSet) /\ texts[n] \in Seq(ByteSet) /\ text \in Seq(ByteSet)
        /\ texts[n] = texts[n - 1] \o piece /\ piece \in Seq(ByteSet)
    BY <1>1, TextsExist, BytesTyped, ElementOfSeq DEF TextOf
  <1>3. /\ c <= Len(text) /\ b <= c /\ b \in Nat /\ c \in Nat
        /\ \A k \in 1 .. c : text[k] = texts[n][k]
    BY <1>1, TextsGrow DEF TextOf
  <1> HIDE DEF texts, text, piece
  <1>4. /\ c = b + Len(piece) /\ Len(piece) \in Nat
        /\ \A i \in b + 1 .. b + Len(piece) : texts[n][i] = piece[i - b]
    BY <1>2, ConcatProperties, LenProperties
  <1> HIDE DEF b, c
  <1>5. ASSUME NEW j \in 1 .. Len(piece) PROVE text[b + j] = piece[j]
    <2>1. b + j \in 1 .. c /\ b + j \in b + 1 .. b + Len(piece) /\ (b + j) - b = j
      BY <1>3, <1>4
    <2> QED
      BY <1>3, <1>4, <2>1
  <1>6. a <= b
    BY DEF b, texts
  <1>7. /\ SubSeq(text, a + 1, b) \in Seq(ByteSet)
        /\ SubSeq(text, a + 1, c) = SubSeq(text, a + 1, b) \o piece
    <2>1. b + Len(piece) <= Len(text)
      BY <1>3, <1>4
    <2>2. /\ SubSeq(text, a + 1, b) \in Seq(ByteSet)
          /\ SubSeq(text, a + 1, b + Len(piece)) = SubSeq(text, a + 1, b) \o piece
      <3> DEFINE B == ByteSet
      <3> HIDE DEF B
      <3>1. text \in Seq(B) /\ piece \in Seq(B) /\ b \in Nat
        BY <1>2, <1>3 DEF B
      <3>2. Continues(text, a, b, piece)
        BY <1>5, <1>6, <2>1 DEF Continues
      <3>3. /\ SubSeq(text, a + 1, b) \in Seq(B)
            /\ SubSeq(text, a + 1, b + Len(piece)) = SubSeq(text, a + 1, b) \o piece
        <4>1. CopyContinues(B, text, a, b, piece)
          BY <3>1, <3>2, SubSeqGrows
        <4> QED
          BY <4>1 DEF CopyContinues
      <3> QED
        BY <3>3 DEF B
    <2> QED
      BY <1>4, <2>2
  <1> QED
    BY <1>3, <1>7 DEF texts, text, piece, b, c

LEMMA LargestUnique ==
  ASSUME NEW n \in Nat, NEW S, S \subseteq 0 .. n, NEW g \in S, \A m \in S : m <= g
  PROVE  Largest(S) = g
  <1> DEFINE l == Largest(S)
  <1>1. l \in S /\ g <= l
    BY LargestIs
  <1> HIDE DEF l
  <1>2. l <= g /\ l \in Nat /\ g \in Nat
    BY <1>1
  <1>3. l = g
    BY <1>1, <1>2
  <1> QED
    BY <1>3 DEF l

(* A set of the first numbers is finite.                                   *)
LEMMA CountedTo ==
  ASSUME NEW n \in Nat, NEW S, S \subseteq 1 .. n
  PROVE  /\ IsFiniteSet(S) /\ Cardinality(S) \in Nat /\ Cardinality(S) <= n
         /\ Cardinality(1 .. n) = n
  <1>1. IsFiniteSet(1 .. n) /\ Cardinality(1 .. n) = n
    <2>1. IsFiniteSet(1 .. n)
      BY FS_Interval
    <2>2. Cardinality(1 .. n) = IF 1 > n THEN 0 ELSE n - 1 + 1
      BY FS_Interval
    <2> DEFINE c == Cardinality(1 .. n)
    <2> HIDE DEF c
    <2>3. c = IF 1 > n THEN 0 ELSE n - 1 + 1
      BY <2>2 DEF c
    <2>4. c = n
      BY <2>3
    <2> QED
      BY <2>1, <2>4 DEF c
  <1> DEFINE T == 1 .. n
  <1> HIDE DEF T
  <1>2. S \in SUBSET T /\ IsFiniteSet(T)
    BY <1>1 DEF T
  <1>3. IsFiniteSet(S) /\ Cardinality(S) <= Cardinality(T)
    BY <1>2, FS_Subset
  <1>4. Cardinality(S) \in Nat
    BY <1>3, FS_CardinalityType
  <1> QED
    BY <1>1, <1>3, <1>4 DEF T

(* The newlines before a token.                                            *)
LEMMA NewlinesTyped ==
  ASSUME NEW i \in Nat
  PROVE  /\ IsFiniteSet(Newlines(i + 1)) /\ Cardinality(Newlines(i + 1)) \in Nat
         /\ Newlines(i + 1) \subseteq 1 .. i
         /\ Largest({0} \union Newlines(i + 1)) \in 0 .. i
  <1>1. Newlines(i + 1) \subseteq 1 .. i
    BY DEF Newlines
  <1>2. IsFiniteSet(Newlines(i + 1)) /\ Cardinality(Newlines(i + 1)) \in Nat
    BY <1>1, CountedTo
  <1> DEFINE S == {0} \union Newlines(i + 1)
  <1>3. S \subseteq 0 .. i /\ S # {}
    BY <1>1
  <1> HIDE DEF S
  <1>4. Largest(S) \in S
    BY <1>3, LargestIs
  <1>5. Largest(S) \in 0 .. i
    BY <1>3, <1>4
  <1> QED
    BY <1>1, <1>2, <1>5 DEF S

(* From the location of a token to that of the next one.                   *)
LEMMA LocationStep ==
  ASSUME NEW i \in Nat
  PROVE  /\ Location(i + 1) = <<Location(i + 1)[1], Location(i + 1)[2]>>
         /\ Location(i + 1)[1] \in Nat /\ Location(i + 1)[2] \in Nat
         /\ Location((i + 1) + 1) =
              IF Kind(i + 1) = "newline" THEN <<Location(i + 1)[1] + 1, 1>>
              ELSE <<Location(i + 1)[1], Location(i + 1)[2] + 1>>
  <1> DEFINE before == Newlines(i + 1)
             after == Newlines((i + 1) + 1)
             count == Cardinality(before)
             latest == Largest({0} \union before)
  <1>1. /\ IsFiniteSet(before) /\ count \in Nat /\ before \subseteq 1 .. i
        /\ latest \in 0 .. i
    BY NewlinesTyped
  <1>2. Location(i + 1) = <<1 + count, (i + 1) - latest>>
    BY DEF Location
  <1>3. Location((i + 1) + 1) = <<1 + Cardinality(after), ((i + 1) + 1) - Largest({0} \union after)>>
    BY DEF Location
  <1>4. after = IF Kind(i + 1) = "newline" THEN before \union {i + 1} ELSE before
    <2>1. \A j \in 1 .. i + 1 : j = i + 1 \/ j \in 1 .. i
      OBVIOUS
    <2>2. \A j : j \in before <=> j \in 1 .. i /\ Kind(j) = "newline"
      BY DEF Newlines
    <2>3. \A j : j \in after <=> j \in 1 .. i + 1 /\ Kind(j) = "newline"
      BY DEF Newlines
    <2>4. i + 1 \in 1 .. i + 1 /\ \A j \in 1 .. i : j \in 1 .. i + 1 /\ j # i + 1
      OBVIOUS
    <2> HIDE DEF before, after, Kind
    <2> QED
      BY <2>1, <2>2, <2>3, <2>4
  <1> HIDE DEF before, after, Location
  <1>5. CASE Kind(i + 1) = "newline"
    <2> DEFINE all == {0} \union after
    <2>1. Cardinality(after) = count + 1
      <3>1. i + 1 \notin before
        BY <1>1
      <3> QED
        BY <1>1, <1>4, <1>5, <3>1, FS_AddElement
    <2>2. all \subseteq 0 .. i + 1 /\ i + 1 \in all /\ \A m \in all : m <= i + 1
      BY <1>1, <1>4, <1>5
    <2> HIDE DEF all
    <2>3. Largest(all) = i + 1
      <3> DEFINE g == i + 1
      <3>1. g \in Nat
        OBVIOUS
      <3> HIDE DEF g
      <3>2. all \subseteq 0 .. g /\ g \in all /\ \A m \in all : m <= g
        BY <2>2 DEF g
      <3> QED
        BY <3>1, <3>2, LargestUnique DEF g
    <2>4. ((i + 1) + 1) - Largest(all) = 1 /\ 1 + Cardinality(after) = (1 + count) + 1
      BY <1>1, <2>1, <2>3
    <2> HIDE DEF count, latest
    <2> QED
      BY <1>1, <1>2, <1>3, <1>5, <2>4 DEF all
  <1>6. CASE Kind(i + 1) # "newline"
    <2>1. ((i + 1) + 1) - latest = ((i + 1) - latest) + 1 /\ (i + 1) - latest \in Nat
      BY <1>1
    <2>2. Location((i + 1) + 1) = <<1 + count, ((i + 1) + 1) - latest>>
      BY <1>3, <1>4, <1>6
    <2> HIDE DEF count, latest
    <2> QED
      BY <1>1, <1>2, <1>6, <2>1, <2>2
  <1> QED
    BY <1>5, <1>6

(* No two places have one location.                                        *)
LEMMA LocationsDiffer ==
  ASSUME NEW i \in Nat, NEW j \in Nat, i < j
  PROVE  Location(i + 1) # Location(j + 1)
  <1> SUFFICES ASSUME Location(i + 1) = Location(j + 1) PROVE FALSE
    OBVIOUS
  <1> DEFINE before == Newlines(i + 1)
             after == Newlines(j + 1)
  <1>1. /\ IsFiniteSet(before) /\ Cardinality(before) \in Nat
        /\ IsFiniteSet(after) /\ Cardinality(after) \in Nat
        /\ Largest({0} \union before) \in 0 .. i
    BY NewlinesTyped
  <1>2. before \subseteq after
    BY DEF Newlines
  <1>3. /\ 1 + Cardinality(before) = 1 + Cardinality(after)
        /\ (i + 1) - Largest({0} \union before) = (j + 1) - Largest({0} \union after)
    BY DEF Location
  <1> HIDE DEF before, after
  <1>4. Cardinality(before) = Cardinality(after)
    BY <1>1, <1>3
  <1>5. before = after
    BY <1>1, <1>2, <1>4, FS_Subset
  <1> DEFINE latest == Largest({0} \union before)
  <1> HIDE DEF latest
  <1>6. (i + 1) - latest = (j + 1) - latest /\ latest \in Nat
    BY <1>1, <1>3, <1>5 DEF latest
  <1> QED
    BY <1>6

(* The question marks, counted one by one.                                 *)
LEMMA QuestionsCounted ==
  ASSUME NEW i \in Nat
  PROVE  /\ IsFiniteSet(QuestionsIn(i)) /\ Cardinality(QuestionsIn(i)) \in Nat
         /\ Cardinality(QuestionsIn(i + 1)) =
              IF Kind(i + 1) = "?" THEN Cardinality(QuestionsIn(i)) + 1 ELSE Cardinality(QuestionsIn(i))
         /\ Cardinality(QuestionsIn(0)) = 0
  <1> DEFINE before == QuestionsIn(i)
             after == QuestionsIn(i + 1)
  <1>1. before \subseteq 1 .. i
    BY DEF QuestionsIn
  <1>2. IsFiniteSet(before) /\ Cardinality(before) \in Nat
    BY <1>1, CountedTo
  <1>3. after = IF Kind(i + 1) = "?" THEN before \union {i + 1} ELSE before
    <2>1. \A j \in 1 .. i + 1 : j = i + 1 \/ j \in 1 .. i
      OBVIOUS
    <2>2. \A j : j \in before <=> j \in 1 .. i /\ Kind(j) = "?"
      BY DEF QuestionsIn
    <2>3. \A j : j \in after <=> j \in 1 .. i + 1 /\ Kind(j) = "?"
      BY DEF QuestionsIn
    <2>4. i + 1 \in 1 .. i + 1 /\ \A j \in 1 .. i : j \in 1 .. i + 1 /\ j # i + 1
      OBVIOUS
    <2> HIDE DEF before, after, Kind
    <2> QED
      BY <2>1, <2>2, <2>3, <2>4
  <1>4. i + 1 \notin before
    BY <1>1
  <1>5. QuestionsIn(0) = {}
    BY DEF QuestionsIn
  <1> HIDE DEF before, after
  <1>6. Cardinality(before \union {i + 1}) = Cardinality(before) + 1
    BY <1>2, <1>4, FS_AddElement
  <1>7. Cardinality(QuestionsIn(0)) = 0
    BY <1>5, FS_EmptySet
  <1> QED
    BY <1>2, <1>3, <1>6, <1>7 DEF before, after


(* The text with its question marks numbered is one of tokens too.         *)
LEMMA NumberedTyped ==
  ASSUME PlaceholderTypeOK
  PROVE  /\ sql.tokens \in Seq(Tokens) /\ Size \in Nat
         /\ Numbered \in Seq(Tokens) /\ Len(Numbered) = Size
         /\ \A i \in 1 .. Size : Numbered[i] = IF Kind(i) = "?" THEN Dollar(Cardinality(QuestionsIn(i)))
                                               ELSE sql.tokens[i]
  <1>1. sql.tokens \in Seq(Tokens) /\ Size \in Nat
    BY PlaceholderAssumption, LenProperties DEF PlaceholderTypeOK, Size
  <1>2. DOMAIN sql.tokens = 1 .. Size /\ \A i \in 1 .. Size : sql.tokens[i] \in Tokens
    BY <1>1, LenProperties, ElementOfSeq DEF Size
  <1> DEFINE new(i) == IF Kind(i) = "?" THEN Dollar(Cardinality(QuestionsIn(i))) ELSE sql.tokens[i]
  <1>3. ASSUME NEW i \in 1 .. Size PROVE new(i) \in Tokens
    <2>1. i \in Nat
      BY <1>1
    <2>2. Cardinality(QuestionsIn(i)) \in Nat
      BY <2>1, QuestionsCounted
    <2> QED
      BY <1>2, <2>2 DEF Dollar, Tokens
  <1>4. Numbered = [i \in 1 .. Size |-> new(i)]
    BY <1>2 DEF Numbered
  <1> HIDE DEF new
  <1>5. Numbered \in [1 .. Size -> Tokens] /\ \A i \in 1 .. Size : Numbered[i] = new(i)
    BY <1>3, <1>4
  <1>6. Numbered \in Seq(Tokens)
    BY <1>1, <1>5, SeqDef
  <1>7. Len(Numbered) = Size
    BY <1>1, <1>5, <1>6, LenProperties
  <1> QED
    BY <1>1, <1>5, <1>6, <1>7 DEF new

(* Where the tokens read end in the old text and in the new one.           *)
LEMMA TextsTyped ==
  ASSUME PlaceholderTypeOK, NEW n \in 0 .. Size
  PROVE  /\ TextsOf(sql.tokens)[n] \in Seq(ByteSet) /\ Len(TextsOf(sql.tokens)[n]) \in Nat
         /\ TextsOf(Numbered)[n] \in Seq(ByteSet)
         /\ Len(TextsOf(sql.tokens)[n]) <= Len(TextOf(sql.tokens))
         /\ TextOf(sql.tokens) = TextsOf(sql.tokens)[Size]
         /\ TextOf(Numbered) = TextsOf(Numbered)[Size]
         /\ n > 0 => /\ TextsOf(sql.tokens)[n] = TextsOf(sql.tokens)[n - 1] \o BytesOf(sql.tokens[n])
                     /\ TextsOf(Numbered)[n] = TextsOf(Numbered)[n - 1] \o BytesOf(Numbered[n])
  <1>1. /\ sql.tokens \in Seq(Tokens) /\ Size \in Nat /\ Len(sql.tokens) = Size
        /\ Numbered \in Seq(Tokens) /\ Len(Numbered) = Size
    BY NumberedTyped DEF Size
  <1>2. n \in 0 .. Size /\ (n > 0 => n \in 1 .. Size) /\ Size \in 0 .. Size /\ n \in 0 .. Size
    BY <1>1
  <1>3. /\ TextsOf(sql.tokens)[n] \in Seq(ByteSet)
        /\ n > 0 => TextsOf(sql.tokens)[n] = TextsOf(sql.tokens)[n - 1] \o BytesOf(sql.tokens[n])
    BY <1>1, <1>2, TextsExist
  <1>4. /\ TextsOf(Numbered)[n] \in Seq(ByteSet)
        /\ n > 0 => TextsOf(Numbered)[n] = TextsOf(Numbered)[n - 1] \o BytesOf(Numbered[n])
    BY <1>1, <1>2, TextsExist
  <1>5. Len(TextsOf(sql.tokens)[n]) <= Len(TextsOf(sql.tokens)[Size])
    <2>1. Size \in 0 .. Len(sql.tokens) /\ n \in 0 .. Size
      BY <1>1, <1>2
    <2> QED
      BY <1>1, <2>1, TextsGrow
  <1>6. Len(TextsOf(sql.tokens)[n]) \in Nat
    BY <1>3, LenProperties
  <1> QED
    BY <1>1, <1>3, <1>4, <1>5, <1>6 DEF TextOf

(* The cursor meets the location of a question mark at that character, and *)
(* the location after it at the next one; it is before them until then.    *)
LEMMA Found ==
  ASSUME PlaceholderTypeOK, CountsKept, CursorKept, Seeking
  PROVE  /\ tokensRead \in Nat /\ tokensRead < Size
         /\ AtTarget => cursor.characters = IF preparing = "start" THEN tokensRead ELSE tokensRead + 1
         /\ ~AtTarget => /\ cursor.characters \in Nat
                         /\ cursor.characters <= tokensRead
                         /\ preparing = "start" => cursor.characters < tokensRead
  <1> DEFINE here == Location(tokensRead + 1)
             at == cursor.characters
  <1>1. /\ tokensRead \in Nat /\ tokensRead < Size /\ Kind(tokensRead + 1) = "?" /\ at \in Nat
        /\ preparing = "start" => at <= tokensRead
        /\ preparing = "end" => at \in {tokensRead, tokensRead + 1}
        /\ preparing \in {"start", "end"}
    BY NumberedTyped DEF PlaceholderTypeOK, CountsKept, CursorKept, Seeking
  <1>2. /\ here = <<here[1], here[2]>> /\ here[1] \in Nat /\ here[2] \in Nat
        /\ Location((tokensRead + 1) + 1) = <<here[1], here[2] + 1>>
    BY <1>1, LocationStep
  <1>3. Target = IF preparing = "start" THEN here ELSE Location((tokensRead + 1) + 1)
    BY <1>1, <1>2 DEF Target
  <1>4. AtTarget <=> Location(at + 1) = Target
    BY DEF AtTarget, CursorKept
  <1>5. CASE preparing = "start"
    <2>1. AtTarget => at = tokensRead
      BY <1>1, <1>3, <1>4, <1>5, LocationsDiffer
    <2>2. at = tokensRead => AtTarget
      BY <1>3, <1>4, <1>5
    <2> QED
      BY <1>1, <1>5, <2>1, <2>2
  <1>6. CASE preparing = "end"
    <2>1. at = tokensRead => ~AtTarget
      <3>1. tokensRead < tokensRead + 1 /\ tokensRead + 1 \in Nat
        BY <1>1
      <3>2. here # Location((tokensRead + 1) + 1)
        BY <1>1, <3>1, LocationsDiffer
      <3> QED
        BY <1>3, <1>4, <1>6, <3>2
    <2>2. at = tokensRead + 1 => AtTarget
      BY <1>3, <1>4, <1>6
    <2> QED
      BY <1>1, <1>6, <2>1, <2>2
  <1> QED
    BY <1>1, <1>5, <1>6

(* No step changes the statement.                                          *)
LEMMA SameStatement ==
  ASSUME sql' = sql
  PROVE  /\ Size' = Size /\ Numbered' = Numbered /\ DefinesParameters' = DefinesParameters
         /\ \A i : Kind(i)' = Kind(i) /\ QuestionsIn(i)' = QuestionsIn(i)
                   /\ Newlines(i)' = Newlines(i) /\ Location(i)' = Location(i)
  BY DEF Size, Numbered, DefinesParameters, Kind, QuestionsIn, Newlines, Location

(* Where the text is cut, the copy is the numbered text so far.            *)
LEMMA CopiedHere ==
  ASSUME PlaceholderInv, preparing \in {"tokens", "start"}
  PROVE  /\ CopiedTo(Len(TextsOf(sql.tokens)[tokensRead])) = TextsOf(Numbered)[tokensRead]
         /\ TextsOf(Numbered)[tokensRead] \in Seq(ByteSet)
         /\ preparing = "start" /\ AtTarget =>
                CopiedTo(cursor.offset) = TextsOf(Numbered)[tokensRead]
  <1>1. /\ CopiedTo(Len(TextsOf(sql.tokens)[tokensRead])) = TextsOf(Numbered)[tokensRead]
        /\ TextsOf(Numbered)[tokensRead] \in Seq(ByteSet)
    BY TextsTyped DEF PlaceholderInv, PlaceholderTypeOK, CopyKept
  <1>2. preparing = "start" /\ AtTarget => cursor.characters = tokensRead
    BY Found DEF PlaceholderInv, Seeking
  <1>3. cursor.offset = Len(TextsOf(sql.tokens)[cursor.characters])
    BY DEF PlaceholderInv, CursorKept
  <1> QED
    BY <1>1, <1>2, <1>3

(* Types.                                                                  *)
LEMMA PlaceholderTypeStep ==
  ASSUME PlaceholderInv, [PlaceholderNext]_placeholderVars
  PROVE  PlaceholderTypeOK'
  <1>1. /\ sql \in SqlStatements /\ tokensRead \in 0 .. Size
        /\ preparing \in {"tokens", "start", "end", "prepared", "invalid", "bound", "refused"}
        /\ questions \in Nat /\ numberMax \in Nat /\ named \subseteq Names
        /\ cursor \in [characters : 0 .. Size, offset : Nat, line : Nat, column : Nat]
        /\ rewritten \in Seq(ByteSet) /\ lastByte \in Nat
        /\ passed \in ArgumentLists \union {<<>>} /\ PlaceholderTypeOK
    BY DEF PlaceholderInv, PlaceholderTypeOK, ByteSet
  <1>2. /\ sql.tokens \in Seq(Tokens) /\ Size \in Nat
        /\ \A i \in 1 .. Size : sql.tokens[i] \in Tokens
    BY <1>1, NumberedTyped, ElementOfSeq DEF Size
  <1> SUFFICES /\ sql' \in SqlStatements /\ tokensRead' \in 0 .. Size'
               /\ preparing' \in {"tokens", "start", "end", "prepared", "invalid", "bound", "refused"}
               /\ questions' \in Nat /\ numberMax' \in Nat /\ named' \subseteq Names
               /\ cursor' \in [characters : 0 .. Size', offset : Nat, line : Nat, column : Nat]
               /\ rewritten' \in Seq(ByteSet) /\ lastByte' \in Nat
               /\ passed' \in ArgumentLists \union {<<>>}
    BY DEF PlaceholderTypeOK, ByteSet
  <1>3. sql' = sql => Size' = Size
    BY SameStatement
  <1>4. TextOf(sql.tokens) \in Seq(ByteSet)
    <2>1. Size \in 0 .. Size
      BY <1>2
    <2> QED
      BY <1>1, <2>1, TextsTyped
  <1>5. CASE KeepDefinition
    BY <1>1, <1>3, <1>4, <1>5 DEF KeepDefinition, scanVars
  <1>6. CASE ReadText \/ ReadNumber \/ ReadName
    <2>1. /\ sql' = sql /\ tokensRead' = tokensRead + 1 /\ tokensRead + 1 \in 1 .. Size
          /\ UNCHANGED <<preparing, questions, cursor, rewritten, lastByte, passed>>
      BY <1>1, <1>2, <1>6 DEF ReadText, ReadNumber, ReadName, NextToken, Scanning
    <2>2. sql.tokens[tokensRead + 1] \in Tokens
      BY <1>2, <2>1
    <2>3. numberMax' \in Nat
      BY <1>1, <1>6, <2>2 DEF ReadText, ReadNumber, ReadName, Tokens
    <2>4. named' \subseteq Names
      BY <1>1, <1>6, <2>2 DEF ReadText, ReadNumber, ReadName, Tokens
    <2> QED
      BY <1>1, <1>2, <1>3, <2>1, <2>3, <2>4
  <1>7. CASE RejectToken \/ ReadQuestion
    <2>1. UNCHANGED <<sql, tokensRead, numberMax, named, cursor, rewritten, lastByte, passed>>
          /\ preparing' \in {"invalid", "start"} /\ questions' \in {questions, questions + 1}
      BY <1>7 DEF RejectToken, ReadQuestion, scanVars
    <2> QED
      BY <1>1, <1>3, <2>1
  <1>8. CASE Seek
    <2>1. UNCHANGED <<sql, tokensRead, questions, numberMax, named, rewritten, lastByte, passed>>
      BY <1>8 DEF Seek, scanVars
    <2>2. preparing' \in {preparing, "invalid"}
      BY <1>8 DEF Seek
    <2>3. CASE cursor' = cursor
      BY <1>1, <1>3, <2>1, <2>2, <2>3
    <2>4. CASE cursor' # cursor
      <3>1. cursor.characters < Size /\ cursor' = Advance(sql.tokens[cursor.characters + 1])
        BY <1>8, <2>4 DEF Seek
      <3>2. cursor.characters + 1 \in 1 .. Size
        BY <1>1, <1>2, <3>1
      <3> DEFINE width == Len(BytesOf(sql.tokens[cursor.characters + 1]))
      <3>3. width \in Nat
        BY <1>2, <3>2, BytesTyped
      <3> HIDE DEF width
      <3>4. cursor' \in [characters : 0 .. Size, offset : Nat, line : Nat, column : Nat]
        BY <1>1, <3>1, <3>2, <3>3 DEF Advance, width
      <3> QED
        BY <1>1, <1>3, <2>1, <2>2, <3>4
    <2> QED
      BY <2>3, <2>4
  <1>9. CASE Replace
    <2>1. /\ rewritten' = TextsOf(Numbered)[tokensRead] \o BytesOf(Dollar(questions))
          /\ TextsOf(Numbered)[tokensRead] \in Seq(ByteSet)
      BY <1>9, CopiedHere DEF Replace
    <2>2. Dollar(questions) \in Tokens
      BY <1>1 DEF Dollar, Tokens
    <2>3. rewritten' \in Seq(ByteSet)
      BY <2>1, <2>2, BytesTyped, ConcatProperties
    <2>4. UNCHANGED <<sql, tokensRead, questions, numberMax, named, cursor, lastByte, passed>> /\ preparing' = "end"
      BY <1>9 DEF Replace, scanVars
    <2> QED
      BY <1>1, <1>3, <2>3, <2>4
  <1>10. CASE Replaced
    <2>1. tokensRead < Size
      BY <1>10, Found DEF Replaced, PlaceholderInv, Seeking
    <2>2. UNCHANGED <<sql, questions, numberMax, named, cursor, rewritten, passed>>
          /\ preparing' = "tokens" /\ lastByte' = cursor.offset /\ tokensRead' = tokensRead + 1
      BY <1>10 DEF Replaced, scanVars
    <2>3. tokensRead' \in 0 .. Size /\ lastByte' \in Nat
      BY <1>1, <1>2, <2>1, <2>2
    <2> QED
      BY <1>1, <1>3, <2>2, <2>3
  <1>11. CASE Prepared
    <2>1. UNCHANGED <<sql, tokensRead, questions, numberMax, named, cursor, lastByte, passed>>
          /\ preparing' \in {"invalid", "prepared"}
      BY <1>11 DEF Prepared, scanVars
    <2>2. rewritten' \in Seq(ByteSet)
      <3>1. rewritten' \in {rewritten, CopiedTo(Len(TextOf(sql.tokens)))}
        BY <1>11 DEF Prepared
      <3>2. tokensRead = Size /\ preparing = "tokens"
        BY <1>11 DEF Prepared
      <3>3. TextOf(sql.tokens) = TextsOf(sql.tokens)[tokensRead]
        BY <1>1, <3>2, TextsTyped
      <3> QED
        BY <1>1, <3>1, <3>2, <3>3, CopiedHere
    <2> QED
      BY <1>1, <1>3, <2>1, <2>2
  <1>12. CASE Execute
    <2>1. UNCHANGED <<sql, tokensRead, questions, numberMax, named, cursor, rewritten, lastByte>>
          /\ preparing' \in {"bound", "refused"} /\ passed' \in ArgumentLists
      BY <1>12 DEF Execute, scanVars
    <2> QED
      BY <1>1, <1>3, <2>1
  <1>13. CASE UNCHANGED placeholderVars
    BY <1>1, <1>3, <1>13 DEF placeholderVars, scanVars
  <1> QED
    BY <1>5, <1>6, <1>7, <1>8, <1>9, <1>10, <1>11, <1>12, <1>13 DEF PlaceholderNext

\* The names, the largest number and the syntax of the first tokens.
NamedIn(i) == {sql.tokens[j].value : j \in {j \in 1 .. i : Kind(j) = "name"}}
LargestIn(i, max) == max # 0 => Dollar(max) \in {sql.tokens[j] : j \in 1 .. i}
NumberedIn(i, max) ==
    \A j \in 1 .. i : Kind(j) # "other" /\ (Kind(j) = "$" => sql.tokens[j].value \in 1 .. max)

(* One more token.                                                         *)
LEMMA OneMoreToken ==
  ASSUME NEW i \in Nat
  PROVE  /\ Kind(i + 1) = "name" => NamedIn(i + 1) = NamedIn(i) \union {sql.tokens[i + 1].value}
         /\ Kind(i + 1) # "name" => NamedIn(i + 1) = NamedIn(i)
         /\ \A max : LargestIn(i, max) => LargestIn(i + 1, max)
         /\ sql.tokens[i + 1] = Dollar(sql.tokens[i + 1].value) =>
                LargestIn(i + 1, sql.tokens[i + 1].value)
         /\ \A old \in Nat, max \in Nat :
                NumberedIn(i, old) /\ old <= max /\ Kind(i + 1) # "other"
                /\ (Kind(i + 1) = "$" => sql.tokens[i + 1].value \in 1 .. max)
                => NumberedIn(i + 1, max)
  <1>1. /\ \A j \in 1 .. i + 1 : j = i + 1 \/ j \in 1 .. i
        /\ i + 1 \in 1 .. i + 1 /\ \A j \in 1 .. i : j \in 1 .. i + 1 /\ j # i + 1
    OBVIOUS
  <1>2. /\ Kind(i + 1) = "name" => NamedIn(i + 1) = NamedIn(i) \union {sql.tokens[i + 1].value}
        /\ Kind(i + 1) # "name" => NamedIn(i + 1) = NamedIn(i)
    <2> DEFINE before == {j \in 1 .. i : Kind(j) = "name"}
               after == {j \in 1 .. i + 1 : Kind(j) = "name"}
    <2>1. Kind(i + 1) = "name" => after = before \union {i + 1}
      BY <1>1
    <2>2. Kind(i + 1) # "name" => after = before
      BY <1>1
    <2>3. NamedIn(i) = {sql.tokens[j].value : j \in before}
          /\ NamedIn(i + 1) = {sql.tokens[j].value : j \in after}
      BY DEF NamedIn
    <2> HIDE DEF before, after, NamedIn, Kind
    <2> QED
      BY <2>1, <2>2, <2>3
  <1>3. \A max : LargestIn(i, max) => LargestIn(i + 1, max)
    BY <1>1 DEF LargestIn
  <1>4. sql.tokens[i + 1] = Dollar(sql.tokens[i + 1].value) =>
            LargestIn(i + 1, sql.tokens[i + 1].value)
    BY <1>1 DEF LargestIn
  <1>5. ASSUME NEW old \in Nat, NEW max \in Nat,
               NumberedIn(i, old), old <= max, Kind(i + 1) # "other",
               Kind(i + 1) = "$" => sql.tokens[i + 1].value \in 1 .. max
        PROVE  NumberedIn(i + 1, max)
    <2>1. \A k : k \in 1 .. old => k \in 1 .. max
      BY <1>5
    <2> HIDE DEF Kind
    <2> QED
      BY <1>1, <1>5, <2>1 DEF NumberedIn
  <1> QED
    BY <1>2, <1>3, <1>4, <1>5

CountsAre(read, seeking, executable, q, max, names) ==
    /\ q = Cardinality(QuestionsIn(IF seeking THEN read + 1 ELSE read))
    /\ names = NamedIn(read) /\ LargestIn(read, max) /\ NumberedIn(read, max)
    /\ seeking => ~DefinesParameters /\ read < Size /\ Kind(read + 1) = "?"
    /\ executable /\ ~DefinesParameters =>
        read = Size /\ ~(\/ q > 0 /\ (max > 0 \/ names # {})
                         \/ max > 0 /\ names # {})
    /\ DefinesParameters => read = 0

LEMMA CountsOf ==
  /\ CountsKept <=> CountsAre(tokensRead, Seeking, Executable, questions, numberMax, named)
  /\ sql' = sql =>
        (CountsKept' <=> CountsAre(tokensRead', preparing' \in {"start", "end"},
                                   preparing' \in {"prepared", "bound", "refused"},
                                   questions', numberMax', named'))
  <1>1. CountsKept <=> CountsAre(tokensRead, Seeking, Executable, questions, numberMax, named)
    BY DEF CountsKept, CountsAre, NamedIn, LargestIn, NumberedIn, Mixed
  <1>2. ASSUME sql' = sql
        PROVE  CountsKept' <=> CountsAre(tokensRead', preparing' \in {"start", "end"},
                                   preparing' \in {"prepared", "bound", "refused"},
                                   questions', numberMax', named')
    BY <1>2 DEF CountsKept, CountsAre, NamedIn, LargestIn, NumberedIn, Mixed, Seeking, Executable,
        QuestionsIn, Kind, DefinesParameters, Size
  <1> QED
    BY <1>1, <1>2

(* The counts after a step.                                                *)
LEMMA CountsStep ==
  ASSUME PlaceholderInv, [PlaceholderNext]_placeholderVars
  PROVE  CountsKept'
  <1>1. /\ CountsAre(tokensRead, Seeking, Executable, questions, numberMax, named)
        /\ tokensRead \in Nat /\ tokensRead \in 0 .. Size /\ Size \in Nat
        /\ questions \in Nat /\ numberMax \in Nat
        /\ \A i \in 1 .. Size : sql.tokens[i] \in Tokens
    BY CountsOf, NumberedTyped, ElementOfSeq DEF PlaceholderInv, PlaceholderTypeOK, Size
  <1> DEFINE after == CountsAre(tokensRead', preparing' \in {"start", "end"},
                                preparing' \in {"prepared", "bound", "refused"},
                                questions', numberMax', named')
             here == tokensRead + 1
  <1>2. sql' = sql
    BY DEF PlaceholderNext, KeepDefinition, ReadText, ReadNumber, ReadName, NextToken, RejectToken,
        ReadQuestion, Seek, Replace, Replaced, Prepared, Execute, placeholderVars
  <1> SUFFICES after
    BY <1>2, CountsOf
  <1>3. CASE KeepDefinition
    BY <1>1, <1>3 DEF KeepDefinition, scanVars, CountsAre, Seeking, Executable
  <1>4. CASE ReadText \/ ReadNumber \/ ReadName
    <2>1. /\ preparing = "tokens" /\ preparing' = "tokens" /\ tokensRead' = here
          /\ questions' = questions /\ ~DefinesParameters /\ here \in 1 .. Size
          /\ (here - 1) = tokensRead
      BY <1>1, <1>4 DEF ReadText, ReadNumber, ReadName, NextToken, Scanning
    <2>2. /\ questions = Cardinality(QuestionsIn(tokensRead))
          /\ named = NamedIn(tokensRead) /\ LargestIn(tokensRead, numberMax)
          /\ NumberedIn(tokensRead, numberMax)
      BY <1>1, <2>1 DEF CountsAre, Seeking
    <2>3. sql.tokens[here] \in Tokens
      BY <1>1, <2>1
    <2>4. /\ Kind(here) \in {"text", "newline", "$", "name"}
          /\ Kind(here) = "name" => named' = named \union {sql.tokens[here].value}
          /\ Kind(here) # "name" => named' = named
          /\ Kind(here) = "$" => sql.tokens[here].value # 0
          /\ numberMax' = IF Kind(here) = "$" /\ sql.tokens[here].value > numberMax
                          THEN sql.tokens[here].value ELSE numberMax
      BY <1>4 DEF ReadText, ReadNumber, ReadName, Kind
    <2>5. /\ Kind(here) = "$" => /\ sql.tokens[here].value \in Nat
                                 /\ sql.tokens[here] = Dollar(sql.tokens[here].value)
      BY <2>3 DEF Kind, Tokens, Dollar
    <2>6. /\ numberMax' \in Nat /\ numberMax <= numberMax'
          /\ Kind(here) = "$" => sql.tokens[here].value \in 1 .. numberMax'
      BY <1>1, <2>4, <2>5
    <2>7. questions' = Cardinality(QuestionsIn(here))
      BY <1>1, <2>1, <2>2, <2>4, QuestionsCounted
    <2>8. named' = NamedIn(here)
      BY <1>1, <2>2, <2>4, OneMoreToken
    <2>9. LargestIn(here, numberMax')
      BY <1>1, <2>2, <2>4, <2>5, OneMoreToken
    <2>10. NumberedIn(here, numberMax')
      BY <1>1, <2>2, <2>4, <2>6, OneMoreToken
    <2> QED
      BY <2>1, <2>7, <2>8, <2>9, <2>10 DEF CountsAre
  <1>5. CASE RejectToken
    BY <1>1, <1>5 DEF RejectToken, scanVars, CountsAre, Seeking, Executable, Scanning
  <1>6. CASE ReadQuestion
    <2>1. /\ preparing = "tokens" /\ preparing' = "start" /\ Kind(here) = "?" /\ tokensRead < Size
          /\ questions' = questions + 1 /\ ~DefinesParameters
          /\ UNCHANGED <<tokensRead, numberMax, named>>
      BY <1>6 DEF ReadQuestion, Scanning
    <2>2. questions' = Cardinality(QuestionsIn(here))
      BY <1>1, <2>1, QuestionsCounted DEF CountsAre, Seeking
    <2> QED
      BY <1>1, <2>1, <2>2 DEF CountsAre, Seeking
  <1>7. CASE Seek
    <2>1. UNCHANGED <<tokensRead, questions, numberMax, named>> /\ preparing \in {"start", "end"}
      BY <1>7 DEF Seek, scanVars
    <2>2. preparing' = preparing
      <3>1. cursor.characters < Size
        <4>1. cursor.characters \in Nat /\ cursor.characters <= tokensRead /\ tokensRead < Size
          BY <1>7, Found DEF Seek, PlaceholderInv, Seeking
        <4> QED
          BY <1>1, <4>1
      <3> QED
        BY <1>7, <3>1 DEF Seek
    <2> QED
      BY <1>1, <2>1, <2>2 DEF CountsAre, Seeking
  <1>8. CASE Replace
    BY <1>1, <1>8 DEF Replace, scanVars, CountsAre, Seeking
  <1>9. CASE Replaced
    <2>1. /\ preparing = "end" /\ preparing' = "tokens" /\ tokensRead' = here
          /\ UNCHANGED <<questions, numberMax, named>>
      BY <1>9 DEF Replaced, scanVars
    <2>2. /\ questions = Cardinality(QuestionsIn(here)) /\ named = NamedIn(tokensRead)
          /\ LargestIn(tokensRead, numberMax) /\ NumberedIn(tokensRead, numberMax)
          /\ Kind(here) = "?" /\ ~DefinesParameters
      BY <1>1, <2>1 DEF CountsAre, Seeking
    <2>3. /\ NamedIn(here) = NamedIn(tokensRead) /\ LargestIn(here, numberMax)
      BY <1>1, <2>2, OneMoreToken
    <2>4. NumberedIn(here, numberMax)
      BY <1>1, <2>2, OneMoreToken
    <2> QED
      BY <2>1, <2>2, <2>3, <2>4 DEF CountsAre
  <1>10. CASE Prepared
    BY <1>1, <1>10 DEF Prepared, scanVars, CountsAre, Seeking, Executable, Mixed
  <1>11. CASE Execute
    BY <1>1, <1>11 DEF Execute, scanVars, CountsAre, Seeking, Executable
  <1>12. CASE UNCHANGED placeholderVars
    BY <1>1, <1>12 DEF placeholderVars, scanVars, CountsAre, Seeking, Executable
  <1> QED
    BY <1>3, <1>4, <1>5, <1>6, <1>7, <1>8, <1>9, <1>10, <1>11, <1>12 DEF PlaceholderNext

(* The cursor after a step.                                                *)
LEMMA CursorStep ==
  ASSUME PlaceholderInv, [PlaceholderNext]_placeholderVars
  PROVE  CursorKept'
  <1>1. /\ PlaceholderTypeOK /\ CountsKept /\ CursorKept
        /\ tokensRead \in Nat /\ tokensRead \in 0 .. Size /\ Size \in Nat
        /\ cursor \in [characters : 0 .. Size, offset : Nat, line : Nat, column : Nat]
    BY NumberedTyped DEF PlaceholderInv, PlaceholderTypeOK
  <1>2. sql' = sql
    BY DEF PlaceholderNext, KeepDefinition, ReadText, ReadNumber, ReadName, NextToken, RejectToken,
        ReadQuestion, Seek, Replace, Replaced, Prepared, Execute, placeholderVars
  <1> DEFINE Placed(c) == /\ c.offset = Len(TextsOf(sql.tokens)[c.characters])
                          /\ <<c.line, c.column>> = Location(c.characters + 1)
             NotPast(c) == /\ preparing' \in {"tokens", "start"} => c.characters <= tokensRead'
                           /\ preparing' = "end" => c.characters \in {tokensRead', tokensRead' + 1}
  <1>3. Placed(cursor)
    BY <1>1 DEF CursorKept
  <1>4. ASSUME Placed(cursor'), NotPast(cursor') PROVE CursorKept'
    <2>1. Location(cursor.characters + 1)' = Location(cursor'.characters + 1)
      BY <1>2 DEF Location, Newlines, Kind
    <2> QED
      BY <1>2, <1>4, <2>1 DEF CursorKept
  <1>5. CASE Seek /\ cursor' # cursor
    <2> DEFINE c == cursor.characters
    <2>1. /\ cursor' = Advance(sql.tokens[c + 1]) /\ c < Size /\ preparing' = preparing
          /\ preparing \in {"start", "end"} /\ tokensRead' = tokensRead /\ ~AtTarget
      BY <1>5 DEF Seek
    <2>2. /\ c \in Nat /\ c <= tokensRead /\ (preparing = "start" => c < tokensRead)
          /\ c + 1 \in 1 .. Size /\ c + 1 \in 0 .. Size /\ c \in 0 .. Size /\ (c + 1) - 1 = c /\ c + 1 > 0
      BY <1>1, <2>1, Found DEF Seeking
    <2>3. /\ cursor'.characters = c + 1
          /\ cursor'.offset = cursor.offset + Len(BytesOf(sql.tokens[c + 1]))
          /\ cursor'.line = IF Kind(c + 1) = "newline" THEN cursor.line + 1 ELSE cursor.line
          /\ cursor'.column = IF Kind(c + 1) = "newline" THEN 1 ELSE cursor.column + 1
      BY <2>1 DEF Advance, Kind
    <2>4. cursor'.offset = Len(TextsOf(sql.tokens)[c + 1])
      <3>1. TextsOf(sql.tokens)[c + 1] = TextsOf(sql.tokens)[c] \o BytesOf(sql.tokens[c + 1])
            /\ TextsOf(sql.tokens)[c] \in Seq(ByteSet)
        BY <1>1, <2>2, TextsTyped
      <3>2. BytesOf(sql.tokens[c + 1]) \in Seq(ByteSet)
        BY <1>1, <2>2, NumberedTyped, ElementOfSeq, BytesTyped DEF Size
      <3> QED
        BY <1>3, <2>3, <3>1, <3>2, ConcatProperties
    <2>5. <<cursor'.line, cursor'.column>> = Location((c + 1) + 1)
      <3>1. <<cursor.line, cursor.column>> = Location(c + 1)
        BY <1>3
      <3>2. cursor.line = Location(c + 1)[1] /\ cursor.column = Location(c + 1)[2]
        BY <3>1
      <3>3. Location((c + 1) + 1) =
              IF Kind(c + 1) = "newline" THEN <<cursor.line + 1, 1>> ELSE <<cursor.line, cursor.column + 1>>
        BY <2>2, <3>2, LocationStep
      <3> QED
        BY <2>3, <3>3
    <2>6. NotPast(cursor')
      <3>1. preparing = "end" => c = tokensRead
        BY <1>1, <2>2 DEF CursorKept
      <3> QED
        BY <1>1, <2>1, <2>2, <2>3, <3>1
    <2> QED
      BY <1>4, <2>3, <2>4, <2>5, <2>6
  <1>6. CASE cursor' = cursor
    <2>1. NotPast(cursor)
      <3>1. CASE KeepDefinition \/ RejectToken \/ Prepared \/ Execute
        BY <3>1 DEF KeepDefinition, RejectToken, Prepared, Execute
      <3>2. CASE ReadText \/ ReadNumber \/ ReadName
        <4>1. preparing = "tokens" /\ preparing' = "tokens" /\ tokensRead' = tokensRead + 1
              /\ cursor.characters \in Nat
          BY <1>1, <3>2 DEF ReadText, ReadNumber, ReadName, NextToken, Scanning
        <4> QED
          BY <1>1, <4>1 DEF CursorKept
      <3>3. CASE ReadQuestion
        BY <1>1, <3>3 DEF ReadQuestion, Scanning, CursorKept
      <3>4. CASE Seek
        BY <1>1, <3>4 DEF Seek, CursorKept
      <3>5. CASE Replace
        <4>1. cursor.characters = tokensRead
          BY <1>1, <3>5, Found DEF Replace, Seeking
        <4> QED
          BY <3>5, <4>1 DEF Replace
      <3>6. CASE Replaced
        <4>1. cursor.characters = tokensRead + 1
          BY <1>1, <3>6, Found DEF Replaced, Seeking
        <4> QED
          BY <1>1, <3>6, <4>1 DEF Replaced
      <3>7. CASE UNCHANGED placeholderVars
        BY <1>1, <3>7 DEF placeholderVars, CursorKept
      <3> QED
        BY <3>1, <3>2, <3>3, <3>4, <3>5, <3>6, <3>7 DEF PlaceholderNext
    <2> QED
      BY <1>3, <1>4, <1>6, <2>1
  <1> QED
    BY <1>5, <1>6 DEF PlaceholderNext, KeepDefinition, ReadText, ReadNumber, ReadName, NextToken,
        RejectToken, ReadQuestion, Replace, Replaced, Prepared, Execute, placeholderVars

Associates(s, t, u) == (s \o t) \o u = s \o (t \o u)

LEMMA Associative ==
  ASSUME NEW S, NEW s \in Seq(S), NEW t \in Seq(S), NEW u \in Seq(S)
  PROVE  Associates(s, t, u)
  BY ConcatAssociative DEF Associates

(* The copy after a step.                                                  *)
LEMMA CopyStep ==
  ASSUME PlaceholderInv, [PlaceholderNext]_placeholderVars
  PROVE  CopyKept'
  <1>1. /\ PlaceholderTypeOK /\ CountsKept /\ CursorKept /\ CopyKept
        /\ tokensRead \in Nat /\ tokensRead \in 0 .. Size /\ Size \in Nat
        /\ lastByte \in Nat /\ rewritten \in Seq(ByteSet)
        /\ sql.tokens \in Seq(Tokens) /\ Len(sql.tokens) = Size
    BY NumberedTyped DEF PlaceholderInv, PlaceholderTypeOK, ByteSet, Size
  <1>2. sql' = sql
    BY DEF PlaceholderNext, KeepDefinition, ReadText, ReadNumber, ReadName, NextToken, RejectToken,
        ReadQuestion, Seek, Replace, Replaced, Prepared, Execute, placeholderVars
  <1> DEFINE byte(n) == Len(TextsOf(sql.tokens)[n])
             text == TextOf(sql.tokens)
             new == TextsOf(Numbered)
             here == tokensRead + 1
  <1>3. ASSUME preparing' \in {"tokens", "start"} =>
                  /\ lastByte' <= byte(tokensRead')
                  /\ rewritten' \o SubSeq(text, lastByte' + 1, byte(tokensRead')) = new[tokensRead'],
               preparing' = "end" => rewritten' = new[tokensRead' + 1]
        PROVE  CopyKept'
    BY <1>2, <1>3 DEF CopyKept, CopiedTo, Numbered, Kind, QuestionsIn
  <1>4. preparing \in {"tokens", "start"} =>
            /\ lastByte <= byte(tokensRead)
            /\ rewritten \o SubSeq(text, lastByte + 1, byte(tokensRead)) = new[tokensRead]
    BY <1>1 DEF CopyKept, CopiedTo
  <1>5. preparing = "end" => rewritten = new[here]
    BY <1>1 DEF CopyKept
  <1> HIDE DEF byte, text, new
  <1>6. CASE ReadText \/ ReadNumber \/ ReadName
    <2>1. /\ preparing = "tokens" /\ preparing' = "tokens" /\ tokensRead' = here
          /\ UNCHANGED <<rewritten, lastByte>> /\ Kind(here) # "?"
          /\ here \in 1 .. Size /\ here - 1 = tokensRead /\ here > 0 /\ here \in 0 .. Size
      BY <1>1, <1>6 DEF ReadText, ReadNumber, ReadName, NextToken, Scanning, Kind
    <2> DEFINE piece == BytesOf(sql.tokens[here])
               copied == SubSeq(text, lastByte + 1, byte(tokensRead))
    <2>2. /\ copied \in Seq(ByteSet)
          /\ SubSeq(text, lastByte + 1, byte(here)) = copied \o piece
          /\ byte(tokensRead) <= byte(here)
      BY <1>1, <1>4, <2>1, CopyGrows DEF byte, text
    <2>3. piece \in Seq(ByteSet)
      BY <1>1, <2>1, ElementOfSeq, BytesTyped
    <2>4. new[here] = new[tokensRead] \o piece
      <3>1. Numbered[here] = sql.tokens[here]
        BY <1>1, <2>1, NumberedTyped
      <3> QED
        BY <1>1, <2>1, <3>1, TextsTyped DEF new
    <2>5. byte(tokensRead) \in Nat /\ byte(here) \in Nat
      BY <1>1, <2>1, TextsTyped DEF byte
    <2> HIDE DEF piece, copied
    <2>6. rewritten \o (copied \o piece) = (rewritten \o copied) \o piece
      <3> DEFINE B == ByteSet
                 all == rewritten
      <3> HIDE DEF B, all
      <3>1. all \in Seq(B) /\ copied \in Seq(B) /\ piece \in Seq(B)
        BY <1>1, <2>2, <2>3 DEF all, B
      <3>2. Associates(all, copied, piece)
        BY <3>1, Associative
      <3> QED
        BY <3>2 DEF all, Associates
    <2>7. lastByte <= byte(here)
      BY <1>1, <1>4, <2>1, <2>2, <2>5
    <2> QED
      BY <1>3, <1>4, <2>1, <2>2, <2>4, <2>6, <2>7 DEF copied
  <1>7. CASE ReadQuestion
    BY <1>3, <1>4, <1>7 DEF ReadQuestion, Scanning
  <1>8. CASE Seek
    <2>1. /\ preparing \in {"start", "end"} /\ preparing' \in {preparing, "invalid"}
          /\ UNCHANGED <<tokensRead, rewritten, lastByte>>
      BY <1>8 DEF Seek
    <2> QED
      BY <1>3, <1>4, <1>5, <2>1
  <1>9. CASE Replace
    <2>1. /\ preparing = "start" /\ preparing' = "end" /\ tokensRead' = tokensRead
          /\ rewritten' = new[tokensRead] \o BytesOf(Dollar(questions))
      BY <1>9, CopiedHere DEF Replace, new
    <2>2. /\ questions = Cardinality(QuestionsIn(here)) /\ Kind(here) = "?" /\ tokensRead < Size
      BY <1>1, <2>1 DEF CountsKept, Seeking
    <2>3. here \in 1 .. Size /\ here - 1 = tokensRead /\ here > 0 /\ here \in 0 .. Size
      BY <1>1, <2>2
    <2>4. Numbered[here] = Dollar(questions)
      BY <1>1, <2>2, <2>3, NumberedTyped
    <2>5. new[here] = new[tokensRead] \o BytesOf(Dollar(questions))
      BY <1>1, <2>3, <2>4, TextsTyped DEF new
    <2> QED
      BY <1>3, <2>1, <2>5
  <1>10. CASE Replaced
    <2>1. /\ preparing = "end" /\ preparing' = "tokens" /\ tokensRead' = here
          /\ rewritten' = rewritten /\ lastByte' = cursor.offset /\ AtTarget
      BY <1>10 DEF Replaced
    <2>2. cursor.characters = here /\ tokensRead < Size
      BY <1>1, <2>1, Found DEF Seeking
    <2>3. lastByte' = byte(here)
      BY <1>1, <2>1, <2>2 DEF CursorKept, byte
    <2>4. byte(here) \in Nat /\ new[here] \in Seq(ByteSet)
      <3>1. here \in 0 .. Size
        BY <1>1, <2>2
      <3> QED
        BY <1>1, <3>1, TextsTyped DEF byte, new
    <2>5. SubSeq(text, byte(here) + 1, byte(here)) = <<>>
      <3>1. text \in Seq(ByteSet) /\ byte(here) <= Len(text)
        <4>1. here \in 0 .. Size /\ Size \in 0 .. Size
          BY <1>1, <2>2
        <4> QED
          BY <1>1, <4>1, TextsTyped DEF text, byte
      <3> DEFINE b == byte(here)
      <3> HIDE DEF b
      <3>2. b \in Nat /\ b + 1 \in 1 .. Len(text) + 1 /\ b \in b + 1 - 1 .. Len(text) /\ b <= Len(text) /\ b + 1 > b
        BY <2>4, <3>1, LenProperties DEF b
      <3>3. SubSeq(text, b + 1, b) = <<>>
        BY <3>1, <3>2, SubSeqEmpty
      <3> QED
        BY <3>3 DEF b
    <2>6. rewritten \o <<>> = rewritten
      BY <1>1, ConcatEmptySeq
    <2> QED
      BY <1>3, <1>5, <2>1, <2>3, <2>4, <2>5, <2>6
  <1>11. CASE KeepDefinition \/ RejectToken \/ Prepared \/ Execute
    BY <1>3, <1>11 DEF KeepDefinition, RejectToken, Prepared, Execute
  <1>12. CASE UNCHANGED placeholderVars
    BY <1>3, <1>4, <1>5, <1>12 DEF placeholderVars
  <1> QED
    BY <1>6, <1>7, <1>8, <1>9, <1>10, <1>11, <1>12 DEF PlaceholderNext

(* What was refused, or bound, depends on what was counted and passed.     *)
LEMMA SameCounts ==
  ASSUME UNCHANGED <<sql, scanVars>>
  PROVE  /\ \A args : ArgumentsRefused(args)' <=> ArgumentsRefused(args)
         /\ \A bindings : ParamValues(bindings)' = ParamValues(bindings)
  BY DEF scanVars, ArgumentsRefused, ParamsRefused, ParamValues, ParameterMetadata

(* The execution after a step.                                             *)
LEMMA ExecutionStep ==
  ASSUME PlaceholderInv, [PlaceholderNext]_placeholderVars
  PROVE  ExecutionKept'
  <1>1. /\ PlaceholderTypeOK /\ CountsKept /\ CursorKept /\ ExecutionKept
        /\ tokensRead \in Nat /\ tokensRead \in 0 .. Size /\ Size \in Nat
        /\ numberMax \in Nat
        /\ DOMAIN sql.tokens = 1 .. Size
    BY NumberedTyped, LenProperties DEF PlaceholderInv, PlaceholderTypeOK, Size
  <1>2. sql' = sql
    BY DEF PlaceholderNext, KeepDefinition, ReadText, ReadNumber, ReadName, NextToken, RejectToken,
        ReadQuestion, Seek, Replace, Replaced, Prepared, Execute, placeholderVars
  <1> DEFINE Other == \E i \in DOMAIN sql.tokens : Kind(i) \notin {"?", "text", "newline"}
             Known(p, args, vals) ==
                /\ p = "bound" => ~ArgumentsRefused(args) /\ vals = ParamValues(Bindings(args))
                /\ p = "refused" => ArgumentsRefused(args)
                /\ p \in {"bound", "refused"} => args \in ArgumentLists
                /\ p = "invalid" => Other
  <1>3. Known(preparing, passed, values)
    BY <1>1 DEF ExecutionKept
  <1>4. ASSUME Known(preparing', passed', values'), UNCHANGED scanVars PROVE ExecutionKept'
    BY <1>2, <1>4 DEF ExecutionKept, ArgumentsRefused, ParamsRefused, ParamValues, ParameterMetadata,
        scanVars, Kind
  <1>5. ASSUME preparing' \in {"tokens", "start", "end", "prepared"} PROVE ExecutionKept'
    BY <1>5 DEF ExecutionKept
  <1> HIDE DEF Other
  <1>6. CASE KeepDefinition \/ ReadQuestion \/ Replace \/ Replaced
    BY <1>5, <1>6 DEF KeepDefinition, ReadQuestion, Replace, Replaced
  <1>7. CASE ReadText \/ ReadNumber \/ ReadName
    BY <1>5, <1>7 DEF ReadText, ReadNumber, ReadName, NextToken, Scanning
  <1>8. CASE RejectToken
    <2>1. /\ tokensRead < Size /\ preparing' = "invalid" /\ UNCHANGED scanVars
          /\ Kind(tokensRead + 1) \in {"$", "other"}
      BY <1>8 DEF RejectToken, Scanning, Kind, Dollar
    <2>2. Other
      <3>1. tokensRead + 1 \in 1 .. Size
        BY <1>1, <2>1
      <3> QED
        BY <1>1, <2>1, <3>1 DEF Other
    <2> QED
      BY <1>4, <2>1, <2>2
  <1>9. CASE Seek
    <2>1. cursor.characters < Size
      <3>1. cursor.characters \in Nat /\ cursor.characters <= tokensRead /\ tokensRead < Size
        BY <1>1, <1>9, Found DEF Seek, Seeking
      <3> QED
        BY <1>1, <3>1
    <2>2. preparing' \in {"start", "end"}
      BY <1>9, <2>1 DEF Seek
    <2> QED
      BY <1>5, <2>2
  <1>10. CASE Prepared
    <2>1. UNCHANGED scanVars /\ preparing' \in {"invalid", "prepared"} /\ preparing = "tokens"
          /\ (preparing' = "invalid" => Mixed)
      BY <1>10 DEF Prepared
    <2>2. ASSUME Mixed PROVE Other
      <3>1. numberMax # 0 \/ named # {}
        BY <1>1, <2>2 DEF Mixed
      <3>2. PICK i \in 1 .. tokensRead : Kind(i) \in {"$", "name"}
        <4>1. CASE numberMax # 0
          <5>1. Dollar(numberMax) \in {sql.tokens[i] : i \in 1 .. tokensRead}
            BY <1>1, <4>1 DEF CountsKept
          <5>2. PICK i \in 1 .. tokensRead : sql.tokens[i] = Dollar(numberMax)
            BY <5>1
          <5> QED
            BY <5>2 DEF Kind, Dollar
        <4>2. CASE named # {}
          BY <1>1, <4>2 DEF CountsKept
        <4> QED
          BY <3>1, <4>1, <4>2
      <3>3. i \in 1 .. Size
        BY <1>1
      <3> QED
        BY <1>1, <3>2, <3>3 DEF Other
    <2> QED
      BY <1>4, <2>1, <2>2
  <1>11. CASE Execute
    <2>1. PICK args \in ArgumentLists :
            /\ passed' = args
            /\ IF ArgumentsRefused(args) THEN preparing' = "refused" /\ UNCHANGED values
               ELSE preparing' = "bound" /\ values' = ParamValues(Bindings(args))
      BY <1>11 DEF Execute
    <2>2. UNCHANGED scanVars
      BY <1>11 DEF Execute
    <2>3. Known(preparing', passed', values')
      BY <2>1
    <2> HIDE DEF Known
    <2> QED
      BY <1>4, <2>2, <2>3
  <1>12. CASE UNCHANGED placeholderVars
    BY <1>3, <1>4, <1>12 DEF placeholderVars
  <1> QED
    BY <1>6, <1>7, <1>8, <1>9, <1>10, <1>11, <1>12 DEF PlaceholderNext

(* The rewritten text of a prepared statement.                             *)
LEMMA RewrittenStep ==
  ASSUME PlaceholderInv, [PlaceholderNext]_placeholderVars
  PROVE  NothingElseRewritten'
  <1> DEFINE Entire(t) == t = TextOf(IF DefinesParameters THEN sql.tokens ELSE Numbered)
  <1>1. sql' = sql
    BY DEF PlaceholderNext, KeepDefinition, ReadText, ReadNumber, ReadName, NextToken, RejectToken,
        ReadQuestion, Seek, Replace, Replaced, Prepared, Execute, placeholderVars
  <1>2. ASSUME preparing' \in {"prepared", "bound", "refused"} => Entire(rewritten')
        PROVE  NothingElseRewritten'
    BY <1>1, <1>2 DEF NothingElseRewritten, DefinesParameters, Numbered, Kind, QuestionsIn
  <1>3. preparing \in {"prepared", "bound", "refused"} => Entire(rewritten)
    BY DEF PlaceholderInv, NothingElseRewritten
  <1>4. CASE KeepDefinition
    BY <1>2, <1>4 DEF KeepDefinition
  <1>5. CASE Prepared
    <2>1. /\ preparing = "tokens" /\ tokensRead = Size /\ ~DefinesParameters
          /\ preparing' = "prepared" => rewritten' = CopiedTo(Len(TextOf(sql.tokens)))
          /\ preparing' \in {"prepared", "invalid"}
      BY <1>5 DEF Prepared
    <2>2. /\ TextOf(sql.tokens) = TextsOf(sql.tokens)[tokensRead]
          /\ TextOf(Numbered) = TextsOf(Numbered)[tokensRead]
      BY <2>1, TextsTyped DEF PlaceholderInv, PlaceholderTypeOK
    <2>3. CopiedTo(Len(TextOf(sql.tokens))) = TextOf(Numbered)
      BY <2>1, <2>2, CopiedHere
    <2> QED
      BY <1>2, <2>1, <2>3
  <1>6. CASE Execute
    BY <1>2, <1>3, <1>6 DEF Execute
  <1>7. CASE KeepDefinition \/ ReadQuestion \/ Replace \/ Replaced \/ RejectToken
    BY <1>2, <1>4, <1>7 DEF ReadQuestion, Replace, Replaced, RejectToken
  <1>8. CASE ReadText \/ ReadNumber \/ ReadName
    BY <1>2, <1>8 DEF ReadText, ReadNumber, ReadName, NextToken, Scanning
  <1>9. CASE Seek
    BY <1>2, <1>9 DEF Seek
  <1>10. CASE UNCHANGED placeholderVars
    BY <1>2, <1>3, <1>10 DEF placeholderVars
  <1> QED
    BY <1>4, <1>5, <1>6, <1>7, <1>8, <1>9, <1>10 DEF PlaceholderNext

(* NotPast the first token.                                                 *)
LEMMA PlaceholdersBegin ==
  ASSUME PrepareInit
  PROVE  PlaceholderInv
  <1> USE DEF PrepareInit, PrepareStart
  <1>1. sql.tokens \in Seq(Tokens) /\ Size \in Nat
    BY PlaceholderAssumption, LenProperties DEF Size
  <1>2. PlaceholderTypeOK
    <2>1. 0 \in 0 .. Size /\ <<>> \in Seq(ByteSet) /\ 0 \in Nat /\ 1 \in Nat
      BY <1>1
    <2> QED
      BY <2>1 DEF PlaceholderTypeOK, ByteSet
  <1>3. CountsKept
    <2>1. Cardinality(QuestionsIn(0)) = 0
      BY QuestionsCounted
    <2> QED
      BY <2>1 DEF CountsKept, Seeking, Executable
  <1>4. TextsOf(sql.tokens)[0] = <<>> /\ TextsOf(Numbered)[0] = <<>>
    BY <1>1, <1>2, NumberedTyped, TextsExist
  <1>5. CursorKept
    <2>1. Newlines(0 + 1) = {} /\ 0 + 1 = 1
      BY DEF Newlines
    <2>2. Cardinality(Newlines(1)) = 0
      BY <2>1, FS_EmptySet
    <2>3. Largest({0} \union Newlines(1)) = 0
      <3>1. {0} \union Newlines(1) \subseteq 0 .. 0 /\ 0 \in {0} \union Newlines(1)
            /\ \A m \in {0} \union Newlines(1) : m <= 0
        BY <2>1
      <3> QED
        BY <3>1, LargestUnique
    <2>4. Location(1) = <<1, 1>>
      BY <2>2, <2>3 DEF Location
    <2> QED
      BY <1>1, <1>4, <2>1, <2>4, EmptySeq DEF CursorKept
  <1>6. CopyKept
    <2>1. SubSeq(TextOf(sql.tokens), 1, 0) = <<>>
      BY SubSeqEmpty
    <2>2. CopiedTo(0) = <<>>
      BY <2>1 DEF CopiedTo
    <2>3. Len(TextsOf(sql.tokens)[0]) = 0
      BY <1>4
    <2> QED
      BY <1>4, <2>2, <2>3 DEF CopyKept
  <1> QED
    BY <1>2, <1>3, <1>5, <1>6 DEF PlaceholderInv, ExecutionKept, NothingElseRewritten

(* query.rs: prepare_query scans and rewrites one token after the other.   *)
THEOREM PlaceholderInvariant == PlaceholderSpec => []PlaceholderInv
  <1>1. PrepareInit => PlaceholderInv
    BY PlaceholdersBegin
  <1>2. PlaceholderInv /\ [PlaceholderNext]_placeholderVars => PlaceholderInv'
    <2> SUFFICES ASSUME PlaceholderInv, [PlaceholderNext]_placeholderVars
                 PROVE  PlaceholderInv'
      OBVIOUS
    <2>1. PlaceholderTypeOK' /\ CountsKept' /\ CursorKept' /\ CopyKept' /\ ExecutionKept'
          /\ NothingElseRewritten'
      BY PlaceholderTypeStep, CountsStep, CursorStep, CopyStep, ExecutionStep, RewrittenStep
    <2> QED
      BY <2>1 DEF PlaceholderInv
  <1> QED
    BY <1>1, <1>2, PTL DEF PlaceholderSpec

\* The ordinal of every argument is one of their positions.
OrdinalsInRange(args) == \A i \in 1 .. Len(args) : Ordinal(args, i) \in 1 .. Len(args)

\* What an ordinal binds.
BindingAt(args, n) ==
    IF ArgumentsAt(args, n) = {} THEN [name |-> None, value |-> None]
    ELSE LET last == args[Largest(ArgumentsAt(args, n))]
         IN  [name |-> last.name, value |-> last.value]
TopOrdinal(args) == Largest({0} \union {Ordinal(args, i) : i \in DOMAIN args})

LEMMA ArgumentsTyped ==
  ASSUME NEW args \in ArgumentLists
  PROVE  /\ Len(args) \in Nat /\ DOMAIN args = 1 .. Len(args)
         /\ \A i \in 1 .. Len(args) : args[i].ordinal \in Int /\ args[i].value # None
  <1> DEFINE S == [name : Names \union {None}, ordinal : Int,
                   value : {args[i].value : i \in DOMAIN args}]
  <1>1. args \in Seq(S) /\ \A i \in DOMAIN args : args[i].value # None
    BY PlaceholderAssumption
  <1>2. \A e \in S : e.ordinal \in Int
    OBVIOUS
  <1> HIDE DEF S
  <1>3. Len(args) \in Nat /\ DOMAIN args = 1 .. Len(args) /\ \A i \in 1 .. Len(args) : args[i] \in S
    BY <1>1, LenProperties, ElementOfSeq
  <1> QED
    BY <1>1, <1>2, <1>3

(* The bindings are as long as the largest ordinal.                        *)
LEMMA BindingsTyped ==
  ASSUME NEW args \in ArgumentLists, OrdinalsInRange(args)
  PROVE  /\ TopOrdinal(args) \in 0 .. Len(args)
         /\ Len(Bindings(args)) = TopOrdinal(args)
         /\ DOMAIN Bindings(args) = 1 .. TopOrdinal(args)
         /\ \A n \in 1 .. TopOrdinal(args) : Bindings(args)[n] = BindingAt(args, n)
         /\ \A i \in 1 .. Len(args) : Ordinal(args, i) <= TopOrdinal(args)
  <1>1. Len(args) \in Nat /\ DOMAIN args = 1 .. Len(args)
    BY ArgumentsTyped
  <1> DEFINE ordinals == {0} \union {Ordinal(args, i) : i \in DOMAIN args}
             top == TopOrdinal(args)
             bindings == Bindings(args)
             S == {bindings[n] : n \in 1 .. top}
  <1>2. ordinals \subseteq 0 .. Len(args) /\ ordinals # {}
    BY <1>1 DEF OrdinalsInRange
  <1>3. /\ top \in ordinals /\ \A m \in ordinals : m <= top
    <2> HIDE DEF ordinals
    <2>1. Largest(ordinals) \in ordinals /\ \A m \in ordinals : m <= Largest(ordinals)
      BY <1>1, <1>2, LargestIs
    <2> QED
      BY <2>1 DEF ordinals, TopOrdinal
  <1>4. top \in 0 .. Len(args) /\ \A i \in 1 .. Len(args) : Ordinal(args, i) <= top
    <2>1. \A i \in 1 .. Len(args) : Ordinal(args, i) \in ordinals
      BY <1>1
    <2> HIDE DEF ordinals, top
    <2> QED
      BY <1>2, <1>3, <2>1
  <1>5. bindings = [n \in 1 .. top |-> BindingAt(args, n)]
    BY DEF Bindings, BindingAt, TopOrdinal
  <1> HIDE DEF top, bindings
  <1>6. bindings \in [1 .. top -> S] /\ top \in Nat
    BY <1>1, <1>4, <1>5
  <1>7. bindings \in Seq(S)
    BY <1>6, SeqDef
  <1>8. Len(bindings) = top
    BY <1>6, <1>7, LenProperties
  <1> QED
    BY <1>4, <1>5, <1>8 DEF top, bindings

(* One argument at an ordinal is the one bound.                            *)
LEMMA OnlyArgument ==
  ASSUME NEW args \in ArgumentLists, NEW n, NEW i \in 1 .. Len(args), ArgumentsAt(args, n) = {i}
  PROVE  BindingAt(args, n) = [name |-> args[i].name, value |-> args[i].value]
  <1>1. Largest({i}) = i
    <2>1. i \in Nat /\ {i} \subseteq 0 .. i /\ \A m \in {i} : m <= i
      BY ArgumentsTyped
    <2> QED
      BY <2>1, LargestUnique
  <1> QED
    BY <1>1 DEF BindingAt

(* Arguments that are not refused have each ordinal once.                  *)
LEMMA OneArgumentEach ==
  ASSUME NEW args \in ArgumentLists, ~ArgumentsRefused(args)
  PROVE  /\ OrdinalsInRange(args) /\ Len(args) = ParameterMetadata.count
         /\ DOMAIN Bindings(args) = 1 .. Len(args) /\ Len(Bindings(args)) = Len(args)
         /\ \A n \in 1 .. Len(args) : \E i \in 1 .. Len(args) :
                /\ ArgumentsAt(args, n) = {i}
                /\ Bindings(args)[n] = [name |-> args[i].name, value |-> args[i].value]
  <1> DEFINE D == 1 .. Len(args)
             b == Bindings(args)
             f == [i \in D |-> Ordinal(args, i)]
  <1>1. Len(args) \in Nat /\ DOMAIN args = D
    BY ArgumentsTyped
  <1>2. OrdinalsInRange(args) /\ Len(args) = ParameterMetadata.count /\ ~ParamsRefused(b)
    BY <1>1 DEF ArgumentsRefused, OrdinalsInRange
  <1>3. Len(b) = Len(args) /\ \A n \in DOMAIN b : b[n].value # None
    BY <1>2 DEF ParamsRefused
  <1>4. TopOrdinal(args) = Len(args) /\ DOMAIN b = D /\ \A n \in D : b[n] = BindingAt(args, n)
    BY <1>2, <1>3, BindingsTyped
  <1>5. \A n \in D : ArgumentsAt(args, n) # {}
    <2> SUFFICES ASSUME NEW n \in D, ArgumentsAt(args, n) = {} PROVE FALSE
      OBVIOUS
    <2>1. b[n].value = None
      BY <1>4 DEF BindingAt
    <2> HIDE DEF b
    <2> QED
      BY <1>3, <1>4, <2>1
  <1>6. \A n, i : i \in ArgumentsAt(args, n) <=> i \in D /\ Ordinal(args, i) = n
    BY <1>1 DEF ArgumentsAt
  <1>7. f \in [D -> D] /\ \A i \in D : f[i] = Ordinal(args, i)
    BY <1>2 DEF OrdinalsInRange
  <1>8. IsFiniteSet(D)
    BY <1>1, FS_Interval
  <1> HIDE DEF D, f, b
  <1>9. f \in Surjection(D, D)
    <2>1. \A n \in D : \E i \in D : f[i] = n
      BY <1>5, <1>6, <1>7
    <2> QED
      BY <1>7, <2>1 DEF Surjection
  <1>10. f \in Injection(D, D)
    BY <1>8, <1>9, FS_SurjSameCardinalityImpliesInj
  <1>11. ASSUME NEW n \in D
         PROVE  \E i \in D : /\ ArgumentsAt(args, n) = {i}
                             /\ b[n] = [name |-> args[i].name, value |-> args[i].value]
    <2>1. PICK i \in D : i \in ArgumentsAt(args, n)
      BY <1>5, <1>6
    <2>2. \A j \in D : f[j] = f[i] => j = i
      BY <1>10 DEF Injection, IsInjective
    <2>3. ArgumentsAt(args, n) = {i}
      BY <1>6, <1>7, <2>1, <2>2
    <2>4. BindingAt(args, n) = [name |-> args[i].name, value |-> args[i].value]
      BY <2>3, OnlyArgument DEF D
    <2> QED
      BY <1>4, <2>3, <2>4
  <1> QED
    BY <1>2, <1>3, <1>4, <1>11 DEF D, b

(* What a prepared query expects.                                          *)
LEMMA Expected ==
  ASSUME PlaceholderInv, Executable, ~DefinesParameters
  PROVE  /\ Size \in Nat /\ DOMAIN sql.tokens = 1 .. Size
         /\ questions \in Nat /\ numberMax \in Nat
         /\ questions = Cardinality(QuestionsIn(Size)) /\ named = NamedIn(Size) /\ ~Mixed
         /\ NumberedIn(Size, numberMax) /\ LargestIn(Size, numberMax)
         /\ questions > 0 => ParameterMetadata = [kind |-> "positional", count |-> questions]
         /\ numberMax > 0 => ParameterMetadata = [kind |-> "positional", count |-> numberMax]
         /\ named # {} => ParameterMetadata = [kind |-> "named", count |-> Cardinality(named)]
         /\ questions = 0 /\ numberMax = 0 /\ named = {} =>
                ParameterMetadata = [kind |-> "positional", count |-> 0]
  <1>1. /\ Size \in Nat /\ DOMAIN sql.tokens = 1 .. Size /\ questions \in Nat /\ numberMax \in Nat
    BY NumberedTyped, LenProperties DEF PlaceholderInv, PlaceholderTypeOK, Size
  <1>2. CountsAre(tokensRead, Seeking, Executable, questions, numberMax, named)
    BY CountsOf DEF PlaceholderInv
  <1>3. ~Seeking
    BY DEF Seeking, Executable
  <1>4. tokensRead = Size /\ ~Mixed
    BY <1>2 DEF CountsAre, Mixed
  <1>5. /\ questions = Cardinality(QuestionsIn(Size)) /\ named = NamedIn(Size)
        /\ NumberedIn(Size, numberMax) /\ LargestIn(Size, numberMax)
    BY <1>2, <1>3, <1>4 DEF CountsAre
  <1>6. /\ questions > 0 => numberMax = 0 /\ named = {}
        /\ numberMax > 0 => questions = 0 /\ named = {}
        /\ named # {} => questions = 0 /\ numberMax = 0
    BY <1>1, <1>4 DEF Mixed
  <1>7. /\ questions > 0 => ParameterMetadata = [kind |-> "positional", count |-> questions]
        /\ numberMax > 0 => ParameterMetadata = [kind |-> "positional", count |-> numberMax]
        /\ named # {} => ParameterMetadata = [kind |-> "named", count |-> Cardinality(named)]
        /\ questions = 0 /\ numberMax = 0 /\ named = {} =>
                ParameterMetadata = [kind |-> "positional", count |-> 0]
    BY <1>1, <1>6 DEF ParameterMetadata
  <1> QED
    BY <1>1, <1>4, <1>5, <1>7

(* The names of a text are finitely many.                                  *)
LEMMA NamesFinite ==
  ASSUME NEW i \in Nat
  PROVE  IsFiniteSet(NamedIn(i))
  <1> DEFINE before == {j \in 1 .. i : Kind(j) = "name"}
             S == NamedIn(i)
             f == [j \in before |-> sql.tokens[j].value]
  <1>1. IsFiniteSet(before)
    <2>1. before \subseteq 1 .. i
      OBVIOUS
    <2> HIDE DEF before
    <2> QED
      BY <2>1, CountedTo
  <1>2. S = {sql.tokens[j].value : j \in before}
    BY DEF NamedIn
  <1> HIDE DEF before
  <1>3. f \in Surjection(before, S)
    BY <1>2 DEF Surjection
  <1> HIDE DEF S, f
  <1>4. IsFiniteSet(S)
    BY <1>1, <1>3, FS_Surjection
  <1> QED
    BY <1>4 DEF S

(* Every placeholder has its argument.                                     *)
LEMMA ArgumentsAreMeant ==
  ASSUME PlaceholderInv
  PROVE  EachHasItsArgument
  <1> SUFFICES ASSUME preparing = "bound", ~DefinesParameters,
                      NEW i \in DOMAIN sql.tokens, Kind(i) \in {"?", "$", "name"}
               PROVE  {passed[a].value : a \in MeantFor(i)} = {values[Key(i)]}
    BY DEF EachHasItsArgument
  <1> DEFINE b == Bindings(passed)
             count == Len(passed)
             D == 1 .. count
             Bound(n, a) == /\ ArgumentsAt(passed, n) = {a}
                            /\ b[n].name = passed[a].name /\ b[n].value = passed[a].value
  <1>1. /\ passed \in ArgumentLists /\ ~ArgumentsRefused(passed)
        /\ values = ParamValues(b) /\ Executable
    BY DEF PlaceholderInv, ExecutionKept, Executable
  <1>2. /\ OrdinalsInRange(passed) /\ count = ParameterMetadata.count
        /\ DOMAIN b = D /\ Len(b) = count /\ count \in Nat /\ DOMAIN passed = D
    BY <1>1, OneArgumentEach, ArgumentsTyped
  <1>3. \A n \in D : \E a \in D : Bound(n, a)
    <2> SUFFICES ASSUME NEW n \in D PROVE \E a \in D : Bound(n, a)
      OBVIOUS
    <2>1. PICK a \in D : /\ ArgumentsAt(passed, n) = {a}
                         /\ b[n] = [name |-> passed[a].name, value |-> passed[a].value]
      BY <1>1, OneArgumentEach
    <2> HIDE DEF b, D
    <2> QED
      BY <2>1
  <1>4. ~ParamsRefused(b)
    BY <1>1 DEF ArgumentsRefused
  <1>5. /\ Size \in Nat /\ i \in 1 .. Size /\ questions \in Nat /\ numberMax \in Nat
        /\ questions = Cardinality(QuestionsIn(Size)) /\ named = NamedIn(Size)
        /\ NumberedIn(Size, numberMax)
        /\ questions > 0 => ParameterMetadata = [kind |-> "positional", count |-> questions]
        /\ numberMax > 0 => ParameterMetadata = [kind |-> "positional", count |-> numberMax]
        /\ named # {} => ParameterMetadata = [kind |-> "named", count |-> Cardinality(named)]
    BY <1>1, Expected
  <1> HIDE DEF b, count
  <1>6. ASSUME ParameterMetadata.kind = "positional", Key(i) \in D, Kind(i) # "name"
        PROVE  {passed[a].value : a \in MeantFor(i)} = {values[Key(i)]}
    <2>1. values = [n \in D |-> b[n].value]
      BY <1>1, <1>2, <1>6 DEF ParamValues
    <2>2. PICK a \in D : Bound(Key(i), a)
      BY <1>3, <1>6
    <2>3. MeantFor(i) = {a}
      BY <1>6, <2>2 DEF MeantFor
    <2> QED
      BY <1>6, <2>1, <2>2, <2>3
  <1>7. CASE Kind(i) = "?"
    <2>1. Cardinality(QuestionsIn(i)) \in 1 .. questions
      <3>1. /\ QuestionsIn(i) \subseteq QuestionsIn(Size) /\ i \in QuestionsIn(i) /\ i \in Nat
        BY <1>5, <1>7 DEF QuestionsIn
      <3>2. IsFiniteSet(QuestionsIn(Size)) /\ IsFiniteSet(QuestionsIn(i))
            /\ Cardinality(QuestionsIn(i)) \in Nat
        BY <1>5, <3>1, QuestionsCounted
      <3>3. Cardinality(QuestionsIn(i)) <= Cardinality(QuestionsIn(Size))
        BY <3>1, <3>2, FS_Subset
      <3>4. Cardinality(QuestionsIn(i)) # 0
        BY <3>1, <3>2, FS_EmptySet
      <3> QED
        BY <1>5, <3>2, <3>3, <3>4
    <2>2. questions > 0
      BY <1>5, <2>1
    <2>3. ParameterMetadata.kind = "positional" /\ count = questions
      BY <1>2, <1>5, <2>2
    <2> QED
      BY <1>6, <1>7, <2>1, <2>3 DEF Key
  <1>8. CASE Kind(i) = "$"
    <2>1. sql.tokens[i].value \in 1 .. numberMax
      BY <1>5, <1>8 DEF NumberedIn
    <2>2. numberMax > 0
      BY <1>5, <2>1
    <2>3. ParameterMetadata.kind = "positional" /\ count = numberMax
      BY <1>2, <1>5, <2>2
    <2> QED
      BY <1>6, <1>8, <2>1, <2>3 DEF Key
  <1>9. CASE Kind(i) = "name"
    <2> DEFINE key == Key(i)
               names == BindingNames(b)
               f == [n \in D |-> b[n].name]
               The(n) == n \in DOMAIN b /\ b[n].name = key
               first == CHOOSE n \in DOMAIN b : b[n].name = key
    <2>1. key \in named
      BY <1>5, <1>9 DEF Key, NamedIn
    <2>2. ParameterMetadata.kind = "named" /\ count = Cardinality(named)
      BY <1>2, <1>5, <2>1
    <2>3. names \subseteq named /\ Cardinality(names) = count
      BY <1>2, <1>4, <2>2 DEF ParamsRefused
    <2>4. names = named
      <3>1. IsFiniteSet(named)
        BY <1>5, NamesFinite
      <3> HIDE DEF names
      <3> QED
        BY <2>2, <2>3, <3>1, FS_Subset
    <2>5. values = [name \in named |-> b[CHOOSE n \in DOMAIN b : b[n].name = name].value]
      BY <1>1, <2>2 DEF ParamValues
    <2>6. values[key] = b[first].value
      <3> HIDE DEF key
      <3> QED
        BY <2>1, <2>5
    <2>7. names = {b[n].name : n \in D}
      BY <1>2 DEF BindingNames
    <2>8. f \in Injection(D, names)
      <3>1. f \in Surjection(D, names)
        BY <2>7 DEF Surjection
      <3>2. IsFiniteSet(D) /\ Cardinality(D) = count
        <4> DEFINE S == D
        <4>1. S \subseteq 1 .. count
          OBVIOUS
        <4> HIDE DEF S
        <4>2. IsFiniteSet(S) /\ Cardinality(1 .. count) = count
          BY <1>2, <4>1, CountedTo
        <4> QED
          BY <4>2 DEF S
      <3> HIDE DEF D, f, names
      <3> QED
        BY <2>3, <3>1, <3>2, FS_SurjSameCardinalityImpliesInj
    <2>9. \E n \in D : b[n].name = key
      <3> HIDE DEF key, D
      <3> QED
        BY <2>1, <2>4, <2>7
    <2>10. first \in D /\ b[first].name = key
      BY <1>2, <2>9
    <2> HIDE DEF first, key
    <2>11. PICK a \in D : Bound(first, a)
      BY <1>3, <2>10
    <2>12. \A c \in D : passed[c].name = key => c = a
      <3> SUFFICES ASSUME NEW c \in D, passed[c].name = key PROVE c = a
        OBVIOUS
      <3>1. Ordinal(passed, c) \in D
        BY <1>2 DEF OrdinalsInRange, count
      <3> DEFINE n == Ordinal(passed, c)
      <3>2. c \in ArgumentsAt(passed, n)
        BY <1>2 DEF ArgumentsAt
      <3> HIDE DEF n
      <3>3. PICK e \in D : Bound(n, e)
        BY <1>3, <3>1 DEF n
      <3>4. e = c
        BY <3>2, <3>3
      <3>5. b[n].name = key
        BY <3>3, <3>4
      <3>6. f[n] = f[first] /\ n \in D
        BY <2>10, <3>1, <3>5 DEF n
      <3>7. n = first
        <4> HIDE DEF f, D
        <4> QED
          BY <2>8, <2>10, <3>6 DEF Injection, IsInjective
      <3> QED
        BY <2>11, <3>3, <3>4, <3>7
    <2>13. MeantFor(i) = {a}
      <3>1. passed[a].name = key
        BY <2>10, <2>11
      <3>2. MeantFor(i) = {c \in D : passed[c].name = key}
        BY <1>2, <1>9 DEF MeantFor, key
      <3> HIDE DEF D
      <3> QED
        BY <2>11, <2>12, <3>1, <3>2
    <2>14. values[Key(i)] = passed[a].value
      BY <2>6, <2>11 DEF first, key
    <2> QED
      BY <2>13, <2>14
  <1> QED
    BY <1>7, <1>8, <1>9

(* Plain arguments in order are not refused.                               *)
LEMMA PlainIsAccepted ==
  ASSUME PlaceholderInv
  PROVE  PlainNotRefused
  <1> SUFFICES ASSUME \A i \in DOMAIN sql.tokens : Kind(i) \in {"?", "text", "newline"}
               PROVE  /\ preparing # "invalid"
                      /\ preparing = "refused" => DefinesParameters \/ ~PlainArguments
    BY DEF PlainNotRefused
  <1>1. preparing # "invalid"
    BY DEF PlaceholderInv, ExecutionKept
  <1>2. ASSUME preparing = "refused", ~DefinesParameters, PlainArguments PROVE FALSE
    <2> DEFINE count == Len(passed)
               D == 1 .. count
               b == Bindings(passed)
    <2>1. passed \in ArgumentLists /\ ArgumentsRefused(passed) /\ Executable
      BY <1>2 DEF PlaceholderInv, ExecutionKept, Executable
    <2>2. /\ Size \in Nat /\ DOMAIN sql.tokens = 1 .. Size /\ questions \in Nat /\ numberMax \in Nat
          /\ questions = Cardinality(QuestionsIn(Size)) /\ named = NamedIn(Size)
          /\ LargestIn(Size, numberMax)
          /\ questions > 0 => ParameterMetadata = [kind |-> "positional", count |-> questions]
          /\ questions = 0 /\ numberMax = 0 /\ named = {} =>
                ParameterMetadata = [kind |-> "positional", count |-> 0]
      BY <1>2, <2>1, Expected
    <2>3. named = {}
      BY <2>2 DEF NamedIn
    <2>4. numberMax = 0
      <3> SUFFICES ASSUME numberMax # 0 PROVE FALSE
        OBVIOUS
      <3>1. PICK j \in 1 .. Size : sql.tokens[j] = Dollar(numberMax)
        BY <2>2 DEF LargestIn
      <3>2. Kind(j) = "$"
        BY <3>1 DEF Kind, Dollar
      <3> QED
        BY <2>2, <3>2
    <2>5. ParameterMetadata = [kind |-> "positional", count |-> questions]
      BY <2>2, <2>3, <2>4
    <2>6. /\ count = questions /\ count \in Nat /\ DOMAIN passed = D
          /\ \A i \in D : passed[i].value # None /\ passed[i].name = None /\ Ordinal(passed, i) = i
      BY <1>2, <2>1, <2>2, ArgumentsTyped DEF PlainArguments
    <2>7. OrdinalsInRange(passed)
      BY <2>6 DEF OrdinalsInRange
    <2>8. TopOrdinal(passed) = count
      <3> DEFINE top == TopOrdinal(passed)
      <3>1. top \in 0 .. count /\ \A i \in D : Ordinal(passed, i) <= top
        BY <2>1, <2>7, BindingsTyped
      <3> HIDE DEF top
      <3>2. count > 0 => count <= top
        BY <2>6, <3>1
      <3>3. top = count
        BY <2>6, <3>1, <3>2
      <3> QED
        BY <3>3 DEF top
    <2>9. Len(b) = count /\ DOMAIN b = D /\ \A n \in D : b[n] = BindingAt(passed, n)
      BY <2>1, <2>7, <2>8, BindingsTyped
    <2>10. ASSUME NEW n \in D PROVE b[n] = [name |-> None, value |-> passed[n].value]
      <3>1. ArgumentsAt(passed, n) = {n}
        BY <2>6 DEF ArgumentsAt
      <3>2. BindingAt(passed, n) = [name |-> passed[n].name, value |-> passed[n].value]
        BY <2>1, <3>1, OnlyArgument
      <3> QED
        BY <2>6, <2>9, <3>2
    <2> HIDE DEF b, count
    <2>11. \A n \in DOMAIN b : b[n].value # None /\ b[n].name = None
      BY <2>6, <2>9, <2>10
    <2>12. BindingNames(b) \ {None} = {}
      BY <2>11 DEF BindingNames
    <2>13. ~ParamsRefused(b)
      BY <2>5, <2>6, <2>9, <2>11, <2>12 DEF ParamsRefused
    <2>14. Len(passed) = ParameterMetadata.count /\ \A i \in DOMAIN passed : Ordinal(passed, i) \in DOMAIN passed
      BY <2>5, <2>6 DEF count
    <2> QED
      BY <2>1, <2>13, <2>14 DEF ArgumentsRefused, b
  <1> QED
    BY <1>1, <1>2

(* query.rs, native.go and parameters.rs: every placeholder of a query that*)
(* is executed has the argument the caller passed for it, by name, number  *)
(* or position; rewriting changes the question marks and no other byte.    *)
THEOREM PlaceholdersBoundAsWritten == PlaceholderSpec => []BoundAsWritten
  <1>1. PlaceholderInv => BoundAsWritten
    BY ArgumentsAreMeant, PlainIsAccepted DEF BoundAsWritten, PlaceholderInv
  <1> QED
    BY <1>1, PlaceholderInvariant, PTL
=============================================================================
