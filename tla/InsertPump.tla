------------------------------ MODULE InsertPump ------------------------------
(***************************************************************************)
(* rust/src/go_provider.rs: one INSERT into a Go table.  write_all starts  *)
(* a pump task that copies the input stream to a channel of two places,    *)
(* and a blocking thread on which the Go provider reads the channel as an  *)
(* Arrow stream (InputReader).  Only a terminal message is the end of the  *)
(* input; a channel that closes without one is an error.                   *)
(***************************************************************************)
EXTENDS Naturals, Sequences

CONSTANTS MaxBatches,  \* bound on the batches of the input
          End, Fail    \* the terminal message, an error of the input

ASSUME PumpAssumption ==
    MaxBatches \in Nat /\ End \notin Nat /\ Fail \notin Nat /\ End # Fail

Capacity == 2

VARIABLES write,     \* write_all: "permit", "writing", "joining", "ok", "error", "dropped"
          source,    \* the input: "open", "ended" or "panicked"
          pulled,    \* batches the input yielded
          pump,      \* "pull", "send", "exited", "aborted", "panicked"
          item,      \* what the pump is sending
          aborting,  \* abort was requested
          channel,   \* at most Capacity messages
          writer,    \* "none", "working", "reading", "accepted", "rejected"
          finished,  \* InputReader.finished
          got,       \* batches the provider was given
          sawEnd,    \* the provider was told that the input ended
          sawError   \* the reader's Err() is set

vars == <<write, source, pulled, pump, item, aborting, channel, writer, finished,
          got, sawEnd, sawError>>
upstream == <<source, pulled>>
reader == <<finished, got, sawEnd, sawError>>

Init ==
    /\ write = "permit"
    /\ source = "open" /\ pulled = 0
    /\ pump = "pull" /\ item = End /\ aborting = FALSE
    /\ channel = <<>>
    /\ writer = "none"
    /\ finished = FALSE /\ got = <<>> /\ sawEnd = FALSE /\ sawError = FALSE

-----------------------------------------------------------------------------
(* The pump.                                                               *)

PumpRuns == pump \in {"pull", "send"}

\* The receiver goes with write_all before the closure owns it, and with the
\* call to Go after that.
Receiving ==
    \/ write = "permit"
    \/ writer \in {"working", "reading"}

\* The input may never be ready.  An error need not be the last item.
Pull ==
    /\ pump = "pull"
    /\ \/ pulled < MaxBatches /\ pulled' = pulled + 1 /\ item' = pulled' /\ UNCHANGED source
       \/ item' = Fail /\ UNCHANGED upstream
       \/ item' = End /\ source' = "ended" /\ UNCHANGED pulled
    /\ pump' = "send"
    /\ UNCHANGED <<write, aborting, channel, writer, reader>>

Panic ==
    /\ pump = "pull"
    /\ source' = "panicked"
    /\ pump' = "panicked"
    /\ UNCHANGED <<write, pulled, item, aborting, channel, writer, reader>>

Send ==
    /\ pump = "send" /\ Receiving /\ Len(channel) < Capacity
    /\ channel' = Append(channel, item)
    /\ pump' = IF item = End THEN "exited" ELSE "pull"
    /\ UNCHANGED <<write, upstream, item, aborting, writer, reader>>

SendFails ==
    /\ pump = "send" /\ ~Receiving
    /\ pump' = "exited"
    /\ UNCHANGED <<write, upstream, item, aborting, channel, writer, reader>>

\* Takes effect at an await point: a pending pull or a full channel.
Abort ==
    /\ aborting /\ PumpRuns
    /\ pump' = "aborted"
    /\ UNCHANGED <<write, upstream, item, aborting, channel, writer, reader>>

-----------------------------------------------------------------------------
(* The blocking thread: dispatchCallback 9-11 and the provider's code.     *)

BeginRead ==
    /\ writer = "working"
    /\ writer' = "reading"
    /\ UNCHANGED <<write, upstream, pump, item, aborting, channel, reader>>

Told(message) ==
    CASE message = End -> sawEnd' = TRUE /\ finished' = TRUE /\ UNCHANGED <<got, sawError>>
      [] message = Fail -> sawError' = TRUE /\ UNCHANGED <<finished, got, sawEnd>>
      [] OTHER -> got' = Append(got, message) /\ UNCHANGED <<finished, sawEnd, sawError>>

Receive ==
    /\ writer = "reading" /\ ~finished /\ channel # <<>>
    /\ Told(Head(channel))
    /\ channel' = Tail(channel)
    /\ writer' = "working"
    /\ UNCHANGED <<write, upstream, pump, item, aborting>>

Closed_Mutant ==
    /\ writer = "reading" /\ ~finished /\ channel = <<>> /\ ~PumpRuns
    /\ finished' = TRUE /\ sawEnd' = TRUE
    /\ writer' = "working"
    /\ UNCHANGED <<write, upstream, pump, item, aborting, channel, got, sawError>>

\* The sender is gone without a terminal message.
Closed ==
    /\ writer = "reading" /\ ~finished /\ channel = <<>> /\ ~PumpRuns
    /\ finished' = TRUE /\ sawError' = TRUE
    /\ writer' = "working"
    /\ UNCHANGED <<write, upstream, pump, item, aborting, channel, got, sawEnd>>

ReadAgain ==
    /\ writer = "reading" /\ finished
    /\ sawEnd' = TRUE
    /\ writer' = "working"
    /\ UNCHANGED <<write, upstream, pump, item, aborting, channel, finished, got, sawError>>

\* A provider may return early.  Its nil does not hide an error of the reader.
Return ==
    /\ writer = "working"
    /\ writer' \in {"rejected"} \union IF sawError THEN {} ELSE {"accepted"}
    /\ UNCHANGED <<write, upstream, pump, item, aborting, channel, reader>>

-----------------------------------------------------------------------------
(* write_all.                                                              *)

Permit ==
    /\ write = "permit"
    /\ write' = "writing" /\ writer' = "working"
    /\ UNCHANGED <<upstream, pump, item, aborting, channel, reader>>

WriterEnded_Mutant ==
    /\ write = "writing" /\ writer \in {"accepted", "rejected"}
    /\ write' = "joining"
    /\ UNCHANGED <<upstream, pump, item, aborting, channel, writer, reader>>

\* The pump may be waiting for an input that never comes: abort, then join.
WriterEnded ==
    /\ write = "writing" /\ writer \in {"accepted", "rejected"}
    /\ write' = "joining"
    /\ aborting' = TRUE
    /\ UNCHANGED <<upstream, pump, item, channel, writer, reader>>

Join ==
    /\ write = "joining" /\ ~PumpRuns
    /\ write' = IF pump # "panicked" /\ writer = "accepted" THEN "ok" ELSE "error"
    /\ UNCHANGED <<upstream, pump, item, aborting, channel, writer, reader>>

\* The query is cancelled, closed or failed elsewhere.  The thread goes on.
Drop ==
    /\ write \in {"permit", "writing", "joining"}
    /\ write' = "dropped"
    /\ aborting' = TRUE
    /\ UNCHANGED <<upstream, pump, item, channel, writer, reader>>

-----------------------------------------------------------------------------
PumpStep == Pull \/ Panic \/ Send \/ SendFails \/ Abort
WriterStep == BeginRead \/ Receive \/ Closed \/ ReadAgain \/ Return

Next ==
    \/ PumpStep \/ WriterStep
    \/ Permit \/ WriterEnded \/ Join \/ Drop

Spec == Init /\ [][Next]_vars

(* The input and the provider may hang; but a provider that was told of    *)
(* the end or of an error, or whose context was cancelled, returns.        *)
Fairness ==
    /\ WF_vars(Send \/ SendFails) /\ WF_vars(Abort)
    /\ WF_vars(Receive \/ Closed \/ ReadAgain)
    /\ SF_vars((sawEnd \/ sawError \/ write = "dropped") /\ Return)
    /\ WF_vars(WriterEnded) /\ WF_vars(Join)

FairSpec == Spec /\ Fairness

-----------------------------------------------------------------------------
Messages == 1 .. MaxBatches \union {End, Fail}

TypeOK ==
    /\ write \in {"permit", "writing", "joining", "ok", "error", "dropped"}
    /\ source \in {"open", "ended", "panicked"} /\ pulled \in 0 .. MaxBatches
    /\ pump \in {"pull", "send", "exited", "aborted", "panicked"} /\ item \in Messages
    /\ channel \in Seq(Messages) /\ Len(channel) <= Capacity
    /\ writer \in {"none", "working", "reading", "accepted", "rejected"}
    /\ aborting \in BOOLEAN /\ finished \in BOOLEAN
    /\ sawEnd \in BOOLEAN /\ sawError \in BOOLEAN
    /\ got \in Seq(1 .. MaxBatches)

-----------------------------------------------------------------------------
(* Why: what was given to the provider, what the channel holds and what    *)
(* the pump is sending are the batches pulled, in order and without a gap. *)

IsBatch(message) == message \notin {End, Fail}
One(message) == IF IsBatch(message) THEN 1 ELSE 0

\* Batches that were given or are in the first n places of the channel.
Sent(n) ==
    Len(got) + (IF n >= 1 THEN One(channel[1]) ELSE 0) + (IF n >= 2 THEN One(channel[2]) ELSE 0)

AllSent == Sent(Len(channel))

ChannelInOrder ==
    \A i \in 1 .. Len(channel) :
        /\ IsBatch(channel[i]) => channel[i] = Sent(i)
        /\ channel[i] = End => /\ i = Len(channel) /\ pump = "exited"
                              /\ source = "ended" /\ AllSent = pulled

PumpInOrder ==
    /\ pump = "pull" => source = "open" /\ AllSent = pulled
    /\ pump = "send" /\ IsBatch(item) => source = "open" /\ item = pulled /\ item = AllSent + 1
    /\ pump = "send" /\ item = Fail => source = "open" /\ AllSent = pulled
    /\ pump = "send" /\ item = End => source = "ended" /\ AllSent = pulled
    /\ source = "panicked" => pump = "panicked"

EndIsLast ==
    /\ sawEnd => finished
    /\ finished => sawEnd \/ sawError
    /\ sawEnd /\ ~sawError => channel = <<>> /\ ~PumpRuns

AnswerFollowsWriter ==
    /\ writer = "accepted" => ~sawError
    /\ write = "ok" => ~PumpRuns

(* The provider is given the batches in order, and one that sees the end   *)
(* without an error has seen every batch of an input that did end: a       *)
(* provider that commits then commits the whole input, although the query  *)
(* may be dropped or the pump abort or panic at any moment                 *)
(* (docs/architecture.md:134-138).  INSERT reports success only if the     *)
(* input did not fail, as far as it was read, or panic.                    *)
NoFalseCompletion ==
    /\ got = [i \in 1 .. Len(got) |-> i]
    /\ sawEnd /\ ~sawError => source = "ended" /\ Len(got) = pulled
    /\ write = "ok" => writer = "accepted" /\ ~sawError /\ source # "panicked"

PumpInv ==
    /\ TypeOK /\ ChannelInOrder /\ PumpInOrder /\ EndIsLast /\ AnswerFollowsWriter
    /\ NoFalseCompletion

(* A read ends once nothing can send, and write_all returns once the       *)
(* provider has, even if the input never yields again.                     *)
InsertReturns ==
    /\ write = "dropped" ~> writer \notin {"working", "reading"}
    /\ writer \in {"accepted", "rejected"} ~> write \in {"ok", "error", "dropped"}
=============================================================================
