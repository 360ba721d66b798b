-------------------------------- MODULE Rows --------------------------------
(***************************************************************************)
(* rows.go: the driver.Rows of a query.  It pulls record batches from a    *)
(* reader, owns each until it is released, skips the empty ones and hands  *)
(* out one row at a time.  database/sql calls Close after any error.       *)
(***************************************************************************)
EXTENDS Naturals, Sequences

CONSTANTS MaxResult, MaxRows   \* bounds on a result's batches, a batch's rows

ASSUME RowsAssumption == MaxResult \in Nat /\ MaxRows \in Nat

VARIABLES result,      \* what the reader will yield
          batchesRead, \* of the result
          held,        \* batches not yet released
          current,     \* rows.current
          row,         \* rows.row
          handedOut,   \* the rows database/sql got, as <<batch, number>>
          said,        \* what the last Next returned
          rowsClosed, readerClosed

rowsVars == <<result, batchesRead, held, current, row, handedOut, said, rowsClosed, readerClosed>>

NoBatch == 0

\* sizes: rows of each batch; fails: the reader ends with an error, not EOF;
\* bad: a row with a value that has no driver.Value, numbered over the result.
Results ==
    [sizes : UNION {[1 .. n -> 0 .. MaxRows] : n \in 0 .. MaxResult},
     fails : BOOLEAN, bad : 0 .. MaxResult * MaxRows]

RowsStart ==
    /\ batchesRead = 0 /\ held = {} /\ current = NoBatch /\ row = 0
    /\ handedOut = <<>> /\ said = "row" /\ rowsClosed = FALSE /\ readerClosed = FALSE

RowsInit == result \in Results /\ RowsStart

HasRow == current # NoBatch /\ row < result.sizes[current]

\* The current batch if it has a row left, or the batches ahead that have any.
Ahead ==
    IF HasRow THEN {current}
    ELSE {b \in batchesRead + 1 .. Len(result.sizes) : result.sizes[b] > 0}

\* The next row is row number start + 1 of the batch; empty batches before it
\* were read and released.
Deliver_Mutant(batch, start) ==
    /\ batchesRead' = IF HasRow THEN batchesRead ELSE batch
    /\ held' = IF HasRow THEN held ELSE batchesRead + 1 .. batch
    /\ current' = batch /\ row' = start + 1
    /\ handedOut' = Append(handedOut, <<batch, start + 1>>)
    /\ UNCHANGED <<said, readerClosed>>

Deliver(batch, start) ==
    /\ batchesRead' = IF HasRow THEN batchesRead ELSE batch
    /\ held' = IF HasRow THEN held ELSE {batch}
    /\ current' = batch
    /\ IF Len(handedOut) + 1 = result.bad
       THEN row' = start /\ said' = "error" /\ UNCHANGED handedOut
       ELSE /\ row' = start + 1 /\ handedOut' = Append(handedOut, <<batch, start + 1>>)
            /\ UNCHANGED said
    /\ UNCHANGED readerClosed

Exhausted ==
    /\ batchesRead' = Len(result.sizes) /\ held' = {} /\ current' = NoBatch
    /\ said' = IF result.fails THEN "error" ELSE "eof"
    /\ readerClosed' = (readerClosed \/ ~result.fails)
    /\ UNCHANGED <<row, handedOut>>

NextRow ==
    /\ ~rowsClosed /\ said = "row"
    /\ \/ Ahead = {} /\ Exhausted
       \/ \E batch \in Ahead :
            /\ \A other \in Ahead : batch <= other
            /\ Deliver(batch, IF HasRow THEN row ELSE 0)
    /\ UNCHANGED <<result, rowsClosed>>

NextClosed ==
    /\ rowsClosed /\ said = "row" /\ said' = "closed"
    /\ UNCHANGED <<result, batchesRead, held, current, row, handedOut, rowsClosed, readerClosed>>

\* Close may be called at any moment, again and after EOF.
CloseRows ==
    /\ rowsClosed' = TRUE /\ readerClosed' = TRUE
    /\ held' = held \ {current} /\ current' = NoBatch
    /\ UNCHANGED <<result, batchesRead, row, handedOut, said>>

RowsNext == NextRow \/ NextClosed \/ CloseRows

RowsSpec == RowsInit /\ [][RowsNext]_rowsVars

-----------------------------------------------------------------------------
RowsTypeOK ==
    /\ result \in Results
    /\ batchesRead \in 0 .. Len(result.sizes)
    /\ held \subseteq 1 .. Len(result.sizes)
    /\ current \in {NoBatch} \union 1 .. Len(result.sizes)
    /\ row \in 0 .. MaxRows
    /\ handedOut \in Seq(Nat \X Nat)
    /\ said \in {"row", "eof", "error", "closed"}
    /\ rowsClosed \in BOOLEAN /\ readerClosed \in BOOLEAN

\* The rows of the result, and those that precede one of them.
AllRows ==
    {r \in (DOMAIN result.sizes) \X (1 .. MaxRows) : r[2] <= result.sizes[r[1]]}
Before(r) == {q \in AllRows : q[1] < r[1] \/ (q[1] = r[1] /\ q[2] < r[2])}

HandedOut(n) == {handedOut[i] : i \in 1 .. n}

\* What was handed out before a row is what precedes it in the result.
InOrder ==
    \A i \in DOMAIN handedOut :
        handedOut[i] \in AllRows /\ HandedOut(i - 1) = Before(handedOut[i])

\* The rows handed out are those of the batches read, up to the position.
UpToPosition ==
    ~rowsClosed =>
        HandedOut(Len(handedOut)) =
            {r \in AllRows : \/ r[1] < current
                             \/ r[1] = current /\ r[2] <= row
                             \/ current = NoBatch /\ r[1] <= batchesRead}

\* A batch is current exactly while it is held, and it is the last one read.
OneBatchHeld ==
    /\ held = {current} \ {NoBatch}
    /\ current # NoBatch => current = batchesRead /\ row <= result.sizes[current]
    /\ rowsClosed => current = NoBatch /\ readerClosed

EndIsTrue ==
    said = "eof" =>
        HandedOut(Len(handedOut)) = AllRows /\ ~result.fails /\ readerClosed /\ held = {}

(* Rows.Next hands out every row once and in order, skipping none: before  *)
(* a row come exactly those that precede it.  EOF means that all were, and *)
(* that the reader did not fail.  Every batch but the one being read was   *)
(* released; a finished or closed object holds nothing and has closed its  *)
(* reader, which holds the serialization lock.                             *)
RowsInOrder ==
    /\ InOrder
    /\ EndIsTrue
    /\ held \subseteq {current} \ {NoBatch}
    /\ rowsClosed => held = {} /\ readerClosed

RowsInv == RowsTypeOK /\ InOrder /\ UpToPosition /\ OneBatchHeld /\ EndIsTrue
=============================================================================
