---------------------------- MODULE ProviderReader ----------------------------
(***************************************************************************)
(* provider_reader.go: the reader that ProjectReader and LimitReader put   *)
(* around a provider's input reader.  It owns the input and one batch.     *)
(***************************************************************************)
EXTENDS Integers, Sequences, Sums

CONSTANTS Columns,    \* of the input: 0 .. Columns - 1
          MaxInputs, MaxInputRows, MaxRefs, MaxWidth, MaxLimit,  \* bounds
          Nil         \* no projection; no current batch

ASSUME ReaderAssumption ==
    /\ {Columns, MaxInputs, MaxInputRows, MaxRefs, MaxWidth, MaxLimit} \subseteq Nat
    /\ Nil \notin Seq(Nat) /\ Nil \notin [number : Nat, rows : Nat, columns : Seq(Nat)]

VARIABLES scan,        \* what was asked of which input
          remaining,   \* providerReader.remaining
          inputRead,   \* batches read of the input
          batch,       \* providerReader.current
          readerErr, readerDone, readerRefs,
          more,        \* what the last Next returned
          delivered,   \* the batches handed out
          kept,        \* batches retained
          inputReleases

readerVars == <<scan, remaining, inputRead, batch, readerErr, readerDone, readerRefs, more,
                delivered, kept, inputReleases>>

\* sizes: the rows of the input's batches; ending: how the input ends.  An index
\* outside the schema is refused; a projection has no limit, and -1 is none.
Scans ==
    {s \in [sizes : Sequences(0 .. MaxInputRows, MaxInputs),
            ending : {"eof", "error", "schema"},
            projection : {Nil} \union Sequences(0 .. Columns - 1, MaxWidth),
            limit : -1 .. MaxLimit] :
        s.projection = Nil \/ s.limit = -1}

ReaderStart ==
    /\ remaining = scan.limit /\ inputRead = 0 /\ batch = Nil
    /\ readerErr = FALSE /\ readerDone = FALSE /\ readerRefs = 1
    /\ more = TRUE /\ delivered = <<>> /\ kept = 0 /\ inputReleases = 0

ReaderInit == scan \in Scans /\ ReaderStart

Capped_Mutant(n) == n

Capped(n) == IF remaining >= 0 /\ n > remaining THEN remaining ELSE n

AskedColumns ==
    IF scan.projection = Nil THEN [c \in 1 .. Columns |-> c - 1] ELSE scan.projection

\* A batch holds its number, its columns and how many of its rows it shows.
Slice(b) == [number |-> b, rows |-> Capped(scan.sizes[b]), columns |-> AskedColumns]

Dropped == batch' = Nil /\ kept' = 0 /\ more' = FALSE

NextDenied ==
    /\ readerDone \/ remaining = 0
    /\ Dropped
    /\ UNCHANGED <<remaining, inputRead, readerErr, readerDone, delivered>>

NextBatch ==
    /\ ~readerDone /\ remaining # 0 /\ inputRead < Len(scan.sizes)
    /\ inputRead' = inputRead + 1
    /\ batch' = Slice(inputRead + 1) /\ kept' = 1 /\ more' = TRUE
    /\ delivered' = Append(delivered, Slice(inputRead + 1))
    /\ remaining' = IF remaining >= 0 THEN remaining - Capped(scan.sizes[inputRead + 1])
                    ELSE remaining
    /\ UNCHANGED <<readerErr, readerDone>>

NextEnds ==
    /\ ~readerDone /\ remaining # 0 /\ inputRead = Len(scan.sizes)
    /\ Dropped
    /\ readerDone' = TRUE /\ readerErr' = (scan.ending # "eof")
    /\ UNCHANGED <<remaining, inputRead, delivered>>

ReadNext ==
    /\ readerRefs > 0
    /\ NextDenied \/ NextBatch \/ NextEnds
    /\ UNCHANGED <<scan, readerRefs, inputReleases>>

RetainReader ==
    /\ readerRefs \in 1 .. MaxRefs - 1
    /\ readerRefs' = readerRefs + 1
    /\ UNCHANGED <<scan, remaining, inputRead, batch, readerErr, readerDone, more, delivered,
                   kept, inputReleases>>

ReleaseReader ==
    /\ readerRefs > 0
    /\ readerRefs' = readerRefs - 1
    /\ IF readerRefs > 1 THEN UNCHANGED <<batch, kept, inputReleases>>
       ELSE batch' = Nil /\ kept' = 0 /\ inputReleases' = inputReleases + 1
    /\ UNCHANGED <<scan, remaining, inputRead, readerErr, readerDone, more, delivered>>

ReaderNext == ReadNext \/ RetainReader \/ ReleaseReader

ReaderSpec == ReaderInit /\ [][ReaderNext]_readerVars

-----------------------------------------------------------------------------
Batches == [number : Nat, rows : Nat, columns : Seq(Nat)]

ReaderTypeOK ==
    /\ scan \in Scans
    /\ remaining \in -1 .. MaxLimit
    /\ inputRead \in 0 .. Len(scan.sizes)
    /\ batch \in Batches \union {Nil}
    /\ readerErr \in BOOLEAN /\ readerDone \in BOOLEAN /\ more \in BOOLEAN
    /\ readerRefs \in Nat /\ kept \in {0, 1} /\ inputReleases \in {0, 1}
    /\ delivered \in Seq(Batches)

DeliveredRows == Total([i \in DOMAIN delivered |-> delivered[i].rows])

\* Batches are delivered in order, as asked, and whole unless the limit cuts the last.
BatchesAsAsked ==
    \A i \in DOMAIN delivered :
        /\ delivered[i].number = i /\ delivered[i].columns = AskedColumns
        /\ \/ delivered[i].rows = scan.sizes[i]
           \/ /\ i = Len(delivered) /\ DeliveredRows = scan.limit
              /\ delivered[i].rows < scan.sizes[i]

\* What remains of the limit is what was not delivered.
LimitKept ==
    /\ Len(delivered) = inputRead /\ DeliveredRows \in Nat
    /\ remaining <= scan.limit
    /\ scan.limit = 0 => inputRead = 0
    /\ scan.limit = -1 => remaining = -1
    /\ scan.limit >= 0 => remaining >= 0 /\ DeliveredRows = scan.limit - remaining

EndReached ==
    /\ readerDone => inputRead = Len(scan.sizes) /\ remaining # 0
    /\ readerErr = (readerDone /\ scan.ending # "eof")
    /\ ~more => readerDone \/ remaining = 0

InputFreedOnce ==
    /\ inputReleases = IF readerRefs = 0 THEN 1 ELSE 0
    /\ kept = IF batch = Nil THEN 0 ELSE 1
    /\ readerRefs = 0 => kept = 0

(* The reader delivers the input's rows in order, each batch projected as  *)
(* asked and with its row count, never more than the limit; it ends        *)
(* without an error only at the limit or after an input that ended well,   *)
(* delivered in whole.  One batch is kept at a time and only the last      *)
(* Release frees the input, once.                                          *)
ReaderDelivers ==
    /\ BatchesAsAsked
    /\ scan.limit >= 0 => DeliveredRows <= scan.limit /\ (scan.limit = 0 => inputRead = 0)
    /\ ~more /\ ~readerErr =>
        \/ scan.limit >= 0 /\ DeliveredRows = scan.limit
        \/ /\ scan.ending = "eof" /\ Len(delivered) = Len(scan.sizes)
           /\ \A i \in DOMAIN delivered : delivered[i].rows = scan.sizes[i]
    /\ InputFreedOnce

ReaderInv == ReaderTypeOK /\ BatchesAsAsked /\ LimitKept /\ EndReached /\ InputFreedOnce
=============================================================================
