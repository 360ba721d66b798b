---------------------------- MODULE RowsAffected ----------------------------
(***************************************************************************)
(* result.go: execResult reads a statement's result batch by batch and     *)
(* sums its count column.                                                  *)
(***************************************************************************)
EXTENDS Cells, Sums

CONSTANTS CountValues, MaxColumn, MaxCounts  \* bounds of the result

ASSUME CountAssumption ==
    /\ CountValues \subseteq Int64 \union Uint64 \union {Null}
    /\ {MaxColumn, MaxCounts} \subseteq Nat

VARIABLES counts,        \* the result
          countsRead, rowsAffected,
          execAnswer

countVars == <<counts, countsRead, rowsAffected, execAnswer>>

\* batches: the first column of each, of one type; isCount: it is the only
\* one and has one of the three names; fails: the reader ends with an error.
Counts ==
    {c \in [batches : Sequences(Sequences(CountValues, MaxColumn), MaxCounts),
            isCount : BOOLEAN, isInteger : BOOLEAN, fails : BOOLEAN] :
        \E type \in {Int64, Uint64} :
            \A b \in DOMAIN c.batches : \A i \in DOMAIN c.batches[b] :
                c.batches[b][i] \in type \union {Null}}

CountStart == countsRead = 0 /\ rowsAffected = 0 /\ execAnswer = "reading"

CountInit == counts \in Counts /\ CountStart

AddInt64(a, b) == Wrap(a + b)

\* A value of a uint64 column may exceed int64.
IntegerValue(value) == IF counts.isInteger /\ value <= MaxInt64 THEN value ELSE Error

\* The guard that both loops put before their addition.
Overflows(total, value) ==
    \/ value > 0 /\ total > MaxInt64 - value
    \/ value < 0 /\ total < MinInt64 - value

Add(total, value) ==
    IF total = Error \/ value = Error \/ Overflows(total, value) THEN Error
    ELSE AddInt64(total, value)

SumsTo(column) ==
    LET sumTo[n \in 0 .. Len(column)] ==
            IF n = 0 THEN 0
            ELSE IF column[n] = Null THEN sumTo[n - 1]
            ELSE Add(sumTo[n - 1], IntegerValue(column[n]))
    IN  sumTo

SumIntegerArray(column) == SumsTo(column)[Len(column)]

\* The first batch decides: a result that counts nothing is closed unread.
ReadCounts ==
    /\ execAnswer = "reading" /\ countsRead < Len(counts.batches)
    /\ countsRead' = countsRead + 1
    /\ LET sum == Add(rowsAffected, SumIntegerArray(counts.batches[countsRead + 1]))
       IN  \/ ~counts.isCount /\ execAnswer' = "done" /\ UNCHANGED rowsAffected
           \/ counts.isCount /\ sum = Error /\ execAnswer' = "error" /\ UNCHANGED rowsAffected
           \/ counts.isCount /\ sum # Error /\ rowsAffected' = sum /\ UNCHANGED execAnswer
    /\ UNCHANGED counts

ReadEnds ==
    /\ execAnswer = "reading" /\ countsRead = Len(counts.batches)
    /\ execAnswer' = IF counts.fails THEN "error" ELSE "done"
    /\ UNCHANGED <<counts, countsRead, rowsAffected>>

CountNext == ReadCounts \/ ReadEnds

CountSpec == CountInit /\ [][CountNext]_countVars

-----------------------------------------------------------------------------
CountTypeOK ==
    /\ counts \in Counts /\ countsRead \in 0 .. Len(counts.batches)
    /\ rowsAffected \in Int64 /\ execAnswer \in {"reading", "done", "error"}

Plain(column) == [i \in DOMAIN column |-> IF column[i] = Null THEN 0 ELSE column[i]]

\* The exact sum of each batch.
BatchSums == [b \in DOMAIN counts.batches |-> Total(Plain(counts.batches[b]))]

AllPositive ==
    \A b \in DOMAIN counts.batches : \A i \in DOMAIN counts.batches[b] :
        Plain(counts.batches[b])[i] >= 0

(* RowsAffected is the exact sum of the counts or an error, never a        *)
(* wrapped number; counts of one sign whose sum fits are no error, and a   *)
(* result that counts nothing is none.                                     *)
CountExact ==
    /\ execAnswer = "done" =>
        rowsAffected = IF counts.isCount THEN Total(BatchSums) ELSE 0
    /\ execAnswer = "done" /\ counts.fails => ~counts.isCount
    /\ execAnswer = "error" =>
        \/ counts.fails /\ (counts.isCount \/ counts.batches = <<>>)
        \/ /\ counts.isCount
           /\ ~counts.isInteger \/ ~AllPositive \/ Total(BatchSums) > MaxInt64

\* What was summed so far.
CountInv ==
    /\ CountTypeOK /\ CountExact
    /\ execAnswer = "reading" =>
        /\ rowsAffected = SumsOf(BatchSums)[countsRead]
        /\ ~counts.isCount => countsRead = 0

(* arrowValue, scanType and rowsAffectedFromRecord: a number arrives       *)
(* exactly or as an error, never wrapped, in a type that can hold it.      *)
NumbersExact == CellExact /\ CountExact
=============================================================================
