------------------------------- MODULE GoValues -------------------------------
(* The integers of Go, Arrow and the C ABI, with MaxInt64 as the largest   *)
(* int64; no value, and the outcome of a refused conversion.               *)
EXTENDS Integers

CONSTANTS MaxInt64, Null, Error

ASSUME ValuesAssumption == MaxInt64 \in Nat /\ Null \notin Int /\ Error \notin Int

MinInt64 == -MaxInt64 - 1
Int64 == MinInt64 .. MaxInt64
Uint64 == 0 .. 2 * MaxInt64 + 1
Wrap(n) == ((n - MinInt64) % (2 * MaxInt64 + 2)) + MinInt64
=============================================================================
