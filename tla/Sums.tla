-------------------------------- MODULE Sums --------------------------------
(* Sequences of bounded length, and the sum of a sequence of integers as a *)
(* recursive function.                                                     *)
EXTENDS Integers, Sequences

Sequences(S, n) == UNION {[1 .. k -> S] : k \in 0 .. n}

\* SumsOf(s)[n]: the sum of the first n elements of s.
SumsOf(s) ==
    LET upTo[n \in 0 .. Len(s)] == IF n = 0 THEN 0 ELSE upTo[n - 1] + s[n]
    IN  upTo

Total(s) == SumsOf(s)[Len(s)]
=============================================================================
