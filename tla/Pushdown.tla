------------------------------- MODULE Pushdown -------------------------------
(***************************************************************************)
(* rust/src/pushdown.rs and internal/native/expr.go: which filters of a    *)
(* scan are pushed to a Go provider, and what the provider reads of them   *)
(* once they went through JSON.                                            *)
(*                                                                         *)
(* Values of the one column and of literals are numbers in the order       *)
(* DataFusion compares them, among them the infinities and NaN.  A filter  *)
(* is a sequence of expressions: each refers to its operands by their      *)
(* place before it, and the last one is the filter.                        *)
(***************************************************************************)
EXTENDS Integers, Sequences

CONSTANTS Literals,  \* the values of literals
          NoValue,   \* a null
          Filters

NonFinite == {-10, 10, 11}   \* -Inf, Inf, NaN
Ops == {"eq", "neq", "lt", "lteq", "gt", "gteq"}

Column == [kind |-> "column"]
Literal(value) == [kind |-> "literal", value |-> value]
\* A column of another table, a cast, a function call, ...
OtherExpr == [kind |-> "other"]

Sides == {Column, OtherExpr} \union {Literal(v) : v \in Literals}

Predicates ==
    [kind : {"compare"}, left : Sides, op : Ops, right : Sides]
    \union [kind : {"is_null"}, negated : BOOLEAN]
    \union [kind : {"between"}, negated : BOOLEAN, low : Literals, high : Literals]
    \union [kind : {"in_list"}, negated : BOOLEAN, list : Seq(Literals)]
    \union {OtherExpr}

Connectives(places) ==
    [kind : {"not"}, expr : places] \union [kind : {"and", "or"}, left : places, right : places]

WellFormed(f) ==
    /\ f \in Seq(Predicates \union Connectives(Nat)) /\ f # <<>>
    /\ \A i \in 1 .. Len(f) : f[i] \in Predicates \union Connectives(1 .. i - 1)

ASSUME PushdownAssumption ==
    /\ NoValue \notin Int /\ Literals \subseteq Int \union {NoValue}
    /\ \A f \in Filters : WellFormed(f)

VARIABLES filter,  \* of the query
          pushed   \* what the provider reads of it, if anything

pushdownVars == <<filter, pushed>>

-----------------------------------------------------------------------------
(* SQL's three-valued evaluation, by DataFusion and by a provider that     *)
(* follows the documentation of the Go types.                              *)

Truths == {"true", "false", "null"}

Of(condition) == IF condition THEN "true" ELSE "false"

Compared(op, a, b) ==
    IF a = NoValue \/ b = NoValue THEN "null"
    ELSE Of(CASE op = "eq" -> a = b
              [] op = "neq" -> a # b
              [] op = "lt" -> a < b
              [] op = "lteq" -> a <= b
              [] op = "gt" -> a > b
              [] op = "gteq" -> a >= b)

Negation(t) == CASE t = "true" -> "false" [] t = "false" -> "true" [] OTHER -> "null"
Conjunction(s, t) ==
    IF "false" \in {s, t} THEN "false" ELSE IF s = "true" /\ t = "true" THEN "true" ELSE "null"
Disjunction(s, t) == Negation(Conjunction(Negation(s), Negation(t)))
NegatedIf(negated, t) == IF negated THEN Negation(t) ELSE t

AnyEqual(row_, list) ==
    IF \E i \in DOMAIN list : Compared("eq", row_, list[i]) = "true" THEN "true"
    ELSE IF \E i \in DOMAIN list : Compared("eq", row_, list[i]) = "null" THEN "null"
    ELSE "false"

\* other: what an expression that is not modelled evaluates to.
PredicateTruth(e, row_, other) ==
    LET value(side) == IF side.kind = "column" THEN row_ ELSE side.value
    IN  CASE e.kind = "compare" ->
                IF "other" \in {e.left.kind, e.right.kind} THEN other
                ELSE Compared(e.op, value(e.left), value(e.right))
          [] e.kind = "is_null" -> Of((row_ = NoValue) # e.negated)
          [] e.kind = "between" ->
                NegatedIf(e.negated, Conjunction(Compared("gteq", row_, e.low),
                                                 Compared("lteq", row_, e.high)))
          [] e.kind = "in_list" -> NegatedIf(e.negated, AnyEqual(row_, e.list))
          [] OTHER -> other

Eval(f, row_, other) ==
    LET truth[i \in DOMAIN f] ==
            CASE f[i].kind = "and" -> Conjunction(truth[f[i].left], truth[f[i].right])
              [] f[i].kind = "or" -> Disjunction(truth[f[i].left], truth[f[i].right])
              [] f[i].kind = "not" -> Negation(truth[f[i].expr])
              [] OTHER -> PredicateTruth(f[i], row_, other)
    IN  truth

-----------------------------------------------------------------------------
(* classify                                                                *)

Unsupported == [kind |-> "unsupported"]

Swap_Mutant(op) == op

Swap(op) ==
    CASE op = "lt" -> "gt" [] op = "gt" -> "lt"
      [] op = "lteq" -> "gteq" [] op = "gteq" -> "lteq"
      [] OTHER -> op

IsLiteral(side) == side.kind = "literal" /\ side.value # NoValue
Compare(op, literal) ==
    [kind |-> "compare", left |-> Column, op |-> op, right |-> literal]

ClassifyPredicate(e) ==
    CASE e.kind = "compare" ->
            IF e.left = Column /\ IsLiteral(e.right) THEN Compare(e.op, e.right)
            ELSE IF IsLiteral(e.left) /\ e.right = Column THEN Compare(Swap(e.op), e.left)
            ELSE Unsupported
      [] e.kind = "is_null" -> e
      [] e.kind = "between" -> IF NoValue \in {e.low, e.high} THEN Unsupported ELSE e
      [] e.kind = "in_list" ->
            IF \E i \in DOMAIN e.list : e.list[i] = NoValue THEN Unsupported ELSE e
      [] OTHER -> Unsupported

Classify(f) ==
    LET classified[i \in DOMAIN f] ==
            CASE f[i].kind \in {"and", "or"} ->
                    IF Unsupported \in {classified[f[i].left], classified[f[i].right]}
                    THEN Unsupported ELSE f[i]
              [] f[i].kind = "not" ->
                    IF classified[f[i].expr] = Unsupported THEN Unsupported ELSE f[i]
              [] OTHER -> ClassifyPredicate(f[i])
    IN  classified

-----------------------------------------------------------------------------
(* JSON has no number for an infinity or NaN: serde_json writes null, and  *)
(* encoding/json leaves the zero value of the literal's Go type there.     *)

Decoded(value) == IF value \in NonFinite THEN 0 ELSE value

ReceivedPredicate(e) ==
    CASE e.kind = "compare" -> [e EXCEPT !.right = Literal(Decoded(@.value))]
      [] e.kind = "between" -> [e EXCEPT !.low = Decoded(@), !.high = Decoded(@)]
      [] e.kind = "in_list" -> [e EXCEPT !.list = [i \in DOMAIN @ |-> Decoded(@[i])]]
      [] OTHER -> e

Received(f) == [i \in DOMAIN f |-> ReceivedPredicate(f[i])]

-----------------------------------------------------------------------------
PushdownInit == filter \in Filters /\ pushed = <<>>

\* A filter that cannot be pushed is left to DataFusion.
Push ==
    /\ pushed = <<>> /\ Classify(filter)[Len(filter)] # Unsupported
    /\ pushed' = Received(Classify(filter))
    /\ UNCHANGED filter

PushdownSpec == PushdownInit /\ [][Push]_pushdownVars

PushdownTypeOK == filter \in Filters /\ pushed \in {<<>>, Received(Classify(filter))}

(* A provider may drop the rows that a pushed filter does not hold for:    *)
(* the filter it reads holds for every row that the SQL filter holds for,  *)
(* however comparisons are mirrored, negated and nested, so that rechecking*)
(* finds all rows (extensions.go:21, internal/native/extensions.go:27).    *)
PushdownConservative ==
    pushed # <<>> =>
        \A value \in Literals \union NonFinite, other \in Truths :
            Eval(filter, value, other)[Len(filter)] = "true" =>
                Eval(pushed, value, other)[Len(filter)] = "true"
=============================================================================
