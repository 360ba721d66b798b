--------------------------- MODULE ParameterValues ---------------------------
(***************************************************************************)
(* parameters.go, setStatementParam of native.go and parameters.rs: the    *)
(* way of one argument from Go to a DataFusion scalar.                     *)
(*                                                                         *)
(* An argument has a type, a value and what else its type carries.  A      *)
(* typed null has the value Null.  The value of a decimal is its text, a   *)
(* sequence of digits and other characters; of a type that is passed as it *)
(* is, a number stands for it.  Decimals have up to MaxPrecision digits.   *)
(* A Go string need not be UTF-8; Rust refuses one that is not.            *)
(***************************************************************************)
EXTENDS GoValues, Sequences

CONSTANTS MaxPrecision,
          Minus, Plus, Dot, Space,       \* characters that are no digits
          InvalidStrings, InvalidZones,  \* strings and time zones that are not UTF-8
          Arguments, Unbound

NanosPerDay == MaxInt64   \* a bound within int64
NoZone == ""

Codes == {"bool", "int64", "uint64", "float64", "string", "binary", "date", "time",
          "timestamp", "duration", "decimal"}

\* What a Go argument can hold.
GoValue(type) ==
    CASE type = "decimal" -> Seq(0 .. 9 \union {Minus, Plus, Dot, Space})
      [] type = "timestamp" -> Int
      [] type = "uint64" -> Uint64
      [] type = "nil" -> {}
      [] OTHER -> Int64

ASSUME ParameterAssumption ==
    /\ MaxPrecision \in Nat
    /\ {Minus, Plus, Dot, Space} \cap 0 .. 9 = {}
    /\ Minus # Plus /\ Dot \notin {Minus, Plus} /\ Space \notin {Minus, Plus, Dot}
    /\ InvalidStrings \subseteq Int64 /\ {NoZone, "UTC"} \cap InvalidZones = {}
    /\ \A v \in Arguments :
        /\ v.type \in Codes \union {"nil"} /\ v.value \in GoValue(v.type) \union {Null}
        /\ v.precision \in Nat /\ v.scale \in Int
        /\ v.type # "timestamp" => v.zone \notin InvalidZones

VARIABLES argument,
          bound      \* the scalar, or an error

parameterVars == <<argument, bound>>

-----------------------------------------------------------------------------
(* Decimals.                                                               *)

ValidDecimalType(precision, scale) ==
    /\ precision \in 1 .. MaxPrecision
    /\ scale \in 0 .. precision

\* strings.TrimSpace and str::trim.
Trim(text) ==
    LET inked == {i \in DOMAIN text : text[i] # Space}
        from == CHOOSE i \in inked : \A j \in inked : i <= j
        to == CHOOSE i \in inked : \A j \in inked : j <= i
    IN  IF inked = {} THEN <<>> ELSE SubSeq(text, from, to)

IsDigit(c) == c \in 0 .. 9
HasSign(text) == text # <<>> /\ Head(text) \in {Minus, Plus}
Body(text) == IF HasSign(text) THEN Tail(text) ELSE text

Dots(body) == {i \in DOMAIN body : body[i] = Dot}
FirstDot(body) == CHOOSE i \in Dots(body) : \A j \in Dots(body) : i <= j
IntPart(body) == IF Dots(body) = {} THEN body ELSE SubSeq(body, 1, FirstDot(body) - 1)
FracPart(body) == IF Dots(body) = {} THEN <<>> ELSE SubSeq(body, FirstDot(body) + 1, Len(body))

Zeros(n) == [i \in 1 .. n |-> 0]

\* NumbersRead(s)[n]: the first n characters as a number, a dot left out.
NumbersRead(s) ==
    LET upTo[n \in 0 .. Len(s)] ==
            IF n = 0 THEN 0 ELSE IF s[n] = Dot THEN upTo[n - 1] ELSE 10 * upTo[n - 1] + s[n]
    IN  upTo
NumberRead(s) == NumbersRead(s)[Len(s)]

\* How many digits remain without leading zeros.
Significant(digits) ==
    LET nonzero == {i \in DOMAIN digits : digits[i] # 0}
        leading == CHOOSE i \in nonzero : \A j \in nonzero : i <= j
    IN  IF nonzero = {} THEN 0 ELSE Len(digits) - leading + 1

TooManyDigits_Mutant(digits, precision) == Len(digits) > precision + 1

TooManyDigits(digits, precision) ==
    LET n == Significant(digits)
    IN  (IF n = 0 THEN 1 ELSE n) > precision

ParseTrimmed(text, precision, scale) ==
    LET int == IntPart(Body(text))
        frac == FracPart(Body(text))
        digits == int \o frac \o Zeros(scale - Len(frac))
    IN  IF \/ ~ValidDecimalType(precision, scale)
           \/ int \o frac = <<>>
           \/ \E i \in DOMAIN (int \o frac) : ~IsDigit((int \o frac)[i])
           \/ Len(frac) > scale
           \/ TooManyDigits(digits, precision)
        THEN Error
        ELSE IF Head(text) = Minus THEN -NumberRead(digits) ELSE NumberRead(digits)

ParseDecimal128(text, precision, scale) == ParseTrimmed(Trim(text), precision, scale)

-----------------------------------------------------------------------------
\* What normalizeParameterValue refuses.
Refused(v) ==
    \/ v.type = "decimal" /\ ~ValidDecimalType(v.precision, v.scale)
    \/ /\ v.value # Null
       /\ \/ v.type = "time" /\ v.value \notin 0 .. NanosPerDay - 1
          \/ v.type = "timestamp" /\ v.value \notin Int64
          \/ v.type = "decimal" /\ Trim(v.value) = <<>>

\* normalizeParameterValue and setStatementParam: dfgo_parameter.
ToParameter(v) ==
    [code |-> v.type, isNull |-> v.value = Null, value |-> v.value,
     precision |-> v.precision, scale |-> v.scale,
     zone |-> IF v.type = "timestamp" /\ v.zone = NoZone THEN "UTC" ELSE v.zone]

Scalar(type, value) == [type |-> type, value |-> value]

\* The DataFusion type, with what it is parameterised by.
ScalarType(p) ==
    CASE p.code = "decimal" -> <<"Decimal128", p.precision, p.scale>>
      [] p.code = "timestamp" -> <<"TimestampNanosecond", p.zone>>
      [] OTHER -> <<p.code>>

\* bytes_to_string refuses: a string, or the zone of a timestamp or typed null.
NotUtf8(p) ==
    \/ p.code = "string" /\ ~p.isNull /\ p.value \in InvalidStrings
    \/ p.code # "nil" /\ (p.isNull \/ p.code = "timestamp") /\ p.zone \in InvalidZones

\* parameter_value and typed_null.
ParameterValue(p) ==
    IF NotUtf8(p) THEN Error
    ELSE IF p.isNull
    THEN IF p.code = "decimal" /\ ~ValidDecimalType(p.precision, p.scale)
         THEN Error ELSE Scalar(ScalarType(p), Null)
    ELSE IF p.code = "decimal"
    THEN LET n == ParseDecimal128(p.value, p.precision, p.scale)
         IN  IF n = Error THEN Error ELSE Scalar(ScalarType(p), n)
    ELSE Scalar(ScalarType(p), p.value)

Scalarized(v) == IF Refused(v) THEN Error ELSE ParameterValue(ToParameter(v))

-----------------------------------------------------------------------------
ParameterInit == argument \in Arguments /\ bound = Unbound

Bind ==
    /\ bound = Unbound
    /\ bound' = Scalarized(argument)
    /\ UNCHANGED argument

ParameterSpec == ParameterInit /\ [][Bind]_parameterVars

-----------------------------------------------------------------------------
ParameterTypeOK == argument \in Arguments /\ bound \in {Unbound, Scalarized(argument)}

\* n, ten times n, ...
TensOf(n, places) ==
    LET times[k \in 0 .. places] == IF k = 0 THEN n ELSE 10 * times[k - 1]
    IN  times
TimesTen(n, places) == TensOf(n, places)[places]

\* A sign, digits, and one dot among them.
IsNumber(text) ==
    LET body == Body(text)
    IN  /\ \A i \in DOMAIN body : IsDigit(body[i]) \/ body[i] = Dot
        /\ \E i \in DOMAIN body : IsDigit(body[i])
        /\ \A i, j \in Dots(body) : i = j

Places(text) ==
    LET body == Body(text)
    IN  IF Dots(body) = {} THEN 0 ELSE Len(body) - FirstDot(body)

\* The number that a decimal stands for, as a multiple of its last place.
Scaled(v) ==
    LET text == Trim(v.value)
    IN  TimesTen(NumberRead(Body(text)), v.scale - Places(text))
Negated(v) == Head(Trim(v.value)) = Minus

DecimalFits(v) ==
    /\ ValidDecimalType(v.precision, v.scale)
    /\ IsNumber(Trim(v.value)) /\ Places(Trim(v.value)) <= v.scale
    /\ Scaled(v) < TimesTen(1, v.precision)

Fits(v) ==
    CASE v.type = "time" -> v.value \in 0 .. NanosPerDay - 1
      [] v.type = "timestamp" -> v.value \in Int64 /\ v.zone \notin InvalidZones
      [] v.type = "string" -> v.value \notin InvalidStrings
      [] v.type = "decimal" -> DecimalFits(v)
      [] OTHER -> TRUE

\* NullOf, NullDecimal and NullTimestamp.
NullOf(v) == [type |-> v.type, value |-> Null, precision |-> v.precision, scale |-> v.scale,
              zone |-> v.zone]

(* A value is bound exactly or refused.  A decimal is bound as its digits  *)
(* scaled by 10^scale; it is refused when its text, trimmed, is not a      *)
(* number, has more fractional digits than the scale or does not fit the   *)
(* precision.  A string or a zone that is not UTF-8 is refused.  A typed   *)
(* null has the DataFusion type, with precision, scale and zone, that a    *)
(* value of its type has.                                                  *)
ParametersExact ==
    bound # Unbound /\ argument.value # Null =>
        IF Fits(argument)
        THEN /\ bound.value = IF argument.type # "decimal" THEN argument.value
                              ELSE IF Negated(argument) THEN -Scaled(argument)
                              ELSE Scaled(argument)
             /\ Scalarized(NullOf(argument)) = [bound EXCEPT !.value = Null]
        ELSE bound = Error
=============================================================================
