-------------------------------- MODULE Cells --------------------------------
(***************************************************************************)
(* rows.go: which Arrow types database/sql results may have, how a value   *)
(* becomes a driver.Value and what ColumnTypeScanType promises of it.      *)
(* One value is converted.                                                 *)
(***************************************************************************)
EXTENDS GoValues

CONSTANT Multipliers   \* nanoseconds of the units of a duration

ASSUME CellAssumption == Multipliers \subseteq Nat \ {0}

VARIABLES cell,      \* the value, its column's type and nullability, its unit
          arrived    \* the driver.Value

cellVars == <<cell, arrived>>

Signed == {"int8", "int16", "int32", "int64"}
Unsigned == {"uint8", "uint16", "uint32", "uint64"}
Floats == {"float16", "float32", "float64"}
Texts == {"string", "large_string", "string_view"}
Bytes == {"binary", "large_binary", "fixed_size_binary", "binary_view"}
Times == {"date32", "date64", "time32", "time64", "timestamp"}
Decimals == {"decimal32", "decimal64", "decimal128", "decimal256"}
Intervals == {"interval_months", "interval_day_time", "interval_month_day_nano"}
Nested == {"list", "large_list", "fixed_size_list", "struct", "map", "sparse_union",
           "dense_union", "dictionary", "extension", "run_end_encoded"}
Types == {"null", "bool", "duration"} \union Signed \union Unsigned \union Floats
         \union Texts \union Bytes \union Times \union Decimals \union Intervals \union Nested

\* checkDatabaseSQLType.
Accepted(type) == type \in Types \ Nested

\* Go's division truncates toward zero.
Quotient(n, d) == IF n < 0 THEN -((-n) \div d) ELSE n \div d

DurationNanos_Mutant(value, multiplier) ==
    CASE multiplier <= 0 -> Error
      [] value > 0 /\ value > Quotient(MaxInt64, multiplier) + 1 -> Error
      [] value < 0 /\ value < Quotient(MinInt64, multiplier) -> Error
      [] OTHER -> Wrap(value * multiplier)

DurationNanos(value, multiplier) ==
    CASE multiplier <= 0 -> Error
      [] value > 0 /\ value > Quotient(MaxInt64, multiplier) -> Error
      [] value < 0 /\ value < Quotient(MinInt64, multiplier) -> Error
      [] OTHER -> Wrap(value * multiplier)

Number(n) == [kind |-> "int64", n |-> n]
Opaque(kind) == [kind |-> kind, n |-> 0]

\* A value of a type that is not an integer is abstracted to its Go type.
ArrowValue(type, value, multiplier) ==
    IF value = Null \/ type = "null" THEN Opaque("nil")
    ELSE CASE type \in Signed -> Number(value)
           [] type \in Unsigned -> IF value > MaxInt64 THEN Opaque("error") ELSE Number(value)
           [] type = "duration" -> LET nanos == DurationNanos(value, multiplier)
                                   IN IF nanos = Error THEN Opaque("error") ELSE Number(nanos)
           [] type = "bool" -> Opaque("bool")
           [] type \in Floats -> Opaque("float64")
           [] type \in Bytes -> Opaque("[]byte")
           [] type \in Times -> Opaque("Time")
           [] type \in Texts \union Decimals \union Intervals -> Opaque("string")
           [] OTHER -> Opaque("error")

ScanType(type, nullable) ==
    LET null(go, sql) == IF nullable THEN sql ELSE go
    IN  CASE type = "bool" -> null("bool", "NullBool")
          [] type \in Signed \union Unsigned \union {"duration"} -> null("int64", "NullInt64")
          [] type \in Floats -> null("float64", "NullFloat64")
          [] type \in Times -> null("Time", "NullTime")
          [] type \in Texts \union Decimals \union Intervals -> null("string", "NullString")
          [] type \in Bytes -> "[]byte"
          [] OTHER -> "any"

Integral == Signed \union Unsigned \union {"duration"}

Unread == Opaque("unread")

CellInputs ==
    {c \in [type : Types, nullable : BOOLEAN, value : Int64 \union Uint64 \union {Null},
            multiplier : Multipliers] :
        /\ c.type \notin Integral => c.value \in {0, Null}
        /\ c.value # Null => c.value \in IF c.type \in Unsigned THEN Uint64 ELSE Int64}

CellInit == cell \in CellInputs /\ arrived = Unread

\* A result with a column of another type is refused when it is opened.
Convert ==
    /\ arrived = Unread /\ Accepted(cell.type)
    /\ arrived' = ArrowValue(cell.type, cell.value, cell.multiplier)
    /\ UNCHANGED cell

CellSpec == CellInit /\ [][Convert]_cellVars

-----------------------------------------------------------------------------
Arrived == {Opaque(kind) : kind \in {"unread", "nil", "error", "bool", "float64", "[]byte",
                                     "Time", "string"}}
           \union {Number(n) : n \in Int64}

CellTypeOK == cell \in CellInputs /\ arrived \in Arrived

Holds(destination, kind) ==
    CASE kind = "nil" -> destination \in {"any", "[]byte", "NullBool", "NullInt64", "NullFloat64",
                                    "NullTime", "NullString"}
      [] OTHER -> destination \in {"any", kind} \/
                  <<destination, kind>> \in {<<"NullBool", "bool">>, <<"NullInt64", "int64">>,
                      <<"NullFloat64", "float64">>, <<"NullTime", "Time">>,
                      <<"NullString", "string">>}

Exactly == IF cell.type = "duration" THEN cell.value * cell.multiplier ELSE cell.value

(* A value of a result that was accepted can be scanned into the type its  *)
(* column announces, and an integer or duration arrives exactly: it is an  *)
(* error if, and only if, int64 cannot hold it.                            *)
CellExact ==
    arrived # Unread =>
        IF cell.type \in Integral /\ cell.value # Null
        THEN arrived = IF Exactly \in Int64 THEN Number(Exactly) ELSE Opaque("error")
        ELSE (cell.value = Null => cell.nullable \/ cell.type = "null") =>
             Holds(ScanType(cell.type, cell.nullable), arrived.kind)
=============================================================================
