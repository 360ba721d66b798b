----------------------------- MODULE Placeholders -----------------------------
(***************************************************************************)
(* rust/src/query.rs with the argument checks of native.go and             *)
(* parameters.rs: what a prepared query expects, how its question marks    *)
(* are rewritten in the SQL text, and which argument each placeholder gets.*)
(*                                                                         *)
(* A text is a sequence of tokens.  A placeholder is ?, $ with a number or *)
(* a name, or another that is refused (also a number beyond i64); the rest *)
(* are newlines and characters of one to four bytes.  An argument has a    *)
(* name or None, an ordinal (0: its position) and a value.                 *)
(***************************************************************************)
EXTENDS Integers, Sequences, FiniteSets

CONSTANTS SqlStatements,  \* to be prepared
          ArgumentLists,  \* to be executed with
          Names, None

Tokens ==
    [kind : {"?", "newline", "other"}, value : {None}] \union [kind : {"text"}, value : 1 .. 4]
    \union [kind : {"$"}, value : Nat] \union [kind : {"name"}, value : Names]

ASSUME PlaceholderAssumption ==
    /\ None \notin Names
    /\ \A s \in SqlStatements : s.tokens \in Seq(Tokens)
    /\ \A args \in ArgumentLists :
        /\ args \in Seq([name : Names \union {None}, ordinal : Int,
                         value : {args[i].value : i \in DOMAIN args}])
        /\ \A i \in DOMAIN args : args[i].value # None

VARIABLES sql,         \* the statement
          preparing,   \* "tokens", "start", "end", "prepared", "invalid", "bound", "refused"
          tokensRead,
          questions, numberMax, named,  \* question_count, positional_max, named
          cursor,      \* SourceCursor
          rewritten, lastByte,          \* the new text, and how far the old one was copied
          passed,      \* the arguments of the execution
          values       \* of the placeholders, by number or name

scanVars == <<questions, numberMax, named>>
placeholderVars == <<sql, preparing, tokensRead, scanVars, cursor, rewritten, lastByte, passed,
                     values>>

\* PREPARE and CREATE FUNCTION, explained or not: DataFusion binds their parameters.
DefinesParameters == sql.kind \in {"prepare", "create_function"}

Size == Len(sql.tokens)
Kind(i) == sql.tokens[i].kind

-----------------------------------------------------------------------------
(* The text, byte by byte.                                                 *)

BytesOf(token) ==
    [k \in 1 .. (IF token.kind = "text" THEN token.value ELSE 1) |-> <<token, k>>]

\* TextsOf(tokens)[n]: the text of the first n tokens.
TextsOf(tokens) ==
    LET upTo[n \in 0 .. Len(tokens)] == IF n = 0 THEN <<>> ELSE upTo[n - 1] \o BytesOf(tokens[n])
    IN  upTo
TextOf(tokens) == TextsOf(tokens)[Len(tokens)]

Dollar(number) == [kind |-> "$", value |-> number]

-----------------------------------------------------------------------------
(* prepare_query, one token after the other.  The tokenizer locates a token*)
(* by its line and its character in the line; SourceCursor walks there to  *)
(* find the byte.                                                          *)

Largest(S) == CHOOSE n \in S : \A m \in S : m <= n

Newlines(i) == {j \in 1 .. i - 1 : Kind(j) = "newline"}
Location(i) == <<1 + Cardinality(Newlines(i)), i - Largest({0} \union Newlines(i))>>

Target ==
    LET start == Location(tokensRead + 1)
    IN  IF preparing = "start" THEN start ELSE <<start[1], start[2] + 1>>
AtTarget == <<cursor.line, cursor.column>> = Target

\* One character forward.
Advance(token) ==
    [characters |-> cursor.characters + 1,
     offset |-> cursor.offset + Len(BytesOf(token)),
     line |-> IF token.kind = "newline" THEN cursor.line + 1 ELSE cursor.line,
     column |-> IF token.kind = "newline" THEN 1 ELSE cursor.column + 1]

\* rewrite_query: what is copied up to a byte.
CopiedTo(byte) == rewritten \o SubSeq(TextOf(sql.tokens), lastByte + 1, byte)

PrepareStart ==
    /\ preparing = "tokens" /\ tokensRead = 0
    /\ questions = 0 /\ numberMax = 0 /\ named = {}
    /\ cursor = [characters |-> 0, offset |-> 0, line |-> 1, column |-> 1]
    /\ rewritten = <<>> /\ lastByte = 0 /\ passed = <<>> /\ values = <<>>
PrepareInit == sql \in SqlStatements /\ PrepareStart

KeepDefinition ==
    /\ preparing = "tokens" /\ DefinesParameters
    /\ preparing' = "prepared" /\ rewritten' = TextOf(sql.tokens)
    /\ UNCHANGED <<sql, tokensRead, scanVars, cursor, lastByte, passed, values>>

Scanning == preparing = "tokens" /\ ~DefinesParameters /\ tokensRead < Size

NextToken ==
    /\ tokensRead' = tokensRead + 1
    /\ UNCHANGED <<sql, preparing, questions, cursor, rewritten, lastByte, passed, values>>

ReadText ==
    /\ Scanning /\ Kind(tokensRead + 1) \in {"text", "newline"}
    /\ NextToken /\ UNCHANGED <<numberMax, named>>

ReadNumber ==
    /\ Scanning
    /\ LET token == sql.tokens[tokensRead + 1]
       IN  /\ token.kind = "$" /\ token.value # 0
           /\ numberMax' = IF token.value > numberMax THEN token.value ELSE numberMax
    /\ NextToken /\ UNCHANGED named

ReadName ==
    /\ Scanning
    /\ LET token == sql.tokens[tokensRead + 1]
       IN  token.kind = "name" /\ named' = named \union {token.value}
    /\ NextToken /\ UNCHANGED numberMax

RejectToken ==
    /\ Scanning /\ sql.tokens[tokensRead + 1] \in {Dollar(0), [kind |-> "other", value |-> None]}
    /\ preparing' = "invalid"
    /\ UNCHANGED <<sql, tokensRead, scanVars, cursor, rewritten, lastByte, passed, values>>

ReadQuestion ==
    /\ Scanning /\ Kind(tokensRead + 1) = "?"
    /\ questions' = questions + 1 /\ preparing' = "start"
    /\ UNCHANGED <<sql, tokensRead, numberMax, named, cursor, rewritten, lastByte, passed, values>>

\* A location that the cursor does not meet is an error.
Seek ==
    /\ preparing \in {"start", "end"} /\ ~AtTarget
    /\ IF cursor.characters < Size
       THEN cursor' = Advance(sql.tokens[cursor.characters + 1]) /\ UNCHANGED preparing
       ELSE preparing' = "invalid" /\ UNCHANGED cursor
    /\ UNCHANGED <<sql, tokensRead, scanVars, rewritten, lastByte, passed, values>>

Replace ==
    /\ preparing = "start" /\ AtTarget
    /\ rewritten' = CopiedTo(cursor.offset) \o BytesOf(Dollar(questions))
    /\ preparing' = "end"
    /\ UNCHANGED <<sql, tokensRead, scanVars, cursor, lastByte, passed, values>>

Replaced ==
    /\ preparing = "end" /\ AtTarget
    /\ lastByte' = cursor.offset /\ tokensRead' = tokensRead + 1 /\ preparing' = "tokens"
    /\ UNCHANGED <<sql, scanVars, cursor, rewritten, passed, values>>

Mixed ==
    \/ questions > 0 /\ (numberMax > 0 \/ named # {})
    \/ numberMax > 0 /\ named # {}

Prepared ==
    /\ preparing = "tokens" /\ ~DefinesParameters /\ tokensRead = Size
    /\ IF Mixed THEN preparing' = "invalid" /\ UNCHANGED rewritten
       ELSE preparing' = "prepared" /\ rewritten' = CopiedTo(Len(TextOf(sql.tokens)))
    /\ UNCHANGED <<sql, tokensRead, scanVars, cursor, lastByte, passed, values>>

ParameterMetadata ==
    CASE questions > 0 -> [kind |-> "positional", count |-> questions]
      [] named # {} -> [kind |-> "named", count |-> Cardinality(named)]
      [] OTHER -> [kind |-> "positional", count |-> numberMax]   \* None if it is 0

-----------------------------------------------------------------------------
(* From arguments to bindings: checkArgCount, statementParams and          *)
(* bindings_from_params.  A later argument of an ordinal replaces one.     *)

Ordinal(args, i) == IF args[i].ordinal = 0 THEN i ELSE args[i].ordinal
ArgumentsAt(args, n) == {i \in DOMAIN args : Ordinal(args, i) = n}

Bindings(args) ==
    [n \in 1 .. Largest({0} \union {Ordinal(args, i) : i \in DOMAIN args}) |->
        IF ArgumentsAt(args, n) = {} THEN [name |-> None, value |-> None]
        ELSE LET last == args[Largest(ArgumentsAt(args, n))]
             IN  [name |-> last.name, value |-> last.value]]

BindingNames(bindings) == {bindings[n].name : n \in DOMAIN bindings}

\* param_values: what it refuses, and a function of numbers or names.
ParamsRefused_Mutant(bindings) ==
    \/ Len(bindings) # ParameterMetadata.count
    \/ /\ ParameterMetadata.kind = "positional"
       /\ BindingNames(bindings) \ {None} # {}
    \/ /\ ParameterMetadata.kind = "named"
       /\ \/ ~(BindingNames(bindings) \subseteq named)
          \/ Cardinality(BindingNames(bindings)) # Len(bindings)

ParamsRefused(bindings) ==
    \/ Len(bindings) # ParameterMetadata.count
    \/ \E n \in DOMAIN bindings : bindings[n].value = None
    \/ /\ ParameterMetadata.kind = "positional"
       /\ BindingNames(bindings) \ {None} # {}
    \/ /\ ParameterMetadata.kind = "named"
       /\ \/ ~(BindingNames(bindings) \subseteq named)
          \/ Cardinality(BindingNames(bindings)) # Len(bindings)

ParamValues(bindings) ==
    IF ParameterMetadata.kind = "named"
    THEN [name \in named |->
            bindings[CHOOSE n \in DOMAIN bindings : bindings[n].name = name].value]
    ELSE [n \in DOMAIN bindings |-> bindings[n].value]

ArgumentsRefused(args) ==
    \/ Len(args) # ParameterMetadata.count
    \/ \E i \in DOMAIN args : Ordinal(args, i) \notin DOMAIN args
    \/ ParamsRefused(Bindings(args))

Execute ==
    /\ preparing = "prepared"
    /\ \E args \in ArgumentLists :
        /\ passed' = args
        /\ IF ArgumentsRefused(args) THEN preparing' = "refused" /\ UNCHANGED values
           ELSE preparing' = "bound" /\ values' = ParamValues(Bindings(args))
    /\ UNCHANGED <<sql, tokensRead, scanVars, cursor, rewritten, lastByte>>

PlaceholderNext ==
    \/ KeepDefinition \/ ReadText \/ ReadNumber \/ ReadName \/ RejectToken \/ ReadQuestion
    \/ Seek \/ Replace \/ Replaced \/ Prepared \/ Execute

PlaceholderSpec == PrepareInit /\ [][PlaceholderNext]_placeholderVars

-----------------------------------------------------------------------------
QuestionsIn(i) == {q \in 1 .. i : Kind(q) = "?"}

\* The text with its question marks numbered.
Numbered ==
    [i \in DOMAIN sql.tokens |->
        IF Kind(i) = "?" THEN Dollar(Cardinality(QuestionsIn(i))) ELSE sql.tokens[i]]

\* Where DataFusion takes the value of a placeholder from.
Key(i) == IF Kind(i) = "?" THEN Cardinality(QuestionsIn(i)) ELSE sql.tokens[i].value

\* The arguments a caller means for a placeholder.
MeantFor(i) ==
    IF Kind(i) = "name" THEN {a \in DOMAIN passed : passed[a].name = Key(i)}
    ELSE ArgumentsAt(passed, Key(i))

EachHasItsArgument ==
    preparing = "bound" /\ ~DefinesParameters =>
        \A i \in DOMAIN sql.tokens : Kind(i) \in {"?", "$", "name"} =>
            {passed[a].value : a \in MeantFor(i)} = {values[Key(i)]}

PlainArguments ==
    /\ Len(passed) = Cardinality(QuestionsIn(Size))
    /\ \A a \in DOMAIN passed : passed[a].name = None /\ Ordinal(passed, a) = a

PlainNotRefused ==
    (\A i \in DOMAIN sql.tokens : Kind(i) \in {"?", "text", "newline"}) =>
        /\ preparing # "invalid"
        /\ preparing = "refused" => DefinesParameters \/ ~PlainArguments

NothingElseRewritten ==
    preparing \in {"prepared", "bound", "refused"} =>
        rewritten = TextOf(IF DefinesParameters THEN sql.tokens ELSE Numbered)

(* Every placeholder of a query that is executed has the value that the    *)
(* caller passed for it, by name, number or position, whatever ordinals    *)
(* the arguments carry; a query with as many plain arguments in order as   *)
(* it has question marks is never refused.  Rewriting changes the question *)
(* marks and no other byte, although tokens are located by line and        *)
(* character and the text is cut by byte.                                  *)
BoundAsWritten == EachHasItsArgument /\ PlainNotRefused /\ NothingElseRewritten

-----------------------------------------------------------------------------
PlaceholderTypeOK ==
    /\ sql \in SqlStatements /\ tokensRead \in 0 .. Size
    /\ preparing \in {"tokens", "start", "end", "prepared", "invalid", "bound", "refused"}
    /\ questions \in Nat /\ numberMax \in Nat /\ named \subseteq Names
    /\ cursor \in [characters : 0 .. Size, offset : Nat, line : Nat, column : Nat]
    /\ rewritten \in Seq(Tokens \X Nat) /\ lastByte \in Nat
    /\ passed \in ArgumentLists \union {<<>>}

Seeking == preparing \in {"start", "end"}
Executable == preparing \in {"prepared", "bound", "refused"}

\* What was counted are the placeholders of the tokens read.
CountsKept ==
    /\ questions = Cardinality(QuestionsIn(IF Seeking THEN tokensRead + 1 ELSE tokensRead))
    /\ named = {sql.tokens[i].value : i \in {j \in 1 .. tokensRead : Kind(j) = "name"}}
    /\ numberMax # 0 => Dollar(numberMax) \in {sql.tokens[i] : i \in 1 .. tokensRead}
    /\ \A i \in 1 .. tokensRead :
        Kind(i) # "other" /\ (Kind(i) = "$" => sql.tokens[i].value \in 1 .. numberMax)
    /\ Seeking => ~DefinesParameters /\ tokensRead < Size /\ Kind(tokensRead + 1) = "?"
    /\ Executable /\ ~DefinesParameters => tokensRead = Size /\ ~Mixed
    /\ DefinesParameters => tokensRead = 0

\* The cursor is where the tokenizer would be, and never beyond the placeholder sought.
CursorKept ==
    /\ cursor.offset = Len(TextsOf(sql.tokens)[cursor.characters])
    /\ <<cursor.line, cursor.column>> = Location(cursor.characters + 1)
    /\ preparing \in {"tokens", "start"} => cursor.characters <= tokensRead
    /\ preparing = "end" => cursor.characters \in {tokensRead, tokensRead + 1}

\* With the text up to the tokens read, the new text is the numbered one.
CopyKept ==
    LET byte == Len(TextsOf(sql.tokens)[tokensRead])
    IN  /\ preparing \in {"tokens", "start"} =>
            lastByte <= byte /\ CopiedTo(byte) = TextsOf(Numbered)[tokensRead]
        /\ preparing = "end" => rewritten = TextsOf(Numbered)[tokensRead + 1]

ExecutionKept ==
    /\ preparing = "bound" =>
        ~ArgumentsRefused(passed) /\ values = ParamValues(Bindings(passed))
    /\ preparing = "refused" => ArgumentsRefused(passed)
    /\ preparing \in {"bound", "refused"} => passed \in ArgumentLists
    /\ preparing = "invalid" =>
        \E i \in DOMAIN sql.tokens : Kind(i) \notin {"?", "text", "newline"}

PlaceholderInv ==
    /\ PlaceholderTypeOK /\ CountsKept /\ CursorKept /\ CopyKept /\ ExecutionKept
    /\ NothingElseRewritten
=============================================================================
