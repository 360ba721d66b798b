---------------------------- MODULE CatalogResolve ----------------------------
(***************************************************************************)
(* rust/src/go_catalog.rs: what one query sees of a remote catalog that    *)
(* changes while it is resolved.  A data query resolves the tables it      *)
(* names before it is planned; a metadata query lists names first and      *)
(* resolves tables when they are looked up, by concurrent branches.        *)
(***************************************************************************)
EXTENDS Naturals

CONSTANTS Table,        \* of the catalog, each in a schema of its own
          Branch,       \* concurrent lookups of the planned query
          MaxReferences, MaxChanges,  \* bounds
          Unresolved    \* neither resolved nor looked up; 0 is a missing table

ASSUME CatalogAssumption ==
    /\ MaxReferences \in Nat /\ MaxChanges \in Nat
    /\ Unresolved \notin Nat /\ Unresolved \notin Table \union Branch

VARIABLES query,      \* what is asked of which catalog
          remote,     \* the version of each table, 0 if there is none
          changes,    \* of the remote catalog
          phase,      \* "list", "tables", "planned"
          position,   \* in the references
          listing,    \* schemas still to be listed
          tables,     \* what the snapshot contains
          snapshot,   \* what each table resolved to
          resolving,  \* the branch that asks for a table
          branch,     \* the table each branch looks up
          answers,    \* what the lookups of each table were given
          called       \* to the catalog's Go code

progress == <<phase, position, listing, tables>>
lookups == <<resolving, branch, answers>>
catalogVars == <<query, remote, changes, progress, snapshot, lookups, called>>

-----------------------------------------------------------------------------
Ranks == [none |-> 0, schemas |-> 1, tables |-> 2]

\* A reference to information_schema, by the table it names.
NeededBy(metadata) ==
    CASE metadata = "schemata" -> "schemas"
      [] metadata \in {"tables", "columns", "views"} -> "tables"
      [] OTHER -> "none"

\* EXPLAIN asks for what its statement does.  DataFusion gives every SHOW
\* references to all of information_schema, which say nothing.
DiscoveryFor(statement, metadata) ==
    CASE statement \in {"show_tables", "show_columns", "show_create"} -> "tables"
      [] statement \in {"show_variables", "show_functions"} -> "none"
      [] OTHER -> LET needs == {NeededBy(m) : m \in metadata} \union {"none"}
                  IN  CHOOSE n \in needs : \A o \in needs : Ranks[n] >= Ranks[o]

Statement == {"show_tables", "show_variables", "query"}
Metadata == {"schemata", "columns", "df_settings"}   \* of information_schema

Queries ==
    {q \in [statement : Statement, metadata : SUBSET Metadata, discoverable : BOOLEAN,
            references : UNION {[1 .. n -> Table] : n \in 0 .. MaxReferences}] :
        q.statement # "query" => q.metadata = Metadata /\ q.references = <<>>}

Mode ==
    IF query.discoverable THEN DiscoveryFor(query.statement, query.metadata) ELSE "none"

Referenced == {query.references[i] : i \in DOMAIN query.references}

CatalogStart ==
    /\ remote = [t \in Table |-> 1] /\ changes = 0
    /\ phase = "list" /\ position = 1 /\ listing = {} /\ tables = {}
    /\ snapshot = [t \in Table |-> Unresolved]
    /\ resolving = [t \in Table |-> Unresolved]
    /\ branch = [b \in Branch |-> Unresolved]
    /\ answers = [t \in Table |-> {}]
    /\ called = [schemas |-> FALSE, tables |-> {}, resolve |-> {}]

CatalogInit == query \in Queries /\ CatalogStart

\* A table is created, replaced or dropped.
Change ==
    /\ changes < MaxChanges
    /\ changes' = changes + 1
    /\ \E t \in Table, version \in {0, changes + 2} : remote' = [remote EXCEPT ![t] = version]
    /\ UNCHANGED <<query, progress, snapshot, lookups, called>>

-----------------------------------------------------------------------------
(* resolve: one reference after another.  Several may name one table.      *)

CallResolve(t) == called' = [called EXCEPT !.resolve = @ \union {t}]

ResolveNext ==
    /\ Mode = "none" /\ phase = "list" /\ position \in DOMAIN query.references
    /\ position' = position + 1
    /\ LET t == query.references[position]
       IN  IF snapshot[t] \in {Unresolved, 0}
           THEN CallResolve(t) /\ snapshot' = [snapshot EXCEPT ![t] = remote[t]]
           ELSE UNCHANGED <<called, snapshot>>
    /\ UNCHANGED <<query, remote, changes, phase, listing, tables, lookups>>

Resolved ==
    /\ Mode = "none" /\ phase = "list" /\ position \notin DOMAIN query.references
    /\ phase' = "planned"
    /\ tables' = Referenced
    /\ UNCHANGED <<query, remote, changes, position, listing, snapshot, lookups, called>>

-----------------------------------------------------------------------------
(* discover: the schemas, then the tables of each, then the lookups.       *)
(* A listing may be incomplete or out of date.                             *)

ListSchemas ==
    /\ Mode # "none" /\ phase = "list"
    /\ phase' = "tables"
    /\ \E listed \in SUBSET Table : listing' = listed \union Referenced
    /\ called' = [called EXCEPT !.schemas = TRUE]
    /\ UNCHANGED <<query, remote, changes, position, tables, snapshot, lookups>>

ListTables(schema) ==
    /\ phase = "tables" /\ schema \in listing
    /\ listing' = listing \ {schema}
    /\ \E listed \in SUBSET IF Mode = "tables" THEN {schema} ELSE {} :
        tables' = tables \union listed \union (Referenced \intersect {schema})
    /\ called' = IF Mode = "tables" THEN [called EXCEPT !.tables = @ \union {schema}] ELSE called
    /\ UNCHANGED <<query, remote, changes, phase, position, snapshot, lookups>>

Listed ==
    /\ phase = "tables" /\ listing = {}
    /\ phase' = "planned"
    /\ UNCHANGED <<query, remote, changes, position, listing, tables, snapshot, lookups, called>>

-----------------------------------------------------------------------------
(* DiscoveredSchema.table: a cell per table; its first caller resolves it  *)
(* while the others wait, and another takes over if that caller goes away. *)

Answer(b, t, answer) ==
    /\ branch' = [branch EXCEPT ![b] = Unresolved]
    /\ answers' = [answers EXCEPT ![t] = @ \union {answer}]

Lookup(b, t) ==
    /\ phase = "planned" /\ branch[b] = Unresolved
    /\ \/ t \notin tables /\ Answer(b, t, 0)
       \/ t \in tables /\ snapshot[t] # Unresolved /\ Answer(b, t, snapshot[t])
       \/ /\ t \in tables /\ snapshot[t] = Unresolved
          /\ branch' = [branch EXCEPT ![b] = t] /\ UNCHANGED answers
    /\ UNCHANGED <<query, remote, changes, progress, snapshot, resolving, called>>

Ask_Mutant(b) ==
    /\ branch[b] # Unresolved
    /\ resolving' = [resolving EXCEPT ![branch[b]] = b]
    /\ CallResolve(branch[b])
    /\ UNCHANGED <<query, remote, changes, progress, snapshot, branch, answers>>

Ask(b) ==
    /\ branch[b] # Unresolved
    /\ snapshot[branch[b]] = Unresolved /\ resolving[branch[b]] = Unresolved
    /\ resolving' = [resolving EXCEPT ![branch[b]] = b]
    /\ CallResolve(branch[b])
    /\ UNCHANGED <<query, remote, changes, progress, snapshot, branch, answers>>

Answered(b) ==
    LET t == branch[b]
    IN  /\ t # Unresolved /\ resolving[t] = b
        /\ snapshot' = [snapshot EXCEPT ![t] = remote[t]]
        /\ resolving' = [resolving EXCEPT ![t] = Unresolved]
        /\ Answer(b, t, remote[t])
        /\ UNCHANGED <<query, remote, changes, progress, called>>

Waited(b) ==
    LET t == branch[b]
    IN  /\ t # Unresolved /\ snapshot[t] # Unresolved
        /\ Answer(b, t, snapshot[t])
        /\ UNCHANGED <<query, remote, changes, progress, snapshot, resolving, called>>

\* The branch is dropped, or its call fails: the cell stays empty.
GiveUpLookup(b) ==
    LET t == branch[b]
    IN  /\ t # Unresolved
        /\ branch' = [branch EXCEPT ![b] = Unresolved]
        /\ resolving' = [resolving EXCEPT ![t] = IF @ = b THEN Unresolved ELSE @]
        /\ UNCHANGED <<query, remote, changes, progress, snapshot, answers, called>>

CatalogNext ==
    \/ Change \/ ResolveNext \/ Resolved \/ ListSchemas \/ Listed
    \/ \E t \in Table : ListTables(t)
    \/ \E b \in Branch :
        \/ \E t \in Table : Lookup(b, t)
        \/ Ask(b) \/ Answered(b) \/ Waited(b) \/ GiveUpLookup(b)

CatalogSpec == CatalogInit /\ [][CatalogNext]_catalogVars

-----------------------------------------------------------------------------
CatalogTypeOK ==
    /\ query \in Queries
    /\ remote \in [Table -> Nat] /\ changes \in 0 .. MaxChanges
    /\ phase \in {"list", "tables", "planned"} /\ position \in Nat
    /\ listing \subseteq Table /\ tables \subseteq Table
    /\ snapshot \in [Table -> Nat \union {Unresolved}]
    /\ resolving \in [Table -> Branch \union {Unresolved}]
    /\ branch \in [Branch -> Table \union {Unresolved}]
    /\ answers \in [Table -> SUBSET Nat]
    /\ called \in [schemas : BOOLEAN, tables : SUBSET Table, resolve : SUBSET Table]

(* The rest of the inductive invariant: lookups follow the listing, which  *)
(* includes what the query names; one branch at a time asks for a table,   *)
(* whose answer is kept; and calls are made for the query's mode.          *)
LookupsFollowListing ==
    /\ phase # "planned" => /\ \A t \in Table : answers[t] = {} /\ resolving[t] = Unresolved
                            /\ \A b \in Branch : branch[b] = Unresolved
    /\ phase = "list" => tables = {}
    /\ phase = "tables" => Mode # "none" /\ Referenced \subseteq tables \union listing
    /\ phase = "planned" => Referenced \subseteq tables
    /\ \A b \in Branch : branch[b] # Unresolved => branch[b] \in tables

OneAsks ==
    \A t \in Table : resolving[t] # Unresolved =>
        snapshot[t] = Unresolved /\ branch[resolving[t]] = t

AnswersKept ==
    \A t \in Table :
        /\ \A a \in answers[t] : a = IF t \in tables THEN snapshot[t] ELSE 0
        /\ snapshot[t] # Unresolved \/ resolving[t] # Unresolved => t \in called.resolve

CallsForMode ==
    /\ called.resolve \subseteq Referenced \union tables
    /\ Mode # "tables" => called.tables = {}
    /\ Mode = "none" => ~called.schemas /\ tables \subseteq Referenced

(* However the remote catalog changes meanwhile, all lookups of a table in *)
(* one query get one answer, and a table the query names is not reported   *)
(* missing without asking for it, whatever the listings said.              *)
OneAnswerPerTable ==
    /\ \A t \in Table : \A a, b \in answers[t] : a = b
    /\ \A t \in Referenced : 0 \in answers[t] => t \in called.resolve

(* Only a statement about schemas or tables makes discovery calls, and     *)
(* none but one about tables lists them: a data query, SHOW of settings or *)
(* functions and a catalog without discovery resolve what they name and    *)
(* nothing else.  No table is resolved before it is named or looked up.    *)
OnlyNeededCalls ==
    LET about(m) == query.statement = "query" /\ m \intersect query.metadata # {}
        aboutTables == query.statement = "show_tables" \/ about({"tables", "columns", "views"})
        aboutSchemas == aboutTables \/ about({"schemata"})
    IN  /\ ~(query.discoverable /\ aboutSchemas) =>
              ~called.schemas /\ called.tables = {} /\ called.resolve \subseteq Referenced
        /\ ~aboutTables => called.tables = {}
        /\ called.resolve \subseteq Referenced \union tables

(* All lookups of a table of a Go catalog in one query get one answer, and *)
(* only statements that need them make discovery calls.                    *)
CatalogConsistent == OneAnswerPerTable /\ OnlyNeededCalls

CatalogInv ==
    CatalogTypeOK /\ LookupsFollowListing /\ OneAsks /\ AnswersKept /\ CallsForMode
=============================================================================
