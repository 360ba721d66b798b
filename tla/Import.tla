-------------------------------- MODULE Import --------------------------------
(***************************************************************************)
(* arrow.go, session.go, abi.rs, registration.rs, ffi_table_provider.go:   *)
(* in-memory tables are imported batch by batch and published at commit;   *)
(* a handle of a foreign table deregisters its name.  Imports and handles  *)
(* of several connections of one shared session, without a common lock.    *)
(***************************************************************************)
EXTENDS Naturals, Sequences

CONSTANTS Importer, Caller,     \* goroutines that import; that use the handle
          MaxInput, MaxCalls,   \* bounds on an input's batches, a caller's calls
          NoTable, Foreign      \* no table, or no caller; the handle's table

ASSUME ImportAssumption ==
    /\ MaxInput \in Nat /\ MaxCalls \in Nat
    /\ NoTable \notin Importer \union Caller \union {Foreign} /\ Foreign \notin Importer

VARIABLES imports,    \* what each importer does and holds
          table,      \* the one name they all use
          connOpen,   \* the handle's connection
          handleMu,   \* RegisteredTable.mu
          done,       \* RegisteredTable.done
          calls,      \* of Deregister by each caller
          doing,      \* where each caller is in Deregister
          removed     \* tables the handle removed

handleVars == <<connOpen, handleMu, done, calls, doing, removed>>
importVars == <<imports, table, handleVars>>

NewImport == [step |-> "open", input |-> 0, fails |-> FALSE, cancelled |-> FALSE,
              batches |-> <<>>, published |-> 0]

Batch == Importer \X (1 .. MaxInput)
Whole(i, n) == [b \in 1 .. n |-> <<i, b>>]
Registered(content, by) == [content |-> content, by |-> by]

ImportInit ==
    /\ imports = [i \in Importer |-> NewImport]
    /\ table = Registered(<<>>, NoTable)
    /\ connOpen = TRUE
    /\ handleMu = NoTable /\ done = FALSE
    /\ calls = [c \in Caller |-> 0]
    /\ doing = [c \in Caller |-> "idle"]
    /\ removed = 0

At(i, step) == imports[i].step = step
GoTo(i, step) == imports' = [imports EXCEPT ![i].step = step]
Fails(i) == imports' = [imports EXCEPT ![i].step = "error", ![i].batches = <<>>]
Appended(i) == Len(imports[i].batches)

\* The reader's remaining batches; it may fail at the end.
OpenImport(i) ==
    /\ At(i, "open")
    /\ \E n \in 0 .. MaxInput, fails \in BOOLEAN :
        imports' = [imports EXCEPT ![i].step = "schema", ![i].input = n, ![i].fails = fails]
    /\ UNCHANGED <<table, handleVars>>

CancelImport(i) ==
    /\ imports[i].step \notin {"ok", "error"} /\ ~imports[i].cancelled
    /\ imports' = [imports EXCEPT ![i].cancelled = TRUE]
    /\ UNCHANGED <<table, handleVars>>

\* The first append carries the schema alone.
AppendSchema(i) ==
    /\ At(i, "schema")
    /\ GoTo(i, "append") \/ GoTo(i, "error")
    /\ UNCHANGED <<table, handleVars>>

\* Fails if the context is cancelled, the batch cannot be encoded or decoded,
\* or its schema differs: Close then drops what was appended.
AppendBatch(i) ==
    /\ At(i, "append") /\ Appended(i) < imports[i].input
    /\ \/ /\ ~imports[i].cancelled
          /\ imports' = [imports EXCEPT ![i].batches = Append(@, <<i, Appended(i) + 1>>)]
       \/ Fails(i)
    /\ UNCHANGED <<table, handleVars>>

\* The reader's error, if any, may come before its last batch.
EndOfInput(i) ==
    /\ At(i, "append")
    /\ \/ /\ Appended(i) = imports[i].input
          /\ ~imports[i].fails /\ ~imports[i].cancelled
          /\ GoTo(i, "commit")
       \/ /\ \/ imports[i].fails
             \/ Appended(i) = imports[i].input /\ imports[i].cancelled
          /\ Fails(i)
    /\ UNCHANGED <<table, handleVars>>

(* Commit consumes the importer and publishes unless the name is taken.    *)
(* The connection may be closed by then.  importArrowReader appends the    *)
(* schema first and commits once, so those two guards of commit pass.      *)
Commit(i) ==
    /\ At(i, "commit")
    /\ \/ Fails(i) /\ UNCHANGED table
       \/ /\ ~imports[i].cancelled /\ table.by = NoTable
          /\ table' = Registered(imports[i].batches, i)
          /\ imports' = [imports EXCEPT ![i].step = "ok", ![i].batches = <<>>,
                                        ![i].published = @ + 1]
    /\ UNCHANGED handleVars

-----------------------------------------------------------------------------
(* The handle.  Deregister holds its mutex across the removal.             *)

RegisterForeign ==
    /\ table.by = NoTable /\ ~done /\ removed = 0
    /\ \A c \in Caller : calls[c] = 0
    /\ table' = Registered(<<>>, Foreign)
    /\ UNCHANGED <<imports, handleVars>>

Leave(c) == handleMu' = NoTable /\ doing' = [doing EXCEPT ![c] = "idle"]

Enter_Mutant(c) ==
    /\ doing[c] = "idle" /\ calls[c] < MaxCalls
    /\ calls' = [calls EXCEPT ![c] = @ + 1]
    /\ IF done THEN Leave(c)
       ELSE handleMu' = c /\ doing' = [doing EXCEPT ![c] = "remove"]
    /\ UNCHANGED <<imports, table, connOpen, done, removed>>

Enter(c) ==
    /\ doing[c] = "idle" /\ calls[c] < MaxCalls /\ handleMu = NoTable
    /\ calls' = [calls EXCEPT ![c] = @ + 1]
    /\ IF done THEN Leave(c)
       ELSE handleMu' = c /\ doing' = [doing EXCEPT ![c] = "remove"]
    /\ UNCHANGED <<imports, table, connOpen, done, removed>>

\* Removing a name that is not registered is no error.
RemoveName(c) ==
    /\ doing[c] = "remove"
    /\ IF connOpen
       THEN /\ table' = Registered(<<>>, NoTable) /\ removed' = removed + 1
            /\ doing' = [doing EXCEPT ![c] = "mark"] /\ UNCHANGED handleMu
       ELSE Leave(c) /\ UNCHANGED <<table, removed>>
    /\ UNCHANGED <<imports, connOpen, done, calls>>

\* The caller's context may be cancelled.
GiveUpRemoval(c) ==
    /\ doing[c] = "remove"
    /\ Leave(c)
    /\ UNCHANGED <<imports, table, connOpen, done, calls, removed>>

Mark(c) ==
    /\ doing[c] = "mark"
    /\ done' = TRUE
    /\ Leave(c)
    /\ UNCHANGED <<imports, table, connOpen, calls, removed>>

\* Session.DeregisterTable and other handles remove by name, too.
Deregister ==
    /\ table.by # NoTable
    /\ table' = Registered(<<>>, NoTable)
    /\ UNCHANGED <<imports, handleVars>>

CloseConn ==
    /\ connOpen
    /\ connOpen' = FALSE
    /\ UNCHANGED <<imports, table, handleMu, done, calls, doing, removed>>

ImportNext ==
    \/ \E i \in Importer :
        \/ OpenImport(i) \/ CancelImport(i) \/ AppendSchema(i)
        \/ AppendBatch(i) \/ EndOfInput(i) \/ Commit(i)
    \/ \E c \in Caller : Enter(c) \/ RemoveName(c) \/ GiveUpRemoval(c) \/ Mark(c)
    \/ RegisterForeign \/ Deregister \/ CloseConn

ImportSpec == ImportInit /\ [][ImportNext]_importVars

-----------------------------------------------------------------------------
ImportTypeOK ==
    /\ imports \in [Importer ->
          [step : {"open", "schema", "append", "commit", "ok", "error"},
           input : 0 .. MaxInput, fails : BOOLEAN, cancelled : BOOLEAN,
           batches : Seq(Batch), published : 0 .. 1]]
    /\ table \in [content : Seq(Batch), by : Importer \union {NoTable, Foreign}]
    /\ connOpen \in BOOLEAN /\ done \in BOOLEAN
    /\ handleMu \in Caller \union {NoTable}
    /\ calls \in [Caller -> 0 .. MaxCalls]
    /\ doing \in [Caller -> {"idle", "remove", "mark"}]
    /\ removed \in Nat

(* The rest of the inductive invariant: an importer holds a prefix of its  *)
(* input, all of it at commit; and whoever removes the name holds the lock *)
(* until the handle is marked.                                             *)
PrefixAppended ==
    \A i \in Importer :
        /\ imports[i].batches = Whole(i, Appended(i)) /\ Appended(i) <= imports[i].input
        /\ At(i, "commit") => Appended(i) = imports[i].input /\ ~imports[i].fails
        /\ At(i, "open") \/ At(i, "schema") => Appended(i) = 0

RemovesUnderLock ==
    \A c \in Caller :
        /\ handleMu = c <=> doing[c] # "idle"
        /\ doing[c] = "remove" => removed = 0 /\ ~done
        /\ doing[c] = "mark" => removed = 1 /\ ~done

RemovedIsMarked == removed = 0 \/ done \/ \E c \in Caller : doing[c] = "mark"

(* A table appears once per successful import, with every batch of an      *)
(* input that did not fail; an import that fails at its input, between its *)
(* batches, by cancellation or at commit publishes nothing.                *)
PublishedWhole ==
    \A i \in Importer :
        /\ table.by = i => /\ At(i, "ok") /\ ~imports[i].fails
                           /\ table.content = Whole(i, imports[i].input)
        /\ imports[i].published = IF At(i, "ok") THEN 1 ELSE 0

(* However its calls overlap and fail, a handle removes its name at most   *)
(* once: a table registered under the name afterwards stays.               *)
HandleRemovesOnce ==
    /\ removed <= 1
    /\ done => removed = 1

(* An Arrow import publishes a whole table once or nothing, and the handle *)
(* of a foreign table deregisters its name at most once.                   *)
RegistrationExact == PublishedWhole /\ HandleRemovesOnce

ImportInv ==
    /\ ImportTypeOK /\ PrefixAppended /\ RemovesUnderLock /\ RemovedIsMarked
    /\ RegistrationExact
=============================================================================
