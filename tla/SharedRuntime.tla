---------------------------- MODULE SharedRuntime ----------------------------
(***************************************************************************)
(* rust/src/session.rs: runtime_from_dsn.  Databases that ask for it share *)
(* a process-wide tokio runtime per worker count.  The table SHARED holds  *)
(* weak references under a mutex; the strong references are dropped by     *)
(* databases and by whatever outlives them, without the mutex.             *)
(***************************************************************************)
EXTENDS Naturals, Sequences

CONSTANTS Database,      \* the users of runtimes
          Workers,       \* worker counts a DSN may ask for
          MaxRuntimes,   \* bound on the runtimes built
          Unset          \* no runtime, no option, no holder of the mutex

ASSUME RuntimeAssumption ==
    MaxRuntimes \in Nat /\ Unset \notin Nat /\ Unset \notin Database /\ Unset \notin Workers

VARIABLES opening,   \* what each database does next
          workers,   \* its worker count
          shared,    \* whether it shares
          runtime,   \* its strong reference
          weak,      \* SHARED, by worker count
          tableMu,   \* the holder of SHARED's mutex
          built      \* the options of each runtime built

runtimeVars == <<opening, workers, shared, runtime, weak, tableMu, built>>

Runtime == 1 .. MaxRuntimes

RuntimeInit ==
    /\ opening = [d \in Database |-> "idle"]
    /\ workers = [d \in Database |-> Unset]
    /\ shared = [d \in Database |-> FALSE]
    /\ runtime = [d \in Database |-> Unset]
    /\ weak = [w \in Workers |-> Unset]
    /\ tableMu = Unset
    /\ built = <<>>

Proceed(d, step) == opening' = [opening EXCEPT ![d] = step]

\* A runtime lives as long as it has a strong reference.
Alive(r) == \E d \in Database : runtime[d] = r /\ r # Unset

\* driver_options: the worker count and whether to share.
Open(d) ==
    /\ opening[d] = "idle" /\ runtime[d] = Unset
    /\ \E w \in Workers, share \in BOOLEAN :
        /\ Proceed(d, IF share THEN "lock" ELSE "build")
        /\ workers' = [workers EXCEPT ![d] = w]
        /\ shared' = [shared EXCEPT ![d] = share]
    /\ UNCHANGED <<runtime, weak, tableMu, built>>

LockTable_Mutant(d) ==
    /\ opening[d] = "lock"
    /\ tableMu' = d
    /\ Proceed(d, "retain")
    /\ UNCHANGED <<workers, shared, runtime, weak, built>>

LockTable(d) ==
    /\ opening[d] = "lock"
    /\ tableMu = Unset /\ tableMu' = d
    /\ Proceed(d, "retain")
    /\ UNCHANGED <<workers, shared, runtime, weak, built>>

Retain(d) ==
    /\ opening[d] = "retain"
    /\ weak' = [w \in Workers |-> IF Alive(weak[w]) THEN weak[w] ELSE Unset]
    /\ Proceed(d, "upgrade")
    /\ UNCHANGED <<workers, shared, runtime, tableMu, built>>

\* The runtime may have died since: upgrade then fails and one is built.
Upgrade(d) ==
    LET r == weak[workers[d]]
    IN  /\ opening[d] = "upgrade"
        /\ IF Alive(r)
           THEN /\ runtime' = [runtime EXCEPT ![d] = r]
                /\ Proceed(d, "idle") /\ tableMu' = Unset
           ELSE Proceed(d, "build") /\ UNCHANGED <<runtime, tableMu>>
        /\ UNCHANGED <<workers, shared, weak, built>>

Build(d) ==
    /\ opening[d] = "build"
    /\ Len(built) < MaxRuntimes
    /\ built' = Append(built, [workers |-> workers[d], shared |-> shared[d]])
    /\ runtime' = [runtime EXCEPT ![d] = Len(built) + 1]
    /\ Proceed(d, IF shared[d] THEN "insert" ELSE "idle")
    /\ UNCHANGED <<workers, shared, weak, tableMu>>

\* The database is not opened.
BuildFails(d) ==
    /\ opening[d] = "build"
    /\ workers' = [workers EXCEPT ![d] = Unset]
    /\ shared' = [shared EXCEPT ![d] = FALSE]
    /\ tableMu' = IF shared[d] THEN Unset ELSE tableMu
    /\ Proceed(d, "idle")
    /\ UNCHANGED <<runtime, weak, built>>

Insert(d) ==
    /\ opening[d] = "insert"
    /\ weak' = [weak EXCEPT ![workers[d]] = runtime[d]]
    /\ tableMu' = Unset
    /\ Proceed(d, "idle")
    /\ UNCHANGED <<workers, shared, runtime, built>>

\* The last reference: a database, a connection or a stream that outlives it.
DropRuntime(d) ==
    /\ opening[d] = "idle" /\ runtime[d] # Unset
    /\ runtime' = [runtime EXCEPT ![d] = Unset]
    /\ workers' = [workers EXCEPT ![d] = Unset]
    /\ shared' = [shared EXCEPT ![d] = FALSE]
    /\ UNCHANGED <<opening, weak, tableMu, built>>

RuntimeNext ==
    \E d \in Database :
        \/ Open(d) \/ LockTable(d) \/ Retain(d) \/ Upgrade(d)
        \/ Build(d) \/ BuildFails(d) \/ Insert(d) \/ DropRuntime(d)

RuntimeSpec == RuntimeInit /\ [][RuntimeNext]_runtimeVars

-----------------------------------------------------------------------------
RuntimeTypeOK ==
    /\ opening \in [Database -> {"idle", "lock", "retain", "upgrade", "build", "insert"}]
    /\ workers \in [Database -> Workers \union {Unset}]
    /\ shared \in [Database -> BOOLEAN]
    /\ runtime \in [Database -> Runtime \union {Unset}]
    /\ weak \in [Workers -> Runtime \union {Unset}]
    /\ tableMu \in Database \union {Unset}
    /\ built \in Seq([workers : Workers, shared : BOOLEAN]) /\ Len(built) <= MaxRuntimes

(* The rest of the inductive invariant: whoever chose, built or registered *)
(* a runtime had these options, the mutex is held from the lock to the     *)
(* registration, and a shared runtime in use is the registered one.        *)
OptionsKept ==
    /\ \A d \in Database :
        /\ opening[d] \in {"lock", "retain", "upgrade", "insert"} => shared[d]
        /\ opening[d] \in {"lock", "retain", "upgrade", "build"} => runtime[d] = Unset
        /\ opening[d] = "insert" => runtime[d] # Unset
        /\ opening[d] # "idle" \/ runtime[d] # Unset => workers[d] \in Workers
        /\ runtime[d] # Unset =>
              /\ runtime[d] <= Len(built)
              /\ built[runtime[d]] = [workers |-> workers[d], shared |-> shared[d]]
    /\ \A w \in Workers : weak[w] # Unset =>
          weak[w] <= Len(built) /\ built[weak[w]] = [workers |-> w, shared |-> TRUE]

OpensUnderLock ==
    \A d \in Database : tableMu = d <=>
        opening[d] \in {"retain", "upgrade", "insert"} \/ (opening[d] = "build" /\ shared[d])

InUseRegistered ==
    /\ \A d \in Database : shared[d] /\ runtime[d] # Unset =>
          weak[workers[d]] = runtime[d] \/ opening[d] = "insert"
    /\ \A d \in Database : shared[d] /\ opening[d] \in {"build", "insert"} =>
          ~Alive(weak[workers[d]])
    /\ \A d, e \in Database : runtime[d] # Unset /\ runtime[d] = runtime[e] /\ d # e =>
          shared[d] /\ opening[d] = "idle"

RuntimeInv == RuntimeTypeOK /\ OptionsKept /\ OpensUnderLock /\ InUseRegistered

(* However opens race with each other and with the last drop, databases    *)
(* that share have one runtime per worker count between them, with the     *)
(* workers they asked for, and a private runtime is shared with none.      *)
OneSharedRuntime ==
    \A d, e \in Database : runtime[d] # Unset =>
        /\ built[runtime[d]] = [workers |-> workers[d], shared |-> shared[d]]
        /\ shared[d] /\ shared[e] /\ workers[d] = workers[e] /\ runtime[e] # Unset
              => runtime[d] = runtime[e]
        /\ ~shared[d] /\ runtime[e] = runtime[d] => e = d
=============================================================================
