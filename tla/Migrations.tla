----------------------------- MODULE Migrations -----------------------------
(***************************************************************************)
(* Schema migrations (pkg/database/migrations/migrate.go) of binaries that *)
(* start at the same time against one PostgreSQL database: cmd/main.go,    *)
(* cmd/scraper and cmd/server all call Migrate before they do anything,    *)
(* and exit when it fails.  Each statement is one step.  Versions are      *)
(* numbered in the order of their file names, which loadAll sorts by.      *)
(*                                                                         *)
(* Run reads the recorded versions once.  Two processes that read before   *)
(* either has finished both apply the rest; what protects the schema is    *)
(* the primary key of schema_migrations, inserted in the transaction of    *)
(* the migration.                                                          *)
(***************************************************************************)
EXTENDS Naturals

CONSTANTS
    Procs,      \* processes that run a binary
    Last,       \* number of versions
    Wipes,      \* versions that truncate the history: 0007_cpu_memory_only.sql
    MaxRows,    \* bound of the history
    MaxFaults   \* bound of the failing statements, timeouts and crashes

ASSUME LastAssumption == Last \in Nat
ASSUME MigrationBounds == MaxRows \in Nat /\ MaxFaults \in Nat

Versions == 1..Last

VARIABLES
    exists,     \* the table schema_migrations exists
    recorded,   \* versions in schema_migrations
    schema,     \* versions whose statements took effect
    rows,       \* size of the history in scrapes and its children
    proc,       \* the processes
    faults

vars == <<exists, recorded, schema, rows, proc, faults>>

Down == [pc |-> "down", todo |-> {}, cur |-> 0]

\* A fresh database, or the one an earlier release left, with its history.
Init ==
    /\ \E n \in 0..Last : recorded = 1..n /\ exists = (n > 0)
    /\ schema = recorded
    /\ rows \in 0..MaxRows
    /\ proc = [p \in Procs |-> Down]
    /\ faults = 0

Goto(p, pc) == proc' = [proc EXCEPT ![p].pc = pc]

Start(p) ==
    /\ proc[p].pc = "down"
    /\ Goto(p, "create")
    /\ UNCHANGED <<exists, recorded, schema, rows, faults>>

-----------------------------------------------------------------------------
\* CREATE TABLE IF NOT EXISTS schema_migrations.
CreateTableStrictly(p) ==
    /\ proc[p].pc = "create"
    /\ Goto(p, IF exists THEN "down" ELSE "load")
    /\ exists' = TRUE
    /\ UNCHANGED <<recorded, schema, rows, faults>>

CreateTable(p) ==
    /\ proc[p].pc = "create"
    /\ Goto(p, "load")
    /\ exists' = TRUE
    /\ UNCHANGED <<recorded, schema, rows, faults>>

\* loadApplied, once for the whole Run.
LoadApplied(p) ==
    /\ proc[p].pc = "load"
    /\ proc' = [proc EXCEPT ![p] = [pc |-> "next", todo |-> Versions \ recorded, cur |-> 0]]
    /\ UNCHANGED <<exists, recorded, schema, rows, faults>>

-----------------------------------------------------------------------------
(***************************************************************************)
(* applyOne: the statements of the migration, the insert of its version,   *)
(* the commit.                                                             *)
(***************************************************************************)
Unsorted(v, S) == v \in S

First(v, S) == v \in S /\ \A u \in S : v <= u

\* A transaction that truncated the history keeps everyone else from it until it ends.
HistoryLocked == \E q \in Procs : proc[q].pc \in {"record", "commit"} /\ proc[q].cur \in Wipes

RunSql(p) ==
    /\ proc[p].pc = "next"
    /\ \E v \in Versions :
         /\ First(v, proc[p].todo)
         /\ v \in Wipes => ~ HistoryLocked
         /\ proc' = [proc EXCEPT ![p].pc = "record", ![p].cur = v]
    /\ UNCHANGED <<exists, recorded, schema, rows, faults>>

\* INSERT INTO schema_migrations: waits for another insert of the same version to end.
InsertVersionOrIgnore(p) ==
    /\ proc[p].pc = "record"
    /\ Goto(p, "commit")
    /\ UNCHANGED <<exists, recorded, schema, rows, faults>>

InsertVersion(p) ==
    /\ proc[p].pc = "record"
    /\ proc[p].cur \notin recorded
    /\ \A q \in Procs : proc[q].pc = "commit" => proc[q].cur # proc[p].cur
    /\ Goto(p, "commit")
    /\ UNCHANGED <<exists, recorded, schema, rows, faults>>

\* Another process has recorded the version meanwhile: the insert violates the primary
\* key, or the migration's own CREATE TABLE lost the race.  Rolled back; the process exits.
ConflictSkips(p) ==
    /\ proc[p].pc \in {"next", "record"}
    /\ \E v \in recorded :
         /\ First(v, proc[p].todo)
         /\ proc' = [proc EXCEPT ![p] = [pc |-> "next", todo |-> {}, cur |-> 0]]
    /\ UNCHANGED <<exists, recorded, schema, rows, faults>>

Conflict(p) ==
    /\ proc[p].pc \in {"next", "record"}
    /\ \E v \in recorded : First(v, proc[p].todo)
    /\ proc' = [proc EXCEPT ![p] = Down]
    /\ UNCHANGED <<exists, recorded, schema, rows, faults>>

TakeEffect(v) ==
    /\ recorded' = recorded \cup {v}
    /\ schema' = schema \cup {v}
    /\ rows' = IF v \in Wipes THEN 0 ELSE rows

\* The commit; the process learns of it and goes on.
CommitRecordOnly(p) ==
    /\ proc[p].pc = "commit"
    /\ recorded' = recorded \cup {proc[p].cur}
    /\ proc' = [proc EXCEPT ![p].pc = "next", ![p].todo = @ \ {proc[p].cur}]
    /\ UNCHANGED <<exists, schema, rows, faults>>

Commit(p) ==
    /\ proc[p].pc = "commit"
    /\ TakeEffect(proc[p].cur)
    /\ proc' = [proc EXCEPT ![p].pc = "next", ![p].todo = @ \ {proc[p].cur}]
    /\ UNCHANGED <<exists, faults>>

\* Every version is applied: the binary goes on to serve.
Finish(p) ==
    /\ proc[p].pc = "next"
    /\ proc[p].todo = {}
    /\ Goto(p, "ready")
    /\ UNCHANGED <<exists, recorded, schema, rows, faults>>

-----------------------------------------------------------------------------
\* A process that serves writes to the history.
Write(p) ==
    /\ proc[p].pc = "ready"
    /\ ~ HistoryLocked
    /\ rows < MaxRows
    /\ rows' = rows + 1
    /\ UNCHANGED <<exists, recorded, schema, proc, faults>>

\* A statement fails, the 30 seconds of Migrate are over, or the process dies.  An open
\* transaction is rolled back; a commit may have succeeded without the process knowing.
Fail(p) ==
    /\ proc[p].pc # "down"
    /\ faults < MaxFaults
    /\ faults' = faults + 1
    /\ \/ UNCHANGED <<recorded, schema, rows>>
       \/ proc[p].pc = "commit" /\ TakeEffect(proc[p].cur)
    /\ proc' = [proc EXCEPT ![p] = Down]
    /\ UNCHANGED exists

Migrate(p) ==
    \/ Start(p)
    \/ CreateTable(p)
    \/ LoadApplied(p)
    \/ RunSql(p)
    \/ InsertVersion(p)
    \/ Conflict(p)
    \/ Commit(p)
    \/ Finish(p)

Next == \E p \in Procs : Migrate(p) \/ Write(p) \/ Fail(p)

Spec == Init /\ [][Next]_vars

(***************************************************************************)
(* A process that can go on does (PostgreSQL serves its statements), and   *)
(* one that is down is started again: the Deployment has restartPolicy     *)
(* Always (tests/finops-eval/results/cluster-objects.yaml:67).             *)
(***************************************************************************)
Fairness == \A p \in Procs : WF_vars(Migrate(p))

FairSpec == Spec /\ Fairness

-----------------------------------------------------------------------------
Process == [pc : {"down", "create", "load", "next", "record", "commit", "ready"},
            todo : SUBSET Versions, cur : Versions \cup {0}]

(***************************************************************************)
(* Type invariant.                                                         *)
(***************************************************************************)
TypeOK ==
    /\ exists \in BOOLEAN
    /\ recorded \subseteq Versions /\ schema \subseteq Versions
    /\ rows \in Nat /\ faults \in Nat
    /\ proc \in [Procs -> Process]

(***************************************************************************)
(* "the version is recorded only when the SQL succeeds" (migrate.go:46-47),*)
(* and the SQL takes effect only when the version is recorded, whichever   *)
(* process failed where; and there are no holes: what is recorded is a     *)
(* prefix of the list.                                                     *)
(***************************************************************************)
VersionsTellTheTruth ==
    /\ schema = recorded
    /\ \A v \in recorded : 1..v \subseteq recorded

(***************************************************************************)
(* A binary serves only on the complete schema (cmd/main.go:81-84), also   *)
(* when it started from a stale set of versions.                           *)
(***************************************************************************)
ReadyMeansComplete == \A p \in Procs : proc[p].pc = "ready" => schema = Versions

(***************************************************************************)
(* A process that starts late with a stale set executes the TRUNCATE of    *)
(* 0007 a second time, but the history written since is never lost to it.  *)
(***************************************************************************)
WrittenHistoryKept == [][Wipes \subseteq recorded => rows' >= rows]_vars

Log == INSTANCE SchemaLog WITH applied <- recorded

(***************************************************************************)
(* However many processes start, the database goes through the versions    *)
(* one by one (SchemaLog).                                                 *)
(***************************************************************************)
ImplementsSchemaLog == Log!Spec

(***************************************************************************)
(* When the faults have ended every process gets to serve: one that lost a *)
(* race exits, is started again and finds the version recorded.            *)
(***************************************************************************)
AllGetReady == <>[](\A p \in Procs : proc[p].pc = "ready")
=============================================================================
