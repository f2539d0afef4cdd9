-------------------------------- MODULE Locks --------------------------------
(***************************************************************************)
(* The table locks of the program's transactions.  The scraper saves a     *)
(* snapshot, the consolidator reads and saves a consolidation, a request   *)
(* reads or erases, and a starting process migrates: each on a connection  *)
(* of its own, a session.  A statement locks the tables it names, in the   *)
(* order in which it names them, and a transaction keeps its locks until   *)
(* it ends.  Nothing in the code orders the tables, so sessions may wait   *)
(* for one another in a circle; PostgreSQL then aborts one of them.        *)
(*                                                                         *)
(* What PostgreSQL does is external: reads and inserts do not conflict     *)
(* with each other, TRUNCATE and ALTER TABLE conflict with everything      *)
(* (ACCESS EXCLUSIVE), and who waits is served in turn.  A foreign key     *)
(* check locks the parent, which the transaction has locked already.       *)
(***************************************************************************)
EXTENDS Naturals, Sequences, SequencesExt

CONSTANTS
    Sessions,
    Can         \* of each session, the kinds of transactions it runs

Tables == {"scrapes", "indicators", "items", "consolidations", "workloads"}
Kinds == {"snapshot", "consolidation", "read", "details", "reset", "extend", "cpuMemory"}

ASSUME CanAssumption == Can \in [Sessions -> SUBSET Kinds]

VARIABLES
    txn,        \* of each session, the kind of its transaction, or "none"
    plan,       \* the tables it has still to lock, in this order
    held,       \* the tables it has locked
    queue       \* of each table, the sessions that wait for it

vars == <<txn, plan, held, queue>>
-----------------------------------------------------------------------------
SnapshotLocksItemsFirst == {<<"items", "scrapes", "indicators">>}

\* SaveSnapshot: three INSERTs, the last one repeated.
SnapshotLocks == {<<"scrapes", "indicators", "items">>}

ConsolidationLocksRowsFirst == {<<"workloads", "consolidations">>}

\* SaveConsolidation
ConsolidationLocks == {<<"consolidations", "workloads">>}

\* GetLastWorkloadSnapshots: FROM consolidated_workload_snapshots JOIN consolidations.
DetailsLocks == {<<"workloads", "consolidations">>}

\* Every other read is of one table.
ReadLocks == {<<t>> : t \in Tables}

\* TRUNCATE scrapes, consolidations CASCADE: then the tables that refer to them, as they
\* were created.
EraseLocks == {<<"scrapes", "consolidations", "indicators", "items", "workloads">>}

\* 0006_extend_indicator_snapshots_with_oom.sql: four ALTERs.
ExtendLocks == {<<"indicators", "items", "workloads", "consolidations">>}

\* 0007_cpu_memory_only.sql: a TRUNCATE, then ALTERs of what it has locked.
CpuMemoryLocks == EraseLocks

Plans(k) ==
    CASE k = "snapshot" -> SnapshotLocks
      [] k = "consolidation" -> ConsolidationLocks
      [] k = "details" -> DetailsLocks
      [] k = "read" -> ReadLocks
      [] k = "reset" -> EraseLocks
      [] k = "extend" -> ExtendLocks
      [] k = "cpuMemory" -> CpuMemoryLocks

Exclusive == {"reset", "extend", "cpuMemory"}

Conflict(s, r) == s # r /\ (txn[s] \in Exclusive \/ txn[r] \in Exclusive)
-----------------------------------------------------------------------------
Waiting(s, t) == \E i \in DOMAIN queue[t] : queue[t][i] = s
Waits(s) == \E t \in Tables : Waiting(s, t)
Ahead(r, s, t) == \E i, j \in DOMAIN queue[t] : i < j /\ queue[t][i] = r /\ queue[t][j] = s

\* s waits for r, which has the lock or is to have it first.
WaitsFor(s, r) ==
    \E t \in Tables : /\ Waiting(s, t)
                      /\ Conflict(s, r)
                      /\ t \in held[r] \/ Ahead(r, s, t)

\* Sessions that wait for one another in a circle.
Circle(C) ==
    /\ C # {}
    /\ \A s \in C : \E r \in C : WaitsFor(s, r)

Circles ==
    {C \in SUBSET {s \in Sessions : Waits(s)} : Circle(C) /\ ~ \E D \in SUBSET C : D # C /\ Circle(D)}

Init ==
    /\ txn = [s \in Sessions |-> "none"]
    /\ plan = [s \in Sessions |-> <<>>]
    /\ held = [s \in Sessions |-> {}]
    /\ queue = [t \in Tables |-> <<>>]

Begin(s) ==
    /\ txn[s] = "none"
    /\ \E k \in Can[s] :
        /\ txn' = [txn EXCEPT ![s] = k]
        /\ \E p \in Plans(k) : plan' = [plan EXCEPT ![s] = p]
    /\ UNCHANGED <<held, queue>>

\* The next table of a statement, or the next statement.
Request(s) ==
    /\ plan[s] # <<>>
    /\ ~ Waits(s)
    /\ queue' = [queue EXCEPT ![Head(plan[s])] = Append(@, s)]
    /\ UNCHANGED <<txn, plan, held>>

Grant(s) ==
    /\ Waits(s)
    /\ ~ \E r \in Sessions : WaitsFor(s, r)
    /\ held' = [held EXCEPT ![s] = @ \cup {Head(plan[s])}]
    /\ plan' = [plan EXCEPT ![s] = Tail(@)]
    /\ queue' = [queue EXCEPT ![Head(plan[s])] = RemoveFirst(@, s)]
    /\ UNCHANGED txn

\* The end of a transaction, in one way or the other, releases its locks.
Release(s) ==
    /\ txn' = [txn EXCEPT ![s] = "none"]
    /\ plan' = [plan EXCEPT ![s] = <<>>]
    /\ held' = [held EXCEPT ![s] = {}]
    /\ queue' = [t \in Tables |-> RemoveFirst(queue[t], s)]

Commit(s) ==
    /\ txn[s] # "none"
    /\ plan[s] = <<>>
    /\ Release(s)

\* A save that fails without its deferred Rollback.
FailsAndKeeps(s) ==
    /\ txn[s] # "none"
    /\ txn' = [txn EXCEPT ![s] = "none"]
    /\ plan' = [plan EXCEPT ![s] = <<>>]
    /\ queue' = [t \in Tables |-> RemoveFirst(queue[t], s)]
    /\ UNCHANGED held

\* An error, a timeout, a crash: the transaction is rolled back.
Fails(s) ==
    /\ txn[s] # "none"
    /\ Release(s)

\* deadlock_timeout: whoever notices the circle first is aborted.
DeadlockAborts ==
    \E C \in Circles : \E s \in C : Release(s)

Next ==
    \/ \E s \in Sessions : Begin(s) \/ Request(s) \/ Grant(s) \/ Commit(s) \/ Fails(s)
    \/ DeadlockAborts

\* A client goes on with its transaction, and PostgreSQL grants what it can grant.
Fairness ==
    /\ \A s \in Sessions : WF_vars(Request(s) \/ Grant(s) \/ Commit(s))
    /\ WF_vars(DeadlockAborts)

Spec == Init /\ [][Next]_vars /\ Fairness
-----------------------------------------------------------------------------
(***************************************************************************)
(* Type invariant: a session waits for at most one table, the next of its  *)
(* plan.                                                                   *)
(***************************************************************************)
TypeOK ==
    /\ txn \in [Sessions -> Kinds \cup {"none"}]
    /\ plan \in [Sessions -> Seq(Tables)]
    /\ held \in [Sessions -> SUBSET Tables]
    /\ queue \in [Tables -> Seq(Sessions)]
    /\ \A s \in Sessions, t \in Tables : Waiting(s, t) => plan[s] # <<>> /\ Head(plan[s]) = t

KindsOf(C) == {txn[s] : s \in C}

(***************************************************************************)
(* Nothing that measures is ever the victim of a deadlock: a snapshot      *)
(* (db.go:67-123) is in no circle with anything, and a consolidation       *)
(* (db.go:232-279) only in one with a process that still applies 0006,     *)
(* which locks the same two tables in the other order.                     *)
(***************************************************************************)
SavesOutOfCircles ==
    \A C \in Circles :
        /\ "snapshot" \notin KindsOf(C)
        /\ "consolidation" \in KindsOf(C) => "extend" \in KindsOf(C)

(***************************************************************************)
(* Once every process has migrated there is one deadlock left: the erasure *)
(* of a reset (db.go:476-485) against the history of a workload that is    *)
(* being read (db.go:391-474).  One of the two is answered with an error.  *)
(***************************************************************************)
OneDeadlock ==
    \A C \in Circles :
        KindsOf(C) \cap {"extend", "cpuMemory"} = {} => KindsOf(C) = {"details", "reset"}

(***************************************************************************)
(* Every transaction ends, the erasure included: it has to wait for all    *)
(* the saves and reads, and new ones keep coming.  A failure at any        *)
(* statement leaves no lock behind (the deferred Rollback, db.go:72, 237). *)
(***************************************************************************)
TransactionsEnd == \A s \in Sessions : txn[s] # "none" ~> txn[s] = "none"
=============================================================================
