-------------------------- MODULE MigrationsProofs --------------------------
(***************************************************************************)
(* Proofs about module Migrations, for any number of processes, versions   *)
(* and faults.                                                             *)
(***************************************************************************)
EXTENDS Migrations, TLAPS

USE LastAssumption, MigrationBounds

-----------------------------------------------------------------------------
(***************************************************************************)
(* The inductive invariant.  What a process has not to do is recorded; the *)
(* version in its transaction is the first it has to do; two transactions  *)
(* never hold the same version: the second insert waits, then fails.       *)
(***************************************************************************)
Prefix == \A v \in recorded : \A u \in Versions : u < v => u \in recorded

Current(q) == First(proc[q].cur, proc[q].todo) /\ proc[q].cur \in Versions

Sound(q) ==
    /\ proc[q].pc \in {"next", "record", "commit"} => Versions \ proc[q].todo \subseteq recorded
    /\ proc[q].pc \in {"record", "commit"} => Current(q)
    /\ proc[q].pc = "commit" => proc[q].cur \notin recorded
    /\ proc[q].pc = "ready" => recorded = Versions

OneHolder ==
    \A p, q \in Procs :
        p # q /\ proc[p].pc = "commit" /\ proc[q].pc = "commit" => proc[p].cur # proc[q].cur

MigrationInv ==
    /\ TypeOK
    /\ schema = recorded
    /\ Prefix
    /\ \A q \in Procs : Sound(q)
    /\ OneHolder

-----------------------------------------------------------------------------
(***************************************************************************)
(* What the steps do to the record of a process.                           *)
(***************************************************************************)
LEMMA DownType == Down \in Process /\ Down.pc = "down"
    BY DEF Down, Process

LEMMA Replaced ==
    ASSUME TypeOK, NEW p \in Procs, NEW r \in Process, proc' = [proc EXCEPT ![p] = r]
    PROVE  /\ proc' \in [Procs -> Process]
           /\ proc'[p] = r
           /\ \A q \in Procs : q # p => proc'[q] = proc[q]
    BY DEF TypeOK

LEMMA Moved ==
    ASSUME TypeOK, NEW p \in Procs, Goto(p, "create") \/ Goto(p, "load") \/ Goto(p, "commit")
                                                      \/ Goto(p, "ready")
    PROVE  /\ proc' \in [Procs -> Process]
           /\ proc'[p].todo = proc[p].todo /\ proc'[p].cur = proc[p].cur
           /\ \A q \in Procs : q # p => proc'[q] = proc[q]
           /\ Goto(p, "create") => proc'[p].pc = "create"
           /\ Goto(p, "load") => proc'[p].pc = "load"
           /\ Goto(p, "commit") => proc'[p].pc = "commit"
           /\ Goto(p, "ready") => proc'[p].pc = "ready"
<1>1. proc \in [Procs -> Process] /\ proc[p] \in Process
    BY DEF TypeOK
<1>2. PICK s \in {"create", "load", "commit", "ready"} : Goto(p, s)
    OBVIOUS
<1>3. proc' = [proc EXCEPT ![p] = [proc[p] EXCEPT !.pc = s]]
    BY <1>2 DEF Goto
<1>4. [proc[p] EXCEPT !.pc = s] \in Process
    BY <1>1 DEF Process
<1>5. /\ proc' \in [Procs -> Process]
      /\ proc'[p] = [proc[p] EXCEPT !.pc = s]
      /\ \A q \in Procs : q # p => proc'[q] = proc[q]
    BY <1>3, <1>4, Replaced
<1>6. proc'[p].pc = s /\ proc'[p].todo = proc[p].todo /\ proc'[p].cur = proc[p].cur
    BY <1>1, <1>5 DEF Process
<1>7. \A t \in {"create", "load", "commit", "ready"} : Goto(p, t) => t = s
    <2>1. SUFFICES ASSUME NEW t \in {"create", "load", "commit", "ready"}, Goto(p, t)
                   PROVE  t = s
        OBVIOUS
    <2>2. proc'[p].pc = t
        BY <1>1, <2>1 DEF Goto, Process
    <2> QED
        BY <1>6, <2>2
<1> QED
    BY <1>5, <1>6, <1>7

-----------------------------------------------------------------------------
(***************************************************************************)
(* Types.                                                                  *)
(***************************************************************************)
LEMMA TypeInit == Init => TypeOK
<1> SUFFICES ASSUME Init PROVE TypeOK
    OBVIOUS
<1>1. PICK n \in 0..Last : recorded = 1..n /\ exists = (n > 0)
    BY DEF Init
<1>2. recorded \subseteq Versions /\ exists \in BOOLEAN
    BY <1>1 DEF Versions
<1> QED
    BY <1>2, DownType DEF Init, TypeOK

LEMMA TypeNext ==
    ASSUME MigrationInv, NEW p \in Procs, Migrate(p) \/ Write(p) \/ Fail(p)
    PROVE  TypeOK'
<1>t. TypeOK /\ proc[p] \in Process
    BY DEF MigrationInv, TypeOK
<1>1. CASE Start(p) \/ CreateTable(p) \/ InsertVersion(p) \/ Finish(p)
    <2>1. proc' \in [Procs -> Process]
        BY <1>t, <1>1, Moved DEF Start, CreateTable, InsertVersion, Finish
    <2> QED
        BY <1>t, <1>1, <2>1 DEF TypeOK, Start, CreateTable, InsertVersion, Finish
<1>2. CASE LoadApplied(p)
    <2>1. [pc |-> "next", todo |-> Versions \ recorded, cur |-> 0] \in Process
        BY DEF Process
    <2> QED
        BY <1>t, <1>2, <2>1 DEF TypeOK, LoadApplied
<1>3. CASE RunSql(p)
    <2>1. proc' \in [Procs -> Process]
        <3>1. PICK v \in Versions : proc' = [proc EXCEPT ![p].pc = "record", ![p].cur = v]
            BY <1>3 DEF RunSql
        <3> DEFINE r == [proc[p] EXCEPT !.pc = "record", !.cur = v]
        <3>2. proc' = [proc EXCEPT ![p] = r]
            BY <3>1
        <3>3. r \in Process
            BY <1>t DEF Process
        <3> HIDE DEF r
        <3> QED
            BY <1>t, <3>2, <3>3, Replaced
    <2> QED
        BY <1>t, <1>3, <2>1 DEF TypeOK, RunSql
<1>4. CASE Conflict(p)
    BY <1>t, <1>4, DownType DEF TypeOK, Conflict
<1>5. CASE Commit(p)
    <2>1. proc' \in [Procs -> Process]
        <3> DEFINE rest == proc[p].todo \ {proc[p].cur}
                   r == [proc[p] EXCEPT !.pc = "next", !.todo = rest]
        <3>1. rest \in SUBSET Versions
            BY <1>t DEF Process
        <3>2. proc' = [proc EXCEPT ![p] = r]
            BY <1>5 DEF Commit
        <3> HIDE DEF rest
        <3>3. r \in Process
            BY <1>t, <3>1 DEF Process
        <3> HIDE DEF r
        <3> QED
            BY <1>t, <3>2, <3>3, Replaced
    <2>2. proc[p].cur \in Versions
        BY <1>5 DEF Commit, MigrationInv, Sound, Current
    <2> QED
        BY <1>t, <1>5, <2>1, <2>2 DEF TypeOK, Commit, TakeEffect
<1>6. CASE Write(p)
    BY <1>t, <1>6 DEF TypeOK, Write
<1>7. CASE Fail(p)
    <2>1. proc' \in [Procs -> Process]
        BY <1>t, <1>7, DownType DEF TypeOK, Fail
    <2>2. proc[p].pc = "commit" => proc[p].cur \in Versions
        BY DEF MigrationInv, Sound, Current
    <2> QED
        BY <1>t, <1>7, <2>1, <2>2 DEF TypeOK, Fail, TakeEffect
<1> QED
    BY <1>1, <1>2, <1>3, <1>4, <1>5, <1>6, <1>7 DEF Migrate

-----------------------------------------------------------------------------
(***************************************************************************)
(* A step of one process that records nothing.                             *)
(***************************************************************************)
LEMMA RecordsNothing ==
    ASSUME MigrationInv, TypeOK', NEW p \in Procs,
           recorded' = recorded, schema' = schema,
           \A q \in Procs : q # p => proc'[q] = proc[q],
           Sound(p)',
           \A q \in Procs : q # p /\ proc[q].pc = "commit" /\ proc'[p].pc = "commit"
                               => proc[q].cur # proc'[p].cur
    PROVE  MigrationInv'
<1>1. schema' = recorded' /\ Prefix'
    BY DEF MigrationInv, Prefix, Versions
<1>2. \A q \in Procs : Sound(q)'
    <2> SUFFICES ASSUME NEW q \in Procs, q # p PROVE Sound(q)'
        OBVIOUS
    <2>1. Sound(q) /\ proc'[q] = proc[q]
        BY DEF MigrationInv
    <2> QED
        BY <2>1 DEF Sound, Current, First, Versions
<1>3. OneHolder'
    BY DEF MigrationInv, OneHolder
<1> QED
    BY <1>1, <1>2, <1>3 DEF MigrationInv

(***************************************************************************)
(* A transaction that commits, whether or not its process learns of it.    *)
(***************************************************************************)
LEMMA RecordsOne ==
    ASSUME MigrationInv, TypeOK', NEW p \in Procs,
           proc[p].pc = "commit", TakeEffect(proc[p].cur),
           \A q \in Procs : q # p => proc'[q] = proc[q],
           \/ proc'[p].pc = "down"
           \/ proc'[p].pc = "next" /\ proc'[p].todo = proc[p].todo \ {proc[p].cur}
    PROVE  MigrationInv'
<1> DEFINE v == proc[p].cur
<1>1. /\ recorded' = recorded \cup {v} /\ schema' = schema \cup {v}
      /\ v \in Versions /\ v \notin recorded /\ First(v, proc[p].todo)
      /\ Versions \ proc[p].todo \subseteq recorded
    BY DEF TakeEffect, MigrationInv, Sound, Current
<1>2. recorded \subseteq Versions /\ proc[p].todo \subseteq Versions
    BY DEF MigrationInv, TypeOK, Process
<1> HIDE DEF v
<1>3. \A u \in Versions : u < v => u \in recorded
    BY <1>1, <1>2 DEF First, Versions
<1>4. schema' = recorded' /\ Prefix'
    BY <1>1, <1>3 DEF MigrationInv, Prefix, Versions
<1>5. ASSUME NEW q \in Procs, q # p PROVE Sound(q)'
    <2>1. Sound(q) /\ proc'[q] = proc[q]
        BY <1>5 DEF MigrationInv
    <2>2. proc[q].pc = "commit" => proc[q].cur # v
        BY <1>5 DEF MigrationInv, OneHolder, v
    <2> QED
        BY <1>1, <1>2, <2>1, <2>2 DEF Sound, Current, First, Versions
<1>6. Sound(p)'
    <2>1. proc'[p].pc = "next" => Versions \ proc'[p].todo \subseteq recorded'
        BY <1>1 DEF v
    <2> QED
        BY <2>1 DEF Sound, Versions
<1>7. OneHolder'
    BY DEF MigrationInv, OneHolder
<1> QED
    BY <1>4, <1>5, <1>6, <1>7 DEF MigrationInv

-----------------------------------------------------------------------------
LEMMA InvInit == Init => MigrationInv
<1> SUFFICES ASSUME Init PROVE MigrationInv
    OBVIOUS
<1>1. PICK n \in 0..Last : recorded = 1..n
    BY DEF Init
<1>2. Prefix
    BY <1>1 DEF Prefix, Versions
<1>3. \A q \in Procs : proc[q].pc = "down"
    BY DEF Init, Down
<1> QED
    BY <1>2, <1>3, TypeInit DEF Init, MigrationInv, Sound, OneHolder

LEMMA InvNext == MigrationInv /\ [Next]_vars => MigrationInv'
<1> SUFFICES ASSUME MigrationInv, [Next]_vars PROVE MigrationInv'
    OBVIOUS
<1>1. CASE UNCHANGED vars
    BY <1>1 DEF vars, MigrationInv, TypeOK, Process, Versions, Prefix, Sound, Current, First,
        OneHolder
<1>2. ASSUME NEW p \in Procs, Migrate(p) \/ Write(p) \/ Fail(p) PROVE MigrationInv'
    <2>t. TypeOK /\ TypeOK' /\ proc[p] \in Process /\ Sound(p)
        BY <1>2, TypeNext DEF MigrationInv, TypeOK
    <2>1. CASE Start(p) \/ CreateTable(p)
        <3>1. /\ \A q \in Procs : q # p => proc'[q] = proc[q]
              /\ proc'[p].pc \in {"create", "load"}
              /\ recorded' = recorded /\ schema' = schema
            BY <2>t, <2>1, Moved DEF Start, CreateTable
        <3> QED
            BY <2>t, <3>1, RecordsNothing DEF Sound
    <2>2. CASE LoadApplied(p)
        <3>1. /\ \A q \in Procs : q # p => proc'[q] = proc[q]
              /\ proc'[p].pc = "next" /\ proc'[p].todo = Versions \ recorded
              /\ recorded' = recorded /\ schema' = schema
            BY <2>t, <2>2 DEF LoadApplied, TypeOK
        <3>2. Sound(p)'
            BY <3>1 DEF Sound, Versions
        <3> QED
            BY <2>t, <3>1, <3>2, RecordsNothing
    <2>3. CASE RunSql(p)
        <3>1. PICK v \in Versions :
                /\ First(v, proc[p].todo)
                /\ proc' = [proc EXCEPT ![p].pc = "record", ![p].cur = v]
            BY <2>3 DEF RunSql
        <3>2. /\ \A q \in Procs : q # p => proc'[q] = proc[q]
              /\ proc'[p].pc = "record" /\ proc'[p].todo = proc[p].todo /\ proc'[p].cur = v
              /\ recorded' = recorded /\ schema' = schema
            BY <2>t, <2>3, <3>1 DEF RunSql, TypeOK, Process
        <3>3. Sound(p)'
            BY <2>t, <2>3, <3>1, <3>2 DEF RunSql, Sound, Current, First, Versions
        <3> QED
            BY <2>t, <3>2, <3>3, RecordsNothing
    <2>4. CASE InsertVersion(p)
        <3>1. /\ \A q \in Procs : q # p => proc'[q] = proc[q]
              /\ proc'[p].pc = "commit" /\ proc'[p].todo = proc[p].todo
              /\ proc'[p].cur = proc[p].cur
              /\ recorded' = recorded /\ schema' = schema
            BY <2>t, <2>4, Moved DEF InsertVersion
        <3>2. Sound(p)'
            BY <2>t, <2>4, <3>1 DEF InsertVersion, Sound, Current, First, Versions
        <3>3. \A q \in Procs : proc[q].pc = "commit" => proc[q].cur # proc'[p].cur
            BY <2>4, <3>1 DEF InsertVersion
        <3> QED
            BY <2>t, <3>1, <3>2, <3>3, RecordsNothing
    <2>5. CASE Conflict(p)
        <3>1. /\ \A q \in Procs : q # p => proc'[q] = proc[q]
              /\ proc'[p].pc = "down"
              /\ recorded' = recorded /\ schema' = schema
            BY <2>t, <2>5, DownType DEF Conflict, TypeOK
        <3> QED
            BY <2>t, <3>1, RecordsNothing DEF Sound
    <2>6. CASE Commit(p)
        <3>1. /\ \A q \in Procs : q # p => proc'[q] = proc[q]
              /\ proc'[p].pc = "next" /\ proc'[p].todo = proc[p].todo \ {proc[p].cur}
            BY <2>t, <2>6 DEF Commit, TypeOK, Process
        <3> QED
            BY <2>t, <2>6, <3>1, RecordsOne DEF Commit
    <2>7. CASE Finish(p)
        <3>1. /\ \A q \in Procs : q # p => proc'[q] = proc[q]
              /\ proc'[p].pc = "ready"
              /\ recorded' = recorded /\ schema' = schema
            BY <2>t, <2>7, Moved DEF Finish
        <3>2. recorded = Versions
            BY <2>t, <2>7 DEF Finish, Sound, TypeOK
        <3>3. Sound(p)'
            BY <3>1, <3>2 DEF Sound, Versions
        <3> QED
            BY <2>t, <3>1, <3>3, RecordsNothing
    <2>8. CASE Write(p)
        <3>1. proc' = proc /\ recorded' = recorded /\ schema' = schema
            BY <2>8 DEF Write
        <3>2. Sound(p)'
            BY <2>t, <3>1 DEF Sound, Current, First, Versions
        <3> QED
            BY <2>t, <2>8, <3>1, <3>2, RecordsNothing DEF Write
    <2>9. CASE Fail(p)
        <3>1. /\ \A q \in Procs : q # p => proc'[q] = proc[q]
              /\ proc'[p].pc = "down"
            BY <2>t, <2>9, DownType DEF Fail, TypeOK
        <3>2. CASE recorded' = recorded /\ schema' = schema
            BY <2>t, <3>1, <3>2, RecordsNothing DEF Sound
        <3>3. CASE proc[p].pc = "commit" /\ TakeEffect(proc[p].cur)
            BY <2>t, <3>1, <3>3, RecordsOne
        <3> QED
            BY <2>9, <3>2, <3>3 DEF Fail
    <2> QED
        BY <1>2, <2>1, <2>2, <2>3, <2>4, <2>5, <2>6, <2>7, <2>8, <2>9 DEF Migrate
<1> QED
    BY <1>1, <1>2 DEF Next

-----------------------------------------------------------------------------
LEMMA InvAlways == Spec => []MigrationInv
    BY InvInit, InvNext, PTL DEF Spec

(***************************************************************************)
(* Every reachable state has the declared types, for any number of         *)
(* processes and versions (Run and applyOne, migrate.go:48-105).           *)
(***************************************************************************)
THEOREM TypeCorrect == Spec => []TypeOK
<1>1. MigrationInv => TypeOK
    BY DEF MigrationInv
<1> QED
    BY <1>1, InvAlways, PTL

(***************************************************************************)
(* A version is recorded exactly when its statements took effect, and the  *)
(* recorded versions are a prefix of the list, whichever processes race    *)
(* and wherever they fail (applyOne, migrate.go:91-105).                   *)
(***************************************************************************)
THEOREM VersionsStayTrue == Spec => []VersionsTellTheTruth
<1>1. MigrationInv => VersionsTellTheTruth
    BY DEF MigrationInv, TypeOK, Prefix, VersionsTellTheTruth, Versions
<1> QED
    BY <1>1, InvAlways, PTL

(***************************************************************************)
(* A binary that serves has the complete schema, also one whose set of     *)
(* applied versions was stale (cmd/main.go:81-84).                         *)
(***************************************************************************)
THEOREM ReadyIsComplete == Spec => []ReadyMeansComplete
<1>1. MigrationInv => ReadyMeansComplete
    BY DEF MigrationInv, Sound, ReadyMeansComplete
<1> QED
    BY <1>1, InvAlways, PTL

(***************************************************************************)
(* Once the truncating versions are recorded no step shrinks the history:  *)
(* a second TRUNCATE is always rolled back (migrate.go:96-103).            *)
(***************************************************************************)
THEOREM HistoryIsKept == Spec => WrittenHistoryKept
<1>1. MigrationInv /\ [Next]_vars => [Wipes \subseteq recorded => rows' >= rows]_vars
    <2> SUFFICES ASSUME MigrationInv, Next, Wipes \subseteq recorded
                 PROVE  rows' >= rows
        BY DEF vars
    <2>1. rows \in Nat
        BY DEF MigrationInv, TypeOK
    <2>2. PICK p \in Procs : Migrate(p) \/ Write(p) \/ Fail(p)
        BY DEF Next
    <2>3. CASE proc[p].pc = "commit" /\ TakeEffect(proc[p].cur)
        <3>1. proc[p].cur \notin Wipes
            BY <2>3 DEF MigrationInv, Sound
        <3> QED
            BY <2>1, <2>3, <3>1 DEF TakeEffect
    <2>4. CASE Write(p)
        BY <2>1, <2>4 DEF Write
    <2>5. CASE rows' = rows
        BY <2>1, <2>5
    <2> QED
        BY <2>2, <2>3, <2>4, <2>5 DEF Migrate, Start, CreateTable, LoadApplied, RunSql,
            InsertVersion, Conflict, Commit, Finish, Fail
<1> QED
    BY <1>1, InvAlways, PTL DEF Spec, WrittenHistoryKept

(***************************************************************************)
(* The racing processes implement the abstract log: each version takes     *)
(* effect once, in order, in one step, and the history is written only on  *)
(* the complete schema (Run, migrate.go:48-72).                            *)
(***************************************************************************)
THEOREM MigrationsRefineLog == Spec => ImplementsSchemaLog
<1>1. Init => Log!Init
    BY DEF Init, Log!Init
<1>2. MigrationInv /\ [Next]_vars => [Log!Next]_(Log!vars)
    <2> SUFFICES ASSUME MigrationInv, [Next]_vars
                 PROVE  Log!Next \/ UNCHANGED <<recorded, rows>>
        BY DEF Log!vars
    <2>1. CASE UNCHANGED vars
        BY <2>1 DEF vars
    <2>2. ASSUME NEW p \in Procs, Migrate(p) \/ Write(p) \/ Fail(p)
          PROVE  Log!Next \/ UNCHANGED <<recorded, rows>>
        <3>1. CASE proc[p].pc = "commit" /\ TakeEffect(proc[p].cur)
            <4>1. /\ proc[p].cur \in Versions /\ proc[p].cur \notin recorded
                  /\ First(proc[p].cur, proc[p].todo)
                  /\ Versions \ proc[p].todo \subseteq recorded
                BY <3>1 DEF MigrationInv, Sound, Current
            <4>2. \A u \in Versions : u < proc[p].cur => u \in recorded
                BY <4>1 DEF First, Versions
            <4>3. Log!Apply
                BY <3>1, <4>1, <4>2 DEF TakeEffect, Log!Apply, Log!Versions, Versions
            <4> QED
                BY <4>3 DEF Log!Next
        <3>2. CASE Write(p)
            <4>1. recorded = Versions
                BY <3>2 DEF MigrationInv, Sound, Write
            <4>2. Log!Write
                BY <3>2, <4>1 DEF Write, Log!Write, Log!Versions, Versions
            <4> QED
                BY <4>2 DEF Log!Next
        <3>3. CASE UNCHANGED <<recorded, rows>>
            BY <3>3
        <3> QED
            BY <2>2, <3>1, <3>2, <3>3 DEF Migrate, Start, CreateTable, LoadApplied, RunSql,
                InsertVersion, Conflict, Commit, Finish, Fail
    <2> QED
        BY <2>1, <2>2 DEF Next
<1> QED
    BY <1>1, <1>2, InvAlways, PTL DEF Spec, ImplementsSchemaLog, Log!Spec
=============================================================================
