------------------------------ MODULE Pipeline ------------------------------
(***************************************************************************)
(* The analysis pipeline of the combined binary (cmd/main.go:110-118): the *)
(* scraper goroutine writes snapshots, the consolidator goroutine reads    *)
(* those of its window, writes a consolidation and feeds the tracker, and  *)
(* requests to POST /experiment/reset erase the history and then the       *)
(* tracker.  The three share a PostgreSQL database and nothing else        *)
(* orders them.                                                            *)
(*                                                                         *)
(* Each SQL statement is one step.  At READ COMMITTED a statement sees     *)
(* what was committed when it started; the inserts of a transaction are    *)
(* visible to others when it commits, all at once, or never.  TRUNCATE     *)
(* waits for every transaction that has inserted into its tables.          *)
(* An id is drawn from a sequence that neither a rollback nor TRUNCATE     *)
(* (without RESTART IDENTITY) sets back.                                   *)
(*                                                                         *)
(* Values are abstracted to where they come from: a consolidation holds    *)
(* the rows its averages were computed from, and the tracker holds, per    *)
(* key, which consolidations it was given since its last fresh start (what *)
(* SustainedAlert keeps as history).  Key 0 stands for the two global      *)
(* indicators, w for the two indicators of workload w.  gen counts the     *)
(* erasures; rows carry the generation they were inserted in, which no     *)
(* query can see.                                                          *)
(***************************************************************************)
EXTENDS Naturals, FiniteSets

CONSTANTS
    Workloads,          \* workloads that can be measured: a set of positive numbers,
                        \* in the order the consolidator sorts them (consolidator.go:222)
    Requests,           \* reset requests that may be served concurrently
    Window,             \* Consolidator.window
    MaxTime,            \* bound of the clock
    MaxScrapes,         \* bound of the scrapes ids
    MaxConsolidations,  \* bound of the consolidations ids
    MaxGen              \* bound of the erasures

ASSUME WorkloadsAssumption == Workloads \subseteq Nat \ {0}
ASSUME PipelineBounds ==
    /\ Window \in Nat /\ MaxTime \in Nat
    /\ MaxScrapes \in Nat /\ MaxConsolidations \in Nat /\ MaxGen \in Nat

VARIABLES
    now, gen,
    scrapes, indicators, items,     \* scrapes, indicator_snapshots, workload_item_snapshots
    consolidations, consolidated,   \* consolidations, consolidated_workload_snapshots
    lastScrape, lastConsolidation,  \* the id sequences of the two tables
    scraper,                        \* the scraper goroutine and its transaction
    cycle,                          \* the consolidator goroutine and its transaction
    request,                        \* the reset requests
    heard,                          \* per key, the consolidations the tracker was given
    promised,                       \* verification only: the newest erasure that was
                                    \* answered with 200
    saved                           \* verification only: consolidations ever committed

store == <<scrapes, indicators, items, consolidations, consolidated>>
sequences == <<lastScrape, lastConsolidation>>
tracker == heard
ghosts == <<promised, saved>>
vars == <<now, gen, store, sequences, scraper, cycle, request, tracker, ghosts>>

-----------------------------------------------------------------------------
NoTx == [scrapes |-> {}, indicators |-> {}, items |-> {}]
IdleScraper == [pc |-> "idle", taken |-> 0, left |-> {}, tx |-> NoTx]

NoReads == [scrapes |-> {}, indicators |-> {}, items |-> {}]
NoReport == [consolidations |-> {}, consolidated |-> {}]
IdleCycle == [pc |-> "idle", end |-> 0, read |-> 0, done |-> 0, rows |-> NoReads,
              id |-> 0, todo |-> {}, tx |-> NoReport]

IdleRequest == [pc |-> "idle", gen |-> 0]

Keys == {0} \cup Workloads

NoneHeard == [k \in Keys |-> {}]

Init ==
    /\ now = 0 /\ gen = 0
    /\ scrapes = {} /\ indicators = {} /\ items = {}
    /\ consolidations = {} /\ consolidated = {}
    /\ lastScrape = 0 /\ lastConsolidation = 0
    /\ scraper = IdleScraper
    /\ cycle = IdleCycle
    /\ request = [r \in Requests |-> IdleRequest]
    /\ heard = NoneHeard
    /\ promised = 0
    /\ saved = {}

Tick ==
    /\ now < MaxTime
    /\ now' = now + 1
    /\ UNCHANGED <<gen, store, sequences, scraper, cycle, request, tracker, ghosts>>

-----------------------------------------------------------------------------
(***************************************************************************)
(* The scraper: scrapeAndSave, then Database.SaveSnapshot.                 *)
(***************************************************************************)
ScrapeStart ==
    /\ scraper.pc = "idle"
    /\ scraper' = [IdleScraper EXCEPT !.pc = "calculate", !.taken = gen]
    /\ UNCHANGED <<now, gen, store, sequences, cycle, request, tracker, ghosts>>

\* The calculation is done; BEGIN and the insert of the scrape row.
InsertScrape ==
    /\ scraper.pc = "calculate"
    /\ lastScrape < MaxScrapes
    /\ lastScrape' = lastScrape + 1
    /\ \E m \in SUBSET Workloads :
         LET row == [id |-> lastScrape + 1, gen |-> gen, at |-> now,
                     taken |-> scraper.taken, measured |-> m]
         IN  scraper' = [scraper EXCEPT !.pc = "indicator", !.left = m,
                                        !.tx = [NoTx EXCEPT !.scrapes = {row}]]
    /\ UNCHANGED <<now, gen, store, lastConsolidation, cycle, request, tracker, ghosts>>

RowsOf(scrapeRows) == {[id |-> s.id, gen |-> s.gen] : s \in scrapeRows}

InsertIndicatorIgnoringError ==
    /\ scraper.pc = "indicator"
    /\ \E ok \in BOOLEAN :
         scraper' = [scraper EXCEPT !.pc = "items",
                       !.tx.indicators = IF ok THEN RowsOf(scraper.tx.scrapes) ELSE {}]
    /\ UNCHANGED <<now, gen, store, sequences, cycle, request, tracker, ghosts>>

InsertIndicator ==
    /\ scraper.pc = "indicator"
    /\ scraper' = [scraper EXCEPT !.pc = "items",
                                  !.tx.indicators = RowsOf(scraper.tx.scrapes)]
    /\ UNCHANGED <<now, gen, store, sequences, cycle, request, tracker, ghosts>>

InsertItem ==
    /\ scraper.pc = "items"
    /\ \E w \in scraper.left :
         scraper' = [scraper EXCEPT
                       !.left = @ \ {w},
                       !.tx.items = @ \cup {[id |-> s.id, gen |-> s.gen, w |-> w] :
                                              s \in scraper.tx.scrapes}]
    /\ UNCHANGED <<now, gen, store, sequences, cycle, request, tracker, ghosts>>

CommitSnapshotEarly ==
    /\ scraper.pc = "items"
    /\ scrapes' = scrapes \cup scraper.tx.scrapes
    /\ indicators' = indicators \cup scraper.tx.indicators
    /\ items' = items \cup scraper.tx.items
    /\ scraper' = IdleScraper
    /\ UNCHANGED <<now, gen, consolidations, consolidated, sequences, cycle, request, tracker,
                   ghosts>>

\* Whether the client learns of the commit does not matter: it goes idle either way.
CommitSnapshot ==
    /\ scraper.pc = "items"
    /\ scraper.left = {}
    /\ scrapes' = scrapes \cup scraper.tx.scrapes
    /\ indicators' = indicators \cup scraper.tx.indicators
    /\ items' = items \cup scraper.tx.items
    /\ scraper' = IdleScraper
    /\ UNCHANGED <<now, gen, consolidations, consolidated, sequences, cycle, request, tracker,
                   ghosts>>

\* The calculation, a statement or the commit fails: counted, rolled back, given up
\* until the next tick.
ScrapeFails ==
    /\ scraper.pc # "idle"
    /\ scraper' = IdleScraper
    /\ UNCHANGED <<now, gen, store, sequences, cycle, request, tracker, ghosts>>

-----------------------------------------------------------------------------
(***************************************************************************)
(* The consolidator: consolidateAndSave.                                   *)
(***************************************************************************)
CycleStart ==
    /\ cycle.pc = "idle"
    /\ cycle' = [IdleCycle EXCEPT !.pc = "scrapes", !.end = now]
    /\ UNCHANGED <<now, gen, store, sequences, scraper, request, tracker, ghosts>>

\* GetScrapesInRange(end - window, end).
InWindow(end) == {s \in scrapes : s.at <= end /\ s.at + Window >= end}

ReadScrapes ==
    /\ cycle.pc = "scrapes"
    /\ LET found == InWindow(cycle.end) IN
       cycle' = IF found = {} THEN IdleCycle
                ELSE [cycle EXCEPT !.pc = "indicators", !.read = gen, !.rows.scrapes = found]
    /\ UNCHANGED <<now, gen, store, sequences, scraper, request, tracker, ghosts>>

ScrapeIdsButNewest ==
    {s.id : s \in {t \in cycle.rows.scrapes :
                     \E u \in cycle.rows.scrapes : u.id > t.id \/ cycle.rows.scrapes = {t}}}

ScrapeIds == {s.id : s \in cycle.rows.scrapes}

\* WHERE scrape_id = ANY(ids).
ForScrapes(table) == {x \in table : x.id \in ScrapeIds}

\* GetIndicatorSnapshotsForScrapes.
ReadIndicators ==
    /\ cycle.pc = "indicators"
    /\ LET found == ForScrapes(indicators) IN
       cycle' = IF found = {} THEN IdleCycle
                ELSE [cycle EXCEPT !.pc = "items", !.rows.indicators = found]
    /\ UNCHANGED <<now, gen, store, sequences, scraper, request, tracker, ghosts>>

\* GetWorkloadItemSnapshotsForScrapes: the code goes on when it finds none.
ReadItems ==
    /\ cycle.pc = "items"
    /\ cycle' = [cycle EXCEPT !.pc = "save", !.done = gen,
                              !.rows.items = ForScrapes(items)]
    /\ UNCHANGED <<now, gen, store, sequences, scraper, request, tracker, ghosts>>

\* The averages of the cluster: the rows they are computed from.
Averaged(i) == [id |-> i, read |-> cycle.read, done |-> cycle.done, rows |-> cycle.rows]

\* The workloads that have items in the window.
Grouped == {x.w : x \in cycle.rows.items}

\* SaveConsolidation: BEGIN, then the header.
InsertConsolidation ==
    /\ cycle.pc = "save"
    /\ lastConsolidation < MaxConsolidations
    /\ lastConsolidation' = lastConsolidation + 1
    /\ cycle' = [cycle EXCEPT
                   !.pc = "workloads",
                   !.id = lastConsolidation + 1,
                   !.todo = Grouped,
                   !.tx.consolidations = {Averaged(lastConsolidation + 1)}]
    /\ UNCHANGED <<now, gen, store, lastScrape, scraper, request, tracker, ghosts>>

First(k, S) == k \in S /\ \A l \in S : k <= l

\* One row per workload, in sorted order.
InsertConsolidated ==
    /\ cycle.pc = "workloads"
    /\ \E w \in Workloads :
         /\ First(w, cycle.todo)
         /\ cycle' = [cycle EXCEPT !.todo = @ \ {w},
                                   !.tx.consolidated = @ \cup {[id |-> cycle.id, w |-> w]}]
    /\ UNCHANGED <<now, gen, store, sequences, scraper, request, tracker, ghosts>>

\* The server commits; the client learns it (and goes on to observe) or gets an error.
CommitConsolidation ==
    /\ cycle.pc = "workloads"
    /\ cycle.todo = {}
    /\ consolidations' = consolidations \cup cycle.tx.consolidations
    /\ consolidated' = consolidated \cup cycle.tx.consolidated
    /\ saved' = saved \cup {cycle.id}
    /\ \/ cycle' = [cycle EXCEPT !.pc = "observe",
                                 !.todo = {0} \cup Grouped]
       \/ cycle' = IdleCycle
    /\ UNCHANGED <<now, gen, scrapes, indicators, items, sequences, scraper, request, tracker,
                   promised>>

\* A read, a statement or the commit fails: counted, rolled back, given up until the
\* next tick, and nothing is observed.
Failable == {"scrapes", "indicators", "items", "save", "workloads"}

CycleFailsAndObserves ==
    /\ cycle.pc \in Failable
    /\ cycle' = IF cycle.pc = "workloads"
                THEN [cycle EXCEPT !.pc = "observe",
                                   !.todo = {0} \cup Grouped]
                ELSE IdleCycle
    /\ UNCHANGED <<now, gen, store, sequences, scraper, request, tracker, ghosts>>

CycleFails ==
    /\ cycle.pc \in Failable
    /\ cycle' = IdleCycle
    /\ UNCHANGED <<now, gen, store, sequences, scraper, request, tracker, ghosts>>

\* tracker.Observe for the global indicators, then workload by workload: each call
\* takes the tracker's lock anew.
ObserveNext ==
    /\ cycle.pc = "observe"
    /\ \E k \in Keys :
         /\ First(k, cycle.todo)
         /\ heard' = [heard EXCEPT ![k] = @ \cup {[id |-> cycle.id, read |-> cycle.read]}]
         /\ cycle' = IF cycle.todo = {k} THEN IdleCycle
                     ELSE [cycle EXCEPT !.todo = @ \ {k}]
    /\ UNCHANGED <<now, gen, store, sequences, scraper, request, ghosts>>

-----------------------------------------------------------------------------
(***************************************************************************)
(* POST /experiment/reset, once it is authorised (a refused request        *)
(* changes nothing).                                                       *)
(***************************************************************************)
NoInsertsPending ==
    /\ scraper.pc \notin {"indicator", "items"}
    /\ cycle.pc # "workloads"

\* TRUNCATE TABLE scrapes, consolidations CASCADE.
Erased ==
    /\ NoInsertsPending
    /\ gen < MaxGen
    /\ gen' = gen + 1
    /\ scrapes' = {} /\ indicators' = {} /\ items' = {}
    /\ consolidations' = {} /\ consolidated' = {}
    /\ UNCHANGED sequences

TruncateNoCascade(r) ==
    /\ request[r].pc = "idle"
    /\ NoInsertsPending
    /\ gen < MaxGen
    /\ gen' = gen + 1
    /\ scrapes' = {} /\ consolidations' = {}
    /\ request' = [request EXCEPT ![r] = [pc |-> "truncated", gen |-> gen + 1]]
    /\ UNCHANGED <<now, indicators, items, consolidated, sequences, scraper, cycle, tracker,
                   ghosts>>

TruncateRestartIdentity(r) ==
    /\ request[r].pc = "idle"
    /\ NoInsertsPending
    /\ gen < MaxGen
    /\ gen' = gen + 1
    /\ scrapes' = {} /\ indicators' = {} /\ items' = {}
    /\ consolidations' = {} /\ consolidated' = {}
    /\ lastScrape' = 0 /\ lastConsolidation' = 0
    /\ request' = [request EXCEPT ![r] = [pc |-> "truncated", gen |-> gen + 1]]
    /\ UNCHANGED <<now, scraper, cycle, tracker, ghosts>>

\* The statement succeeds and the handler goes on, or its answer is lost and the handler
\* answers 500 with the tracker as it was.
Truncate(r) ==
    /\ request[r].pc = "idle"
    /\ Erased
    /\ \/ request' = [request EXCEPT ![r] = [pc |-> "truncated", gen |-> gen + 1]]
       \/ UNCHANGED request
    /\ UNCHANGED <<now, scraper, cycle, tracker, ghosts>>

Later(a, b) == IF a <= b THEN b ELSE a

\* tracker.Reset, and the answer 200.
ResetTracker(r) ==
    /\ request[r].pc = "truncated"
    /\ heard' = NoneHeard
    /\ promised' = Later(promised, request[r].gen)
    /\ request' = [request EXCEPT ![r] = IdleRequest]
    /\ UNCHANGED <<now, gen, store, sequences, scraper, cycle, saved>>

-----------------------------------------------------------------------------
(***************************************************************************)
(* The process dies (or shuts down: main does not wait for its goroutines) *)
(* and is started again.  The server rolls open transactions back.         *)
(***************************************************************************)
Crash ==
    /\ scraper' = IdleScraper
    /\ cycle' = IdleCycle
    /\ request' = [r \in Requests |-> IdleRequest]
    /\ heard' = NoneHeard
    /\ UNCHANGED <<now, gen, store, sequences, ghosts>>

Scrape ==
    \/ ScrapeStart
    \/ InsertScrape
    \/ InsertIndicator
    \/ InsertItem
    \/ CommitSnapshot
    \/ ScrapeFails

Consolidate ==
    \/ CycleStart
    \/ ReadScrapes
    \/ ReadIndicators
    \/ ReadItems
    \/ InsertConsolidation
    \/ InsertConsolidated
    \/ CommitConsolidation
    \/ CycleFails
    \/ ObserveNext

ServeTrackerFirst == \E r \in Requests :
    \/ /\ request[r].pc = "idle"
       /\ heard' = NoneHeard
       /\ request' = [request EXCEPT ![r] = [pc |-> "truncated", gen |-> gen + 1]]
       /\ UNCHANGED <<now, gen, store, sequences, scraper, cycle, ghosts>>
    \/ /\ request[r].pc = "truncated"
       /\ Erased
       /\ promised' = gen + 1
       /\ request' = [request EXCEPT ![r] = IdleRequest]
       /\ UNCHANGED <<now, scraper, cycle, tracker, saved>>

Serve == \E r \in Requests : Truncate(r) \/ ResetTracker(r)

Next ==
    \/ Tick
    \/ Scrape
    \/ Consolidate
    \/ Serve
    \/ Crash

Spec == Init /\ [][Next]_vars

-----------------------------------------------------------------------------
Rows == [id : Nat, gen : Nat]
ScrapeRow == [id : Nat, gen : Nat, at : Nat, taken : Nat, measured : SUBSET Workloads]
ItemRow == [id : Nat, gen : Nat, w : Workloads]
Reads == [scrapes : SUBSET ScrapeRow, indicators : SUBSET Rows, items : SUBSET ItemRow]
ConsolidationRow == [id : Nat, read : Nat, done : Nat, rows : Reads]
ConsolidatedRow == [id : Nat, w : Workloads]
SnapshotTx == [scrapes : SUBSET ScrapeRow, indicators : SUBSET Rows, items : SUBSET ItemRow]
ReportTx == [consolidations : SUBSET ConsolidationRow, consolidated : SUBSET ConsolidatedRow]
Scraper == [pc : {"idle", "calculate", "indicator", "items"}, taken : Nat,
            left : SUBSET Workloads, tx : SnapshotTx]
Cycle == [pc : {"idle", "observe"} \cup Failable, end : Nat, read : Nat, done : Nat,
          rows : Reads, id : Nat, todo : SUBSET Keys, tx : ReportTx]

(***************************************************************************)
(* Type invariant.                                                         *)
(***************************************************************************)
TypeOK ==
    /\ now \in Nat /\ gen \in Nat /\ lastScrape \in Nat /\ lastConsolidation \in Nat
    /\ scrapes \subseteq ScrapeRow /\ indicators \subseteq Rows /\ items \subseteq ItemRow
    /\ consolidations \subseteq ConsolidationRow /\ consolidated \subseteq ConsolidatedRow
    /\ scraper \in Scraper
    /\ cycle \in Cycle
    /\ request \in [Requests -> [pc : {"idle", "truncated"}, gen : Nat]]
    /\ heard \in [Keys -> SUBSET [id : Nat, read : Nat]]
    /\ promised \in Nat /\ saved \subseteq Nat

\* The items a whole history holds.
ItemsOf(scrapeRows) ==
    UNION {{[id |-> s.id, gen |-> s.gen, w |-> w] : w \in s.measured} : s \in scrapeRows}

(***************************************************************************)
(* "failures cannot leave the history in an inconsistent state"            *)
(* (db.go:67-69): every committed scrape has its totals and an item for    *)
(* every workload that was measured, and no row of the child tables is     *)
(* without its scrape, whatever failed, crashed or was erased.             *)
(***************************************************************************)
SnapshotsWhole ==
    /\ indicators = RowsOf(scrapes)
    /\ items = ItemsOf(scrapes)

(***************************************************************************)
(* A committed consolidation has one row for every workload it read and no *)
(* consolidated row is without its header (SaveConsolidation, db.go:232).  *)
(***************************************************************************)
ReportsWhole ==
    consolidated = UNION {{[id |-> c.id, w |-> x.w] : x \in c.rows.items} : c \in consolidations}

(***************************************************************************)
(* The three reads of a cycle are separate statements keyed by scrape ids  *)
(* (consolidator.go:83-116).  The totals and items of a consolidation are  *)
(* of the very scrapes it counted, never of later scrapes that were given  *)
(* the same ids after an erasure.                                          *)
(***************************************************************************)
ReadsOfOneSelection ==
    \A c \in consolidations :
        /\ c.rows.indicators \subseteq RowsOf(c.rows.scrapes)
        /\ \A x \in c.rows.items : [id |-> x.id, gen |-> x.gen] \in RowsOf(c.rows.scrapes)

(***************************************************************************)
(* A consolidation is torn (scrapes are counted whose totals or items it   *)
(* misses) only when an erasure fell between its reads: concurrent saves   *)
(* and failures never tear one.                                            *)
(***************************************************************************)
TornOnlyByErasure ==
    \A c \in consolidations : c.read = c.done =>
        /\ c.rows.indicators = RowsOf(c.rows.scrapes)
        /\ c.rows.items = ItemsOf(c.rows.scrapes)

(***************************************************************************)
(* The tracker is given only consolidations that were committed: after a   *)
(* failed save there is no Observe (consolidator.go:233-246).              *)
(***************************************************************************)
HeardWasSaved == \A k \in Keys : \A h \in heard[k] : h.id \in saved

Stale(h) == h.read < promised

(***************************************************************************)
(* How far an erasure can be outlived by what was in flight: in the        *)
(* database at most one scrape measured before it and one consolidation    *)
(* read before it, and in the tracker at most one consolidation read       *)
(* before the newest erasure that was answered with 200.  This rests on    *)
(* the order of the handler, first the database and then the tracker       *)
(* (experiment_reset.go:75-81).                                            *)
(***************************************************************************)
AtMostOneSurvivor ==
    /\ \A s, t \in scrapes : s.taken < s.gen /\ t.taken < t.gen => s.id = t.id
    /\ \A c, d \in consolidations : c.read < gen /\ d.read < gen => c.id = d.id
    /\ \A k, l \in Keys : \A h \in heard[k], i \in heard[l] :
           Stale(h) /\ Stale(i) => h.id = i.id

(***************************************************************************)
(* What experiment_reset.go:22-23 says: the reset clears both the database *)
(* and the trackers, for clean runs.  Nothing measured or read before the  *)
(* newest erasure that was answered with 200 is left.                      *)
(***************************************************************************)
CleanAfterReset ==
    /\ \A s \in scrapes : s.taken >= promised
    /\ \A c \in consolidations : c.read >= promised
    /\ \A k \in Keys : \A h \in heard[k] : ~ Stale(h)

SnapshotOf(s) == [id |-> s.id,
                  measured |-> [id |-> s.id, gen |-> s.gen] \in indicators,
                  items |-> {x.w : x \in {y \in items : y.id = s.id}}]

ReportOf(c) == [id |-> c.id, items |-> {x.w : x \in {y \in consolidated : y.id = c.id}}]

Snapshots == {SnapshotOf(s) : s \in scrapes}
Reports == {ReportOf(c) : c \in consolidations}
UsedIds == [snapshots |-> lastScrape, reports |-> lastConsolidation]

OpenScrapes ==
    IF scraper.pc \in {"indicator", "items"} THEN {s.id : s \in scraper.tx.scrapes} ELSE {}
OpenConsolidations == IF cycle.pc = "workloads" THEN {cycle.id} ELSE {}
OpenIds == [snapshots |-> OpenScrapes, reports |-> OpenConsolidations]

Store == INSTANCE AnalysisStore WITH
    snapshots <- Snapshots, reports <- Reports, usedIds <- UsedIds, openIds <- OpenIds

(***************************************************************************)
(* The tables implement AnalysisStore: whole snapshots and whole reports   *)
(* come and go in single steps (SaveSnapshot, SaveConsolidation and        *)
(* TruncateData, db.go).                                                   *)
(***************************************************************************)
ImplementsAnalysisStore == Store!Spec
=============================================================================
