# go-analyze: specifications and proofs

go-analyze measures how much of the CPU and memory that Kubernetes workloads request they
do not use. It scrapes Prometheus, stores snapshots in PostgreSQL, consolidates them over a
sliding window, and signals a workload whose waste stays above a threshold. This directory
holds TLA+ modules that model the program, TLC configurations that check them on small
instances and proofs that TLAPS checks for all instances. `PROJECT.json` says, definition
by definition, which lines of the source each one models.

## 1. The system

| component | state | operations | interacts with |
|---|---|---|---|
| tracker (`internal/notifications/sustained.go`) | per key: `above`, `firstAbove`, `lastValue`, `lastNotifiedAt`, `lastObservedAt`, under one mutex | `Observe`, `Reset`, `SnapshotState` | called by the consolidator and by the reset endpoint; calls the notifier under its lock |
| notifier (`notifier.go`) | three Prometheus series per key, a log | `Notify` | called by the tracker |
| scraper (`internal/scraper`) | none between cycles | `scrapeAndSave` per tick | calculator, `SaveSnapshot` |
| consolidator (`internal/consolidator`) | none between cycles | `consolidateAndSave` per tick | three reads, `SaveConsolidation`, then `Observe` for every key |
| store (`pkg/database/db.go`) | five tables, two id sequences | two saving transactions, six reads, `TruncateData` | every other component |
| reset endpoint (`internal/handlers/experiment_reset.go`) | none | `POST /api/v1/experiment/reset` | `TruncateData`, then `Tracker.Reset` |
| reading endpoints (`internal/handlers`) | none | indicators, consolidated, audit, workload details, health | store, calculator |
| calculator (`internal/metrics`) | none | `Calculate`: six parallel queries, then a merge | Prometheus client, observability filter |
| migrations (`pkg/database/migrations`) | `schema_migrations` | `Run` at the start of each binary | the same database, from several processes |
| binaries (`cmd`) | the wiring | start, shutdown | `cmd/main.go` runs everything in one process; `cmd/scraper` and `cmd/server` split it |
| harness (`tests/finops-eval/harness`) | `per_run.csv` | a resumable campaign of runs, each started by a reset | the HTTP endpoints |

What is hard about it:

* The scraper, the consolidator and the HTTP requests run at once. They share a database
  and a tracker, and no lock spans more than one statement, one transaction or one
  `Observe`. A reset can fall between any two of their steps.
* A consolidation is computed from three separate reads. What they saw need not have
  existed at one instant.
* Any statement may fail, a commit may succeed although its client sees an error, and the
  process may die anywhere. Shutdown does not wait for the goroutines
  (`cmd/main.go:157-175`).
* Transactions lock tables one after the other, in orders that nothing in the code
  coordinates, and several processes run them against one database.
* The same request parameter means a regular expression to Prometheus, a prefix to the handler
  and a `LIKE` pattern to PostgreSQL.
* The tracker must decide with five fields per key what is a property of the whole history:
  dips, silences longer than `maxGap`, cooldowns and resets come in any order.

What makes each component correct:

* **tracker**: it notifies exactly when the history of observations says so; its latency is
  bounded by `maxGap`; it does not repeat itself too soon.
* **store**: whole snapshots and whole reports appear and disappear in single steps.
* **consolidator**: a report is about the scrapes it counts, and the tracker is told only of
  reports that exist.
* **reset**: almost nothing of the old history survives, and what survives is bounded.
* **migrations**: every migration takes effect once, in order, however many processes start.
* **reading endpoints**: what they say about a moving history is never a false alarm.
  A page holds what belongs on it, and an answer in two parts is about one workload.
* **calculator**: usage is neither lost nor counted twice, whatever the order of a map.
* **all transactions together**: nothing that measures is the victim of a deadlock, and
  every transaction ends.
* **harness**: a campaign that was interrupted ends with one record per scenario and run.

The full list of hazards, each at its line, is in `PROJECT.json` under `hazards`.

## 2. The modules

### Tracker, and its specification SustainedAlert

`Tracker` models `sustained.go` and the notifier. `Observe` holds the mutex from before it
reads the clock until it has notified, and `Reset` takes the same mutex, so each is one
atomic action. `Observe` has four outcomes, one action each:

| action | lines of `sustained.go` |
|---|---|
| `ObserveBelow` | 79-83: not above the threshold, the run ends |
| `ObserveRunStart` | 85-89: the first value above it |
| `ObserveQuiet` | 91-97: the run goes on, too short or cooling down |
| `ObserveNotify` | 91-109: notify |

All four start from `Noted`, the record after the gap check of lines 72-76 (`AfterGap`).
A value matters only through the rule's comparator, so an observation is a Boolean. The
field `lastValue` is kept as `lastExceeds`, what the comparator made of it. The clock is
Go's monotonic clock. An absent map entry is the zero record, because that is what
`Observe` creates. `FreshStart` is `Reset` and also a restart of the process: both leave an
empty map, while the emitted notifications (`journal`) remain, as they do in the scraped
series. `history` is a verification variable, the observations since the last fresh start.

`SustainedAlert` is what the tracker promises, with no state but that history: an
observation raises an alert if and only if the run it ends started at least
`Required` before, at an earlier observation, and every earlier alert is at least
`Cooldown` old. A run is a stretch of exceeding observations without a silence longer
than `MaxGap`. The refinement mapping is the identity on `now` and `history`.

### Pipeline, and its specification AnalysisStore

`Pipeline` composes the scraper, the consolidator, the database, the reset endpoint and the
tracker of the combined binary. Each SQL statement is one step, at PostgreSQL's default
isolation READ COMMITTED.

| part | actions | code |
|---|---|---|
| scraper | `ScrapeStart`, `InsertScrape`, `InsertIndicator`, `InsertItem`, `CommitSnapshot`, `ScrapeFails` | `scrapeAndSave`, `SaveSnapshot` |
| consolidator | `CycleStart`, `ReadScrapes`, `ReadIndicators`, `ReadItems`, `InsertConsolidation`, `InsertConsolidated`, `CommitConsolidation`, `CycleFails`, `ObserveNext` | `consolidateAndSave`, `SaveConsolidation`, the three `Get...` |
| reset | `Truncate`, `ResetTracker` | `ExperimentResetHandler.ServeHTTP`, `TruncateData` |
| process | `Crash`, `Tick` | `cmd/main.go` |

Rows inserted by an open transaction are in the goroutine's `tx`. They move to the tables at
the commit, all at once, and are dropped by a failure or a crash. Ids come from sequences
that neither a rollback nor `TRUNCATE` (without `RESTART IDENTITY`) sets back. `TRUNCATE`
waits for open transactions that have inserted (`NoInsertsPending`): this is PostgreSQL's
table lock, modelled as an external fact. A commit or a `TRUNCATE` whose answer is lost is
the second disjunct of `CommitConsolidation` and of `Truncate`.

Numbers are abstracted to where they come from. A consolidation holds the rows its averages
were computed from (`rows`), so "the report is about these scrapes" can be said. The tracker
is reduced to `heard`: per key, the consolidations it was given since its last fresh start,
which is what `SustainedAlert` calls its history; key 0 stands for the two global
indicators, `w` for the two of workload `w`. `gen` counts the erasures, and every row
carries the generation in which it was inserted, which no query can see. `promised` and
`saved` are verification variables: the newest erasure that was answered with 200, and the
consolidations that were ever committed.

`AnalysisStore` is what the persistence layer promises: snapshots and reports appear whole
in one step, are erased together in one step, and never change. `Pipeline` implements it
under the mapping `Snapshots`, `Reports`, `UsedIds`, `OpenIds`: what is committed, how far the
sequences are, and which ids a transaction has taken and not yet committed or given up. `Audit`
and `Pages` use `AnalysisStore` as their environment.

### Migrations, and its specification SchemaLog

`Migrations` models binaries that start at once against one database: all three call
`Migrate` first and exit when it fails. A process is a record: `pc`, the next statement;
`todo`, the versions that its one read of `schema_migrations` did not show; `cur`, the
version in its open transaction.

| action | code |
|---|---|
| `Start`, `Finish` | `cmd/main.go:69-85`, likewise in `cmd/scraper` and `cmd/server` |
| `CreateTable`, `LoadApplied` | `migrate.go:49-56`, `74-89` |
| `RunSql`, `InsertVersion`, `Commit` | `applyOne`, one statement each |
| `Conflict` | the version was recorded by another process meanwhile: the statement fails, the transaction is rolled back, the process exits |
| `Fail` | any other failure, the 30 seconds of `Migrate`, or a crash; a commit may have succeeded |
| `Write` | a serving process writes to the history |

The guard of `InsertVersion` and `HistoryLocked` are what PostgreSQL does: an insert of a key
waits for another transaction's insert of the same key, and `TRUNCATE` keeps its lock until
its transaction ends. The other locks of a migration's statements are the subject of `Locks`:
all processes take the versions in the same order, so they do not get into each other's way,
but a process that serves already may, and then PostgreSQL aborts one of the two, which is
`Fail` here.
The effect of a version is that it took effect (`schema`) and, for a version in `Wipes`
(`0007_cpu_memory_only.sql`), that the history is gone. Processes of an earlier release that
still serve while a new one migrates are not modelled.

`SchemaLog` promises that each version takes effect once, in order, in one step, and that the
history is written only on the complete schema. `applied` is mapped to `recorded`.

### Locks

The transactions of all components, reduced to the table locks that their statements take.
A session is a connection: the scraper's, the consolidator's, that of a request, that of a
process that starts. `plan` is what it has still to lock, in the order in which its
statements name the tables; `held` is what it has locked; `queue` is who waits for a table.

| definition | code |
|---|---|
| `SnapshotLocks`, `ConsolidationLocks` | `SaveSnapshot`, `SaveConsolidation`: one insert after the other in one transaction |
| `DetailsLocks` | `GetLastWorkloadSnapshots`, the only statement that reads two tables |
| `ReadLocks` | every other read |
| `EraseLocks` | `TRUNCATE scrapes, consolidations CASCADE` of the reset and of migration 0007 |
| `ExtendLocks`, `CpuMemoryLocks` | the transactions of migrations 0006 and 0007 |
| `Begin`, `Commit`, `Fails` | `BeginTx`, `Commit`, and every early return with its deferred `Rollback`, a timeout, a crash |
| `Request`, `Grant`, `DeadlockAborts` | PostgreSQL (external): who waits is served in turn, and a circle is broken by aborting one of its sessions |

Reads and inserts are compatible with each other; `TRUNCATE` and `ALTER TABLE` with nothing.
Migrations 0001 to 0005 create the tables and lock nothing that somebody else uses.

### Cadence

`Cadence` extends `Tracker` with the loop that drives it, `Consolidator.Start`, on the clock that the
tracker reads. A Go ticker is a channel that holds one tick (`ticked`) and an instant at which
the next one comes (`nextTick`); a tick that finds the channel full is dropped (`PassDeliver`).

| action | code |
|---|---|
| `CycleStarts`, `CycleEnds` | `consolidator.go:43-60` |
| `CycleReads` | the reads and the grouping; keys that are in no scrape of the window are missed |
| `CycleMisses` | an error, or nothing to consolidate: `consolidator.go:83-109`, `233-237` |
| `CycleObserves` | `consolidator.go:247-261`, one key after the other in any order, each one of the four outcomes of `Tracker` |
| `Reset`, `Restart` | `experiment_reset.go:81-88`; a new process, whose ticker starts anew |
| `Flip`, `Pass` | a workload's condition changes; time passes |

`MaxCycle` bounds the time a cycle takes. Nothing in the code bounds it (the context of the loop has
no deadline), so this is an assumption on PostgreSQL. `since` and `missed` are verification
variables: since when a condition holds without interference, and how many cycles in a row
did not observe the key.

### Audit

One request of `GET /api/v1/audit` with `AnalysisStore` as its environment. `LoadScrapes`,
`LoadIndicators`, `LoadItems` are the three reads, `Respond` the judgement (`Judge`) from what was
read, `Fails` an error or the 20 seconds. A workload has what was requested and used in a unit
finer than the columns in which its items are stored (`Stored`), because the totals were
computed before storing and the audit computes after it. There is one resource with a price
of 1 that does not change between measurement and audit; the rounding of costs to four
decimals is the same on both sides and left out.

### Paging, and Indicators

`Paging` is the page arithmetic that two endpoints share: `clampPagination`, the number of pages, the
offset, and the slice of `indicators.go:95-109`, on an `int` that wraps around at `IntSize`. A query parameter
that is absent is `<<>>`; one that does not parse or is not positive has the same effect and is `<<0>>`.

`Indicators` composes it with `Calculator`: one request of `GET /api/v1/indicators`, which calculates and
answers with one page of the items or with 502. The items are sorted, so a page is an interval of their
indices.

### Pages

A client that walks through `GET /api/v1/consolidated`, with `AnalysisStore` as its environment.
`Count`, `Select` and `LoadItems` are the statements of a page, `Answer` computes `hasNext`, and
`NextPage` follows it. `RowNumber` is the place of a report in the order of the `SELECT`, of which `LIMIT` and `OFFSET` name an interval. Instants are ids: the one consolidator gives its reports ids and instants in the
same order. The filter is the interval from `since` to `until`. With `end_at` it stays; with a period, or a `start_at`
alone, it ends when the request comes (`ParseDateFilters`), so `NextPage` may move both of its ends. Whether a report
whose cycle is running is before or after that end is open (`NextMayHaveBegun`). A `start_at` next to an
`end_at` only cuts off the oldest reports and is left out. `AnyPage` asks for a page by its number, up to
`MaxInt`; an offset that wraps around to a negative number makes the statement fail, one that wraps around to another number selects
reports of another page. `at`, `seen`, `saves`, `late`, `erased` and `saved`
are verification variables about the walk.

### Details

One request of `GET /api/v1/workloads/details` after the other, while the clock goes on, consolidations are saved and the
history is erased. Names are sequences of characters, because the one parameter `pod` is read in three ways:

| definition | code |
|---|---|
| `LiveSelects` | `labelMatchers`: a regular expression, quoted, `%` as `.*`, a prefix if there is no `%` |
| `PodPrefixMatch` | `podPrefixMatch`: what comes before the first `%` is a prefix |
| `LikeSelects` | `w.pod LIKE $3`, a prefix if there is no `%`; an underscore is any character |
| `FirstOf` | the loop over the sorted items up to its `break` |
| `ParseDateFilters`, `Limit`, `NewestRows` | the dates, the default limit that applies only without them, `ORDER BY ... LIMIT` |

`CalculationFails` is not an error of the request: the handler logs it and answers without current values. `Matches`
stands for what PostgreSQL and Prometheus do with such patterns (external): there is a way to cut the name into as many
pieces as the pattern has characters, in order, of which each wildcard takes any and each other character its equal. A backslash escapes in
`LIKE` what comes after it: parameters with one are left out (`AskedAssumption`). The points of a history are a set: which they are is
modelled, the order in which they are listed is not.

### Calculator

`Calculate` for one resource. `QueryEnds` is a goroutine of `parallelInstant`, in any order;
`Index` is everything up to the merge: `world` is what Prometheus has, `Queried` what the queries of a caller
that may have named a container select, `Indexed` what the observability filter leaves.
`mergeUsageProportional` ranges over the map that it
changes, so `todo` holds the keys the range may still yield: `Visit` takes any of them, and a key
that is inserted may be added to `todo` or not, as the Go specification leaves open. Values
are multiples of a unit that makes every division exact; the order in which floats are added is
left out. A namespace and a pod in the request select whole pods and change nothing for the rest.

### Campaign

The harness that runs the experiment, as a program that is interrupted, killed and started again.
`pc` follows `main`, `run_one` and `write_outputs`; exceptions take Python's paths.

| action | code |
|---|---|
| `Start`, `Skip`, `Begin` | `run.py:196-218`; with or without `--no-resume`; the shuffled schedule is any order |
| `Prepare`, `Apply`, `Applied`, `Measure` | the body of the `try` in `run_one`; `Apply` and `Applied` are the two halves of line 90 |
| `Raise`, `Delete`, `Wait` | any exception in it, and the `finally` |
| `Record`, `WriteRuns`, `WriteSummary` | `run.py:219-229`, `178-193` |
| `CtrlC`, `Kill`, `LeftoverGoes` | the environment; the pod of another round may go at any time, because its deletion was pending or the operator deletes it |

What a round measures is a free verdict (`Measure`): valid or invalid, notified or not. A record that
was read from the CSV carries `text`, because its fields are strings.

## 3. The runs

| run | instance | shows |
|---|---|---|
| `tracker` | 1 key, required 3, cooldown 4, gap 2, clock to 7, 6 observations | `StateSummarisesHistory`, `ImplementsSustainedAlert`, `LatencyBounded`, `AlertsSpaced` hold |
| `pipeline` | 1 workload, 2 requests, clock to 1, 2 scrapes, 2 consolidations, 2 erasures | `SnapshotsWhole`, `ReportsWhole`, `TornOnlyByErasure`, `ReadsOfOneSelection`, `HeardWasSaved`, `AtMostOneSurvivor`, `ImplementsAnalysisStore` hold |
| `pipeline_clean` | 1 workload, 1 request | a counterexample to `CleanAfterReset` |
| `migrations` | 3 processes, 3 versions of which the last wipes, history up to 2, 2 faults | `VersionsTellTheTruth`, `ReadyMeansComplete`, `WrittenHistoryKept`, `ImplementsSchemaLog`, `AllGetReady` hold |
| `cadence` | 1 key, required 3, cooldown 3, gap 4, interval 2, cycles up to 2, clock to 12, 3 faults, 1 flip | `HeardInTime`, `SignalledInTime`, `NoAlertAfterBlindness` hold |
| `audit` | 2 workloads, 3 snapshots | `NoFalseDivergence`, `CompleteUnlessErased` hold |
| `locks` | 5 sessions: scraper, consolidator, a reading and a resetting request, a process that migrates | `SavesOutOfCircles`, `OneDeadlock`, `TransactionsEnd` hold |
| `pages` | pages of 2, 5 reports, an `int` of 4 bits | `RowsWhole`, `MissesOnlyLate`, `RepeatsBounded`, `ExistingPageShown` hold |
| `details` | 3 pods, 5 patterns, 5 filters, 3 limits, clock to 2 | `ExactPodFirst`, `PartsAgree`, `NewestRowsShown` hold |
| `calculator` | 3 queries, a pod with 2 containers and a hidden one and a pod with 1, all containers or one, an `int` of 5 bits | `UsageConserved`, `OrderIrrelevant`, `AskedIsPartOfAll`, `PageIsRight` hold |
| `campaign` | 2 scenarios, 1 repetition, 3 sessions, 1 Ctrl-C, 1 kill, 1 failed `kubectl get` | `OneRecord`, `ResultsKept`, `FinishedIsComplete`, `IsolatedUnlessBlind`, `SummaryOfValidRuns` hold |
| `campaign_summary` | the same | a counterexample to `SummaryAgrees` |

**Bounds.** `MaxTime`, `MaxObs`, `MaxScrapes`, `MaxConsolidations` and `MaxGen` occur only as
guards on what counts up. In `tracker`, a clock to 7 is long enough for a run that reaches
`Required` and notifies, cools down and notifies again, and for a gap that breaks a run
before or after the first alert. In `pipeline`, two scrapes with a window of 1 make both a window with one
scrape and a window with two; two requests and two erasures let a cycle in flight at the first
erasure be followed by another in flight at the second. One workload is enough to tell
totals from items and a header from its rows; that several workloads, or several keys of the
tracker, change nothing is what the proofs add.

In `migrations`, three processes let two lose to the same winner at different statements, and
two faults let a transaction be lost once before and once after the commit. Every database
that an earlier release may have left (the first n versions, any history) is an initial
state.

In `cadence`, the clock passes `Required + 2 * (Stride + MaxCycle)` = 11, and `MaxGap` is twice the interval as in
`cmd/main.go:108`; `MaxCycle` = `Interval` is the largest for which `SignalledInTime` says anything, and
three faults let enough cycles miss the key for `NoAlertAfterBlindness` to apply. In `audit` a workload wastes a quarter of a core and another a quarter of a millicore, so
that one scrape is far above and one below what rounding can do. In `locks` there is one session of each kind that can hold a lock while it waits. A second one of the same
kind takes its locks in the same order and adds no new circle of kinds; it only makes the run longer. In `pages` five reports fill
three pages, and a save can move a report over the edge of each; the offsets 8, 10 and 12 of its higher pages
wrap around in four bits to negative numbers, which are refused. It takes pages of three or more to wrap around further: that a page which
exists meets neither is proved for every page size and width of `int`. In `details` one pod's name is a prefix of another's and a third one
shares its end, the patterns have a wildcard in the middle, an underscore, or neither, and three instants give histories longer than both
limits. In `calculator` the usage 12 divides by the sums of
weights that occur, requests may be 0 (which makes the limits count), and each query may be
missing a workload; pages and page sizes include 0, what overflows, and the largest `int`. In `campaign` three sessions allow an interrupt, a kill and an end; two
scenarios, one of each label, allow a leftover pod next to another scenario.

Deadlock of the model is checked in the runs of the tracker, the pipeline, the cadence, the audit, the pages, the details and the locks. A goroutine that has used its
bound up can still fail or crash, so none occurs. The runs of the migrations turn the check off,
because "all processes serve, the history and the faults are at their bounds" is the
intended end; that nothing else is an end is what `AllGetReady` shows. `calculator` turns it off because
a calculation ends, and `campaign` because nobody has to run the command again.

The type invariants are not among the runs' properties, nor is `WalkWithoutHoles` of Pages, because all of them are proved.

**Fairness.** `AllGetReady` and `TransactionsEnd` need it. For the first, `WF_vars(Migrate(p))` for every process. A statement that
PostgreSQL can execute is executed, and a process that exited is started again: the recorded
deployment has `restartPolicy: Always` (`tests/finops-eval/results/cluster-objects.yaml:67`).
Faults are not fair, and there are finitely many. For the second, weak fairness of each session's next
step and of the deadlock detector: a goroutine goes on with its transaction, PostgreSQL grants what it can grant in the order
of the queue, and it looks for circles whenever somebody has waited for `deadlock_timeout`. Nobody has to begin a transaction, and
that the queue is served in turn is what keeps a reset from starving among saves. Everything else is a safety property. That a lasting
waste is signalled is one too: `SignalledInTime` says until when, on the clock. The model's clock
stops for a goroutine that can run (`Pass`), which is the assumption that the scheduler is faster than the
interval.

**The divergences.**

* `CleanAfterReset`: the reset handler says that it clears the database and the trackers for
  clean runs. A scrape (or a consolidation) in flight survives it. What does hold is
  `AtMostOneSurvivor`.
* `SummaryAgrees`: after a resumption `summary.csv` counts an earlier TN as FP and an earlier FN as TP, because
  `bool("False")` is true. What does hold is `SummaryOfValidRuns`: the number of rounds is right, and the
  classes are in a campaign that was not resumed.

Met while modelling, and no run of their own:

* The audit says that it recomputes "from the same raw inputs" (`audit.go:22-24`). It recomputes from
  columns rounded to 0.0001 cores, so a waste of a fraction of a millicore is judged
  to diverge. What does hold is `NoFalseDivergence`: the error is at most one last decimal per item.
* "`Ctrl-C` is safe" (`tests/TEST_SETUP.md:81`): during `kubectl apply` it leaves the pod, because `deployed` is still
  False (`run.py:90`), and the error of the wait in `finally`
  takes the place of the interrupt. What does hold is `IsolatedUnlessBlind`: no later round is measured
  next to it unless a `kubectl get` fails, too.
* The limit of the workload details is documented as 10 by default (`workload_details.go:94`). With dates or a period there is no
  limit at all, as a test wants it (`workload_details_test.go:80-111`), and a `limit` that does not parse brings
  the 10 back. `last_10_consolidations_count` counts rows, and a consolidation has one row for each pod that
  the prefix selects.
* A page of the consolidations beyond the last one is answered with an empty list, unless its offset wraps around: then with 500, because PostgreSQL
  refuses a negative `OFFSET`, or with the reports of another page and a `page` that is greater than `totalPages`
  (`consolidated.go:55`). What does hold is `ExistingPageShown`: no page that exists is affected.
* `SavesOutOfCircles` has an exception. Migration 0006 locks the consolidated workloads before the consolidations,
  `SaveConsolidation` and migration 0007 the other way round. If binaries start together on a fresh database, a process whose view
  of `schema_migrations` is old may still run 0006 while another one serves: PostgreSQL then aborts one of the two,
  a cycle of the consolidator or a start.
* `OneDeadlock` is a real one: a reset that meets a read of the workload details is answered with 500, or the read
  is. The harness records the former as an error of the round and runs it again after a resumption.

Two things the runs of the cadence assume are worth knowing. One failed cycle together with a slow one can
open a silence longer than `maxGap`, and then a run starts anew: that is why `SignalledInTime` speaks of a condition
without interference. And cycles that take longer than twice the interval make the
gap rule break every run, so that nothing is ever signalled.

The cooldown is no divergence but has a limit worth knowing: `Reset` and a restart forget `lastNotifiedAt`, so a
key whose required duration is shorter than the cooldown may be notified again within it. `AlertsSpaced` says
what holds: two notifications of a key are never closer than the shorter of the two durations,
because `firstAbove` is forgotten too.

## 4. The proofs

Eight modules hold theorems about every value of the constants: `TrackerProofs` (Tracker and Cadence), `PipelineProofs`,
`MigrationsProofs`, `LocksProofs`, `CampaignProofs`, `PagesProofs`, `DetailsProofs` and `AccountingProofs` (Calculator,
Indicators and Audit). They start from the named assumptions of the modules they are about, which say no more than
what the constants are:

* durations, intervals, bounds and numbers of versions are natural numbers, workloads positive numbers
  (Tracker, Cadence, Pipeline, Migrations);
* the scenarios and the repetitions of a campaign are finite;
* a page has from 1 to `MaxPageSize` items, and an `int` can count the reports (`MaxIdsAssumption` of Pages); how many
  values an `int` has is free;
* names are sequences of numbers, no pod's name has a wildcard in it, no parameter has a backslash, there are finitely many pods, and the default limit
  is at most the greatest one (Details);
* Prometheus knows finitely many workloads, no container's name is empty, and the empty name is not hidden; usages, requests and limits are natural numbers of a unit in which every share is whole (Calculator);
* page parameters are values of an `int`, which can count the items and a page more (Indicators);
* there are finitely many workloads, what they request and use are natural numbers, and a column's last decimal is at
  least one unit (Audit).

| theorem | states |
|---|---|
| `TrackerProofs!TypeCorrect` | `Spec => []TypeOK` |
| `TrackerProofs!RecordsSummarise` | `Spec => []StateSummarisesHistory` |
| `TrackerProofs!TrackerRefines` | `Spec => ImplementsSustainedAlert` |
| `TrackerProofs!AlertsPrompt` | `Spec => []LatencyBounded` |
| `TrackerProofs!NotificationsSpaced` | `Spec => AlertsSpaced` |
| `TrackerProofs!CadenceTypeCorrect` | `CadenceSpec => []CadenceTypeOK` |
| `TrackerProofs!LoopDrivesTracker` | `CadenceSpec => Spec` (of Tracker) |
| `TrackerProofs!KeysHeardInTime` | `CadenceSpec => []HeardInTime` |
| `TrackerProofs!ConditionsSignalled` | `CadenceSpec => []SignalledInTime` |
| `TrackerProofs!BlindnessIsQuiet` | `CadenceSpec => NoAlertAfterBlindness` |
| `PipelineProofs!TypeCorrect` | `Spec => []TypeOK` |
| `PipelineProofs!SnapshotsStayWhole` | `Spec => []SnapshotsWhole` |
| `PipelineProofs!ReportsStayWhole` | `Spec => []ReportsWhole` |
| `PipelineProofs!OneSelection` | `Spec => []ReadsOfOneSelection` |
| `PipelineProofs!OnlyErasuresTear` | `Spec => []TornOnlyByErasure` |
| `PipelineProofs!OnlySavedIsHeard` | `Spec => []HeardWasSaved` |
| `PipelineProofs!FewSurvivors` | `Spec => []AtMostOneSurvivor` |
| `PipelineProofs!PipelineRefinesStore` | `Spec => ImplementsAnalysisStore` |
| `MigrationsProofs!TypeCorrect` | `Spec => []TypeOK` |
| `MigrationsProofs!VersionsStayTrue` | `Spec => []VersionsTellTheTruth` |
| `MigrationsProofs!ReadyIsComplete` | `Spec => []ReadyMeansComplete` |
| `MigrationsProofs!HistoryIsKept` | `Spec => WrittenHistoryKept` |
| `MigrationsProofs!MigrationsRefineLog` | `Spec => ImplementsSchemaLog` |
| `LocksProofs!TypeCorrect` | `Spec => []TypeOK` |
| `LocksProofs!SavesNeverVictims` | `Spec => []SavesOutOfCircles` |
| `LocksProofs!OnlyOneDeadlock` | `Spec => []OneDeadlock` |
| `CampaignProofs!TypeCorrect` | `Spec => [](TypeOK /\ PlacesOK /\ FiniteOK)` |
| `CampaignProofs!RecordsAreUnique` | `Spec => []OneRecord` |
| `CampaignProofs!EveryRoundRecorded` | `Spec => []FinishedIsComplete` |
| `CampaignProofs!MeasuredAlone` | `Spec => []IsolatedUnlessBlind` |
| `CampaignProofs!ResultsAreKept` | `Spec => ResultsKept` |
| `CampaignProofs!SummaryCountsValidRuns` | `Spec => []SummaryOfValidRuns` |
| `PagesProofs!PagesTypeCorrect` | `PagesSpec => []PagesTypeOK` |
| `PagesProofs!PagesShowWholeReports` | `PagesSpec => []RowsWhole` |
| `PagesProofs!WalksMissOnlyLate` | `PagesSpec => []MissesOnlyLate` |
| `PagesProofs!WalksRepeatOnlyForSaves` | `PagesSpec => []RepeatsBounded` |
| `PagesProofs!WalksLeaveNoHole` | `PagesSpec => []WalkWithoutHoles` |
| `PagesProofs!ExistingPagesAreFilled` | `PagesSpec => []ExistingPageShown` |
| `DetailsProofs!TypeCorrect` | `Spec => []TypeOK` |
| `DetailsProofs!ExactPodShown` | `Spec => []ExactPodFirst` |
| `DetailsProofs!PartsAlwaysAgree` | `Spec => []PartsAgree` |
| `DetailsProofs!NewestAlwaysShown` | `Spec => []NewestRowsShown` |
| `AccountingProofs!CalculatorTypeCorrect` | `IndicatorsSpec => []CalculatorTypeOK` |
| `AccountingProofs!NoUsageLost` | `IndicatorsSpec => []UsageConserved` |
| `AccountingProofs!OrderDoesNotMatter` | `IndicatorsSpec => []OrderIrrelevant` |
| `AccountingProofs!AskedForOne` | `IndicatorsSpec => []AskedIsPartOfAll` |
| `AccountingProofs!PagesAreRight` | `IndicatorsSpec => []PageIsRight` |
| `AccountingProofs!AuditTypeCorrect` | `AuditSpec => []AuditTypeOK` |
| `AccountingProofs!NoFalseAlarm` | `AuditSpec => []NoFalseDivergence` |
| `AccountingProofs!OnlyErasuresHide` | `AuditSpec => []CompleteUnlessErased` |

**The tracker.** `StateSummarisesHistory` is inductive together with `TypeOK`: the five fields
are determined by the history. The refinement follows from it. At an observation, "`above`
after the gap check" is the same as "the run before it continues", and `firstAbove` is where
that run started, so the guards of `ObserveNotify` are the two conjuncts of `Due`. For
`NotificationsSpaced` the proof adds that a run that started after a fresh start started
after the last emission in the journal.

For `AlertsPrompt`, look at the observation before an alert (`Prompt`). Unless it raised one itself or the cooldown held
it back, the run, if it had started by then, was still shorter than `Required`; and it is joined to the alert's
observation by at most `MaxGap`. `LatencyInv` remembers that every observation was justified by its past.

**The loop.** `LoopDrivesTracker` says that every step of the loop is one of the tracker or leaves it alone, so what is
proved of the tracker holds under the loop. The rest is arithmetic about when cycles start:

* `PaceInv`: a cycle ends within `MaxCycle`, the next one starts within a stride of it, and a tick that is awaited comes
  within one interval of the last start.
* `HeardInv`: how long ago a key was heard of, counted in the cycles that missed it.
* `SteadyInv`: once a whole cycle fell into the time in which nothing interferes with a condition, its key is in a run
  (`SteadyRun`), and a run whose last observation found it long enough was notified within the cooldown (`RunSignalled`).
* `BlindInv`: cycles no longer than the interval start with the ticks (`Aligned`), so missing enough of them makes a
  silence that the gap rule sees.

**The pipeline.** None of its properties is inductive as it stands, because the rows of an
open transaction are not yet in the tables.

* `SnapshotInv` says of the scraper's transaction what `SnapshotsWhole` says of the tables,
  up to the items that are `left`, and that ids in the tables and in the transaction are
  below the sequence. `ReportInv` is the same for the consolidator.
* `ReadInv` relates what a cycle has read to the tables while no erasure has fallen in
  between (the generations agree). It rests on `ScrapeIdInv`: an id names one scrape for
  ever. That is why `TRUNCATE` must not restart the sequences.
* `HeardInv`: a cycle that observes has saved.
* `SurvivorInv`: what is stale is in flight in one goroutine, or in the tables once, and never
  both. `PromisesKept` ties the generation of an answered request to `gen`. The order of the
  handler, database first, is what makes the step of `ResetTracker` preserve it.
* The refinement uses `SnapshotInv`, `ReportInv` and `ReportIdInv`: a commit is `AddSnapshot` or
  `AddReport`, an insert of a header takes an id, `Truncate` erases, and the rest stutters.

**The migrations.** `MigrationInv` adds to the properties what a process knows: whatever it has not to
do is recorded, the version in its transaction is the first it has to do, and no two
transactions have inserted the same version (`OneHolder`). So a version that is about to be
committed is not recorded, and everything before it is; the commit is a step of the log, and a
repeated `TRUNCATE` cannot commit. Two lemmas carry the steps: `RecordsNothing` for a process
that changes only its own record, `RecordsOne` for a commit, whether or not the process
learns of it.

**The locks.** `LockInv`: what a session holds is what its plan has passed (`AtPlace`), nobody waits twice for a table
(`WaitsOnce`), and two sessions that hold a table do not exclude each other (`Excluded`). Three facts about circles carry the theorems.
Who excludes nobody and holds nothing that another one waits for can be taken out of a circle, so it is in none
(`ClosesWithout`). Nobody in a circle waits for `scrapes`, the first table of every plan that has it (`NobodyAtScrapes`). And
who excludes others holds, when it waits for a later table, all that comes before it in its plan, so a save that already holds an
earlier table cannot meet it, unless its plan has the other order, as migration 0006 has.

**The campaign.** `IInv` carries, next to the types, what a resumed process has to know about the earlier ones: a round
has one record in `runs` (`OneRun`) and one in the file (`OneRecord`), a run with a verdict is of a round that is neither
the current one nor pending, unless the start found it completed (`DecidedIsPast`), a decided record of the file is in `runs`
once the campaign resumed (`Carried`), every round is pending, current or recorded (`Accounted`), the file is the list once it is written (`Written`), and unless a `kubectl get` failed, the
namespace is empty when a scenario is applied (`Isolated`).

**The walk through the pages.** `Number(S, i)` is a report's place in the order of the `SELECT`, and all arithmetic is about how a save or
an erasure moves it. `PagesInv` says what is in the tables (`StoreInv`), where the request is (`RequestInv`), that a page's
rows are one interval of places (`RowsInv`), and what the walk has shown (`ShownInv`). Of the rows it may show again,
`RepeatsInv` bounds, by the number of saves, the sum of those it has repeated, those already shown that a save has moved behind the
place where it goes on, and the reports that a moving filter has still to admit; a bound on the first alone is not inductive.
`MissesInv` says that what the walk has not shown yet of what was there is behind the place where it goes on. `WalkWithoutHoles` follows from it: what is newer than
a row of the page, and not shown before, is between that place and the row, so it is on the page, too.

That a page which exists is the right one (`ExistingPagesAreFilled`) has a numeric and a counting part. A page up to `totalPages` begins
before the end of what was counted, and an `int` can count the reports, so its offset does not wrap around (`OffsetFits`). While the
page is read, the rows in the table are those counted and those saved since (`MissesInv`), and the rows of an interval of places
are as many as the places that are taken (`FillInv`, from `Counted`).

**The details.** `DetailsInv` ties the current value to `FirstOf` of what the live pattern selects (`Live`), the bounds to the dates that were asked
for (`Bounded`), and the points to the newest rows (`Answered`). The properties then follow from lemmas about names and patterns:
a name that the live pattern selects is selected by `LIKE` and by the handler's prefix, too, without an underscore `LIKE`
selects no more than the live pattern, and a name precedes all others of which it is a prefix.

**The calculator.** A pod's total is either there and no container has got a share of it, or it is gone and every
container that has a weight has its share (`MergeInv`: `Undivided` or `Divided`); a total that the range has already passed
has nobody to be divided among (`RangeInv`). Whatever order the range takes, and whether or not it yields what
is inserted meanwhile, the same map is left. That the shares add up (`NoUsageLost`) is a lemma about sums. A request
that names a container selects no pod's total, so nothing is divided (`AskedForOne`).

**The audit.** `AuditInv`: only ids are read whose transactions are over, so no snapshot appears under them any more (`HistoryInv`, `StepInv`), a total that was read is of a
snapshot with these items (`TotalsInv`, `WholeInv`), and the items that were read of an id are all of a snapshot or, after an
erasure, none (`ItemsInv`). Rounding moves a value by at most half of the last decimal, so an item's cost by at most one,
and the sum by at most one per item (`NoFalseAlarm`).

**Sums and induction.** The library's induction theorems cannot be instantiated here. Where a proof needs induction, it
is over sets: the numbers, or the subsets of a finite set, for which a statement fails would have a least member (`LeastExists`,
`AllNumbers`, `AllSubsets`). `SumFunction` of the community modules is unfolded from its `CHOOSE` definition once, and every later lemma about sums
rests on adding one element.

**Only model-checked.** `AllGetReady` and `TransactionsEnd`: they are liveness under fairness, which needs `ENABLED` and is out of
the prover's reach. The two runs with a counterexample have nothing to prove. Every other property of
every run is a theorem above.

## 5. What is not modelled

* The numbers: ratios, averages, costs and rounding, except where `Audit` and `Calculator` are about
  them. Elsewhere they influence the control flow only through the comparator, which is a free choice.
* The Prometheus client, the wording of the PromQL queries, telemetry,
  configuration, HTTP routing and the generated API documentation: pure I/O, stateless
  predicates or values that the models take as constants. Of the observability filter there is what it hides, not
  how it compares names.
* Authorisation of the reset: a refused request changes nothing.
* A database that loses committed data, or a system clock that jumps (`scraped_at` is a wall
  clock; the model's clock never goes back).
* Row locks and the locks of indexes: two savers insert different rows, and there is one consolidator.
  Two processes that both run a scraper or a consolidator are not a deployment the repository has.
* The instants at which the six queries of a calculation are evaluated: their answers are free inputs.
* The active-record methods in `pkg/database/entities`, which nothing calls.

## 6. Plan

The modules were written in this order: Tracker, Pipeline, Migrations, then Cadence, Audit, Pages, Calculator and Campaign, which build
on the first two or stand alone, then Locks, Paging, Indicators and Details. The proofs followed: Tracker, Pipeline and Migrations with
their refinements, then the campaign, the latency of the tracker, the locks, the loop, the details, the pages, and
the two modules about sums. What is left:

1. The abstract specification of one request for the indicators: the calculator and its page as one step that answers for what Prometheus
   has, which `Indicators` would implement.
2. `Calculator` with both resources and the items: waste and costs on scaled integers, the totals against the sum of
   the items.
