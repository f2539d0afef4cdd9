------------------------------- MODULE Pages -------------------------------
(***************************************************************************)
(* A client that walks through the pages of GET /api/v1/consolidated       *)
(* (internal/handlers/consolidated.go) while consolidations are saved and  *)
(* erased.  The environment is AnalysisStore with one consolidator.  A     *)
(* page takes several statements: COUNT, SELECT with LIMIT and OFFSET      *)
(* (pkg/database/db.go:281-352), and one for the items of each row.  The   *)
(* client follows hasNext, as the answers tell it to, or names a page.     *)
(*                                                                         *)
(* Reports are ordered by consolidated_at, newest first.  There is one     *)
(* consolidator, so their ids have the same order.                         *)
(***************************************************************************)
EXTENDS AnalysisStore, FiniteSets, Paging

CONSTANTS
    PageSize,   \* what clampPagination makes of the request
    MaxIds      \* bound of the identities

ASSUME PageSizeAssumption == PageSize \in 1..MaxPageSize
\* Identities and numbers of rows are 64 bits wide, as an int is.
ASSUME MaxIdsAssumption == MaxIds \in 0..MaxInt

VARIABLES
    pc,         \* of the request
    moving,     \* the filter names a period, which ends when the request comes
    since,      \* the first id that the filter admits
    until,      \* the last one
    page,
    total,      \* totalItems
    rows,       \* ids of the page whose items are not loaded yet
    content,    \* the response: set of [id, items]
    at,         \* verification only: what was there when the walk began
    seen,       \* verification only: per id, how often the walk has shown it
    saves,      \* verification only: saves in the filter's range since the walk began
    late,       \* verification only: those of them since the last COUNT
    erased,     \* verification only: the history was erased since the walk began
    saved       \* verification only: every report that was ever there

filter == <<moving, since, until>>
request == <<pc, filter, page, total, rows, content>>
ghosts == <<at, seen, saves, late, erased, saved>>
pagesVars == <<vars, request, ghosts>>

InRange == {r \in reports : r.id \in since..until}
IdsOf(R) == {r.id : r \in R}

-----------------------------------------------------------------------------
PagesInit ==
    /\ Init
    /\ pc = "idle" /\ page = 1 /\ total = 0
    /\ moving = FALSE /\ since = 1 /\ until = 0
    /\ rows = {} /\ content = {}
    /\ at = {} /\ seen = [i \in 1..MaxIds |-> 0] /\ saves = 0 /\ late = 0
    /\ erased = FALSE /\ saved = {}

\* One consolidator: it has one transaction at a time.
Environment ==
    /\ \/ openIds.reports = {} /\ usedIds.reports < MaxIds /\ TakeReportId
       \/ openIds.reports # {} /\ GiveUp
       \/ AddReport
       \/ Erase
    /\ LET new == reports' \ reports
       IN  /\ saves' = saves + Cardinality({r \in new : moving \/ r.id <= until})
           /\ late' = late + Cardinality({r \in new : r.id \in since..until})
    /\ erased' = (erased \/ (reports # {} /\ reports' = {}))
    /\ saved' = saved \cup reports'
    /\ UNCHANGED <<request, at, seen>>

\* ParseDateFilters: an end, or a period up to now.  Ids and instants have the same order; now
\* admits every id that has been taken, and the next one if its cycle has begun.
FilterIsEnd == moving' = FALSE /\ since' = 1 /\ until' \in 1..MaxIds

NextMayHaveBegun == openIds.reports = {} /\ usedIds.reports < MaxIds
PeriodAfter(first, last) ==
    /\ moving' = TRUE
    /\ since' \in first..(usedIds.reports + 1)
    /\ until' \in {usedIds.reports} \cup (IF NextMayHaveBegun THEN {usedIds.reports + 1} ELSE {})
    /\ until' >= last

Asks ==
    /\ pc = "idle"
    /\ FilterIsEnd \/ PeriodAfter(1, 0)
    /\ pc' = "count"
    /\ seen' = [i \in 1..MaxIds |-> 0]
    /\ saves' = 0 /\ late' = 0
    /\ erased' = FALSE
    /\ UNCHANGED <<vars, total, rows, content, saved>>

\* The first request of a walk.
FirstPage ==
    /\ Asks
    /\ page' = 1
    /\ at' = {r.id : r \in {q \in reports : q.id \in since'..until'}}

\* A page that is not the next of a walk: nothing is promised to be on it.
AnyPage ==
    /\ Asks
    /\ page' \in 2..MaxInt
    /\ at' = {}

HasNext == page < TotalPages(total, PageSize)

NextPage ==
    /\ pc = "answered"
    /\ HasNext
    /\ page' = page + 1
    /\ IF moving THEN PeriodAfter(since, until) ELSE UNCHANGED filter
    /\ pc' = "count"
    /\ UNCHANGED <<vars, total, rows, content, ghosts>>

\* SELECT COUNT(*)
Count ==
    /\ pc = "count"
    /\ total' = Cardinality(InRange)
    /\ late' = 0
    /\ content' = {}
    /\ pc' = "select"
    /\ UNCHANGED <<vars, filter, page, rows, at, seen, saves, erased, saved>>

\* The number of a row in ORDER BY consolidated_at DESC.
RowNumber(i) == Cardinality({j \in IdsOf(InRange) : j >= i})

SelectedWithoutOffset(offset, limit) ==
    {i \in IdsOf(InRange) : RowNumber(i) <= limit}

\* LIMIT pageSize OFFSET (page - 1) * pageSize
Selected(offset, limit) ==
    {i \in IdsOf(InRange) : RowNumber(i) \in (offset + 1)..(offset + limit)}

\* PostgreSQL refuses a negative offset: then the request fails.
Select ==
    /\ pc = "select"
    /\ Offset(page, PageSize) >= 0
    /\ rows' = Selected(Offset(page, PageSize), PageSize)
    /\ seen' = [i \in 1..MaxIds |-> seen[i] + (IF i \in rows' THEN 1 ELSE 0)]
    /\ pc' = "items"
    /\ UNCHANGED <<vars, filter, page, total, content, at, saves, late, erased, saved>>

ItemsOf(id) == UNION {r.items : r \in {q \in reports : q.id = id}}

\* The next row of the page.
IsNext(i) == i \in rows /\ \A j \in rows : j <= i

LoadItemsFrom ==
    /\ pc = "items"
    /\ \E i \in rows :
          /\ IsNext(i)
          /\ content' = content \cup
                {[id |-> i, items |-> UNION {r.items : r \in {q \in reports : q.id >= i}}]}
          /\ rows' = rows \ {i}
    /\ UNCHANGED <<vars, pc, filter, page, total, ghosts>>

\* GetConsolidatedWorkloads, for one row after the other.
LoadItems ==
    /\ pc = "items"
    /\ \E i \in rows :
          /\ IsNext(i)
          /\ content' = content \cup {[id |-> i, items |-> ItemsOf(i)]}
          /\ rows' = rows \ {i}
    /\ UNCHANGED <<vars, pc, filter, page, total, ghosts>>

\* With include_items=false no items are loaded.
Answer ==
    /\ pc = "items"
    /\ rows = {} \/ content = {}
    /\ pc' = "answered"
    /\ rows' = {}
    /\ UNCHANGED <<vars, filter, page, total, content, ghosts>>

\* A statement fails, or the 15 seconds are over; or the client is content.
Stop ==
    /\ pc # "idle"
    /\ pc' = "idle"
    /\ moving' = FALSE /\ since' = 1 /\ until' = 0
    /\ page' = 1 /\ total' = 0
    /\ rows' = {} /\ content' = {}
    /\ at' = {} /\ seen' = [i \in 1..MaxIds |-> 0] /\ saves' = 0 /\ late' = 0
    /\ erased' = FALSE
    /\ UNCHANGED <<vars, saved>>

PagesNext ==
    \/ Environment
    \/ FirstPage
    \/ AnyPage
    \/ NextPage
    \/ Count
    \/ Select
    \/ LoadItems
    \/ Answer
    \/ Stop

PagesSpec == PagesInit /\ [][PagesNext]_pagesVars

-----------------------------------------------------------------------------
(***************************************************************************)
(* Type invariant.  A page is never longer than its size.                  *)
(***************************************************************************)
PagesTypeOK ==
    /\ pc \in {"idle", "count", "select", "items", "answered"}
    /\ since \in 1..(MaxIds + 1) /\ until \in 0..MaxIds /\ page \in Nat \ {0} /\ total \in 0..MaxIds
    /\ rows \subseteq 1..MaxIds
    /\ content \subseteq [id : 1..MaxIds, items : SUBSET Workloads]
    /\ Cardinality(rows) + Cardinality(content) <= PageSize
    /\ seen \in [1..MaxIds -> Nat] /\ saves \in Nat /\ late \in 0..saves
    /\ at \subseteq 1..MaxIds /\ erased \in BOOLEAN

(***************************************************************************)
(* A consolidation is shown with all of its workloads, although they are   *)
(* read one consolidation at a time.  Only an erasure since the walk began *)
(* can leave it without any.                                               *)
(***************************************************************************)
RowsWhole ==
    \A c \in content : c \in saved \/ (erased /\ c.items = {})

Finished == pc = "answered" /\ ~ HasNext

(***************************************************************************)
(* A walk to the end misses only what a save pushes over the edge between  *)
(* the COUNT and the SELECT of the last page, one report for each.  In     *)
(* particular a walk that ends in the past (end_at) misses nothing, and    *)
(* one through a period, which moves from page to page, nothing that is    *)
(* still in it.                                                            *)
(***************************************************************************)
MissesOnlyLate ==
    Finished /\ ~ erased => Cardinality({i \in at : i >= since /\ seen[i] = 0}) <= late

\* The n-th time that the walk shows a report, from the second on.
Repeats == UNION {{i} \X (2..seen[i]) : i \in 1..MaxIds}

(***************************************************************************)
(* A walk shows a report again only if reports are saved while it lasts,   *)
(* and not more often than that.                                           *)
(***************************************************************************)
RepeatsBounded ==
    pc = "answered" /\ ~ erased => Cardinality(Repeats) <= saves

(***************************************************************************)
(* A walk leaves no hole behind: of what was there when it began, all that *)
(* is newer than a report it has shown it has shown, too, wherever it is,  *)
(* however many saves pushed reports from page to page meanwhile, and      *)
(* whether or not its filter moves.  What it misses (MissesOnlyLate) is    *)
(* therefore the oldest of its filter.                                     *)
(***************************************************************************)
WalkWithoutHoles ==
    ~ erased => \A i \in at, j \in 1..MaxIds : i > j /\ seen[j] > 0 => seen[i] > 0

(***************************************************************************)
(* A page that is one of the totalPages of its own answer is neither       *)
(* refused nor another page, although its offset is a product of two       *)
(* numbers of the request that may wrap around (consolidated.go:55): it    *)
(* has as many reports as the totalItems, counted before, leave to it, and *)
(* at most one more for each save between the COUNT and the SELECT.        *)
(***************************************************************************)
ExistingPageShown ==
    page <= TotalPages(total, PageSize) =>
        /\ pc = "select" => Offset(page, PageSize) >= 0
        /\ pc = "items" /\ ~ erased =>
              LET rest == total - (page - 1) * PageSize
              IN  Cardinality(rows \cup IdsOf(content))
                      \in Least(PageSize, rest)..Least(PageSize, rest + late)
=============================================================================
