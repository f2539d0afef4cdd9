------------------------------- MODULE Audit -------------------------------
(***************************************************************************)
(* GET /api/v1/audit (internal/handlers/audit.go) against a history that   *)
(* changes while it is read.  The environment is AnalysisStore: whole      *)
(* snapshots appear, all of them are erased, identities are not reused     *)
(* (module Pipeline implements that).  The handler reads the scrapes of a  *)
(* period, then their totals, then their items, in three statements, and   *)
(* compares the cost that was reported for each scrape with the cost it    *)
(* computes from the items.                                                *)
(*                                                                         *)
(* The totals of a scrape were computed from the same items when it was    *)
(* measured, but the items are kept in columns of four decimals            *)
(* (0003_create_workload_item_snapshots.sql:7-11): the audit computes from *)
(* the rounded values.  The module has one resource, with a price of 1;    *)
(* costs are rounded alike on both sides, which is left out.  One request  *)
(* is enough: the handler has no state.                                    *)
(***************************************************************************)
EXTENDS AnalysisStore, FiniteSets, Functions

CONSTANTS
    Requested,  \* of each workload, in a unit finer than the columns
    Used,       \* of each workload, as measured
    Grain,      \* the last decimal of a column, in that unit
    MaxIds      \* bound of the identities

ASSUME WorkloadsAssumption == IsFiniteSet(Workloads)
ASSUME MeasuredAssumption ==
    /\ Requested \in [Workloads -> Nat]
    /\ Used \in [Workloads -> Nat]
ASSUME GrainAssumption == Grain \in Nat \ {0}
ASSUME MaxIdsAssumption == MaxIds \in Nat

VARIABLES
    step,       \* of the handler
    ids,        \* scrapeIDs
    totals,     \* indicator rows read: [id, reported]
    itemRows,   \* item rows read: [id, w, requested, used]
    answer,     \* AuditResponse
    erased      \* verification only: the history was erased since the first read

handler == <<step, ids, totals, itemRows, answer>>
auditVars == <<vars, handler, erased>>

\* max(requested - used, 0)
Cost(requested, used) == IF requested > used THEN requested - used ELSE 0

\* What the calculator reported for the workloads of a scrape.
CostOf(W) == SumFunction([w \in W |-> Cost(Requested[w], Used[w])])

\* NUMERIC rounds to the nearest value, and up in the middle.
Stored(x) == ((2 * x + Grain) \div (2 * Grain)) * Grain

Row(id, w) == [id |-> id, w |-> w, requested |-> Stored(Requested[w]), used |-> Stored(Used[w])]

NoAnswer == [scrapes |-> 0, audited |-> 0, reported |-> 0, recalculated |-> 0,
             conclusive |-> FALSE, within |-> FALSE]

-----------------------------------------------------------------------------
AuditInit ==
    /\ Init
    /\ step = "idle"
    /\ ids = {} /\ totals = {} /\ itemRows = {}
    /\ answer = NoAnswer
    /\ erased = FALSE

\* The rest of the system saves and erases.
Environment ==
    /\ \/ usedIds.snapshots < MaxIds /\ TakeSnapshotId
       \/ openIds.snapshots # {} /\ GiveUp
       \/ AddSnapshot
       \/ Erase
    /\ erased' = (erased \/ (snapshots # {} /\ snapshots' = {}))
    /\ UNCHANGED handler

\* The request, with the period it asks for.
Request ==
    /\ step \in {"idle", "answered"}
    /\ step' = "scrapes"
    /\ ids' = {} /\ totals' = {} /\ itemRows' = {}
    /\ answer' = NoAnswer
    /\ erased' = FALSE
    /\ UNCHANGED vars

\* GetScrapesInRange; scraped_at grows with the id.  Nothing there: an empty answer.
LoadScrapes ==
    /\ step = "scrapes"
    /\ \E first, last \in 1..MaxIds :
         ids' = {s.id : s \in {t \in snapshots : t.id \in first..last}}
    /\ step' = IF ids' = {} THEN "answered" ELSE "indicators"
    /\ erased' = FALSE
    /\ UNCHANGED <<vars, totals, itemRows, answer>>

\* GetIndicatorSnapshotsForScrapes.
LoadIndicators ==
    /\ step = "indicators"
    /\ totals' = {[id |-> s.id, reported |-> CostOf(s.items)] :
                    s \in {t \in snapshots : t.id \in ids /\ t.measured}}
    /\ step' = "items"
    /\ UNCHANGED <<vars, ids, itemRows, answer, erased>>

-----------------------------------------------------------------------------
\* A scrape with totals and without items is left out.
AuditedAll == totals

Audited == {t \in totals : \E x \in itemRows : x.id = t.id}

Recalculated(t) ==
    SumFunction([x \in {y \in itemRows : y.id = t.id} |-> Cost(x.requested, x.used)])

Distance(a, b) == IF a <= b THEN b - a ELSE a - b

\* auditErrorPercent < 10, and its two answers for a reference of zero.
WithinTolerance(reported, reference) ==
    IF reference = 0 THEN reported = 0
    ELSE Distance(reported, reference) * 10 < reference

Judge ==
    LET reported == SumFunction([t \in Audited |-> t.reported])
        reference == SumFunction([t \in Audited |-> Recalculated(t)])
        conclusive == Audited # {}
    IN  [scrapes |-> Cardinality(ids), audited |-> Cardinality(Audited),
         reported |-> reported, recalculated |-> reference, conclusive |-> conclusive,
         within |-> conclusive /\ WithinTolerance(reported, reference)]

LoadItemsAfterFirst ==
    /\ step = "items"
    /\ itemRows' = UNION {{Row(s.id, w) : w \in s.items} :
                            s \in {t \in snapshots : \E i \in ids : t.id > i}}
    /\ step' = "judge"
    /\ UNCHANGED <<vars, ids, totals, answer, erased>>

\* GetWorkloadItemSnapshotsForScrapes.
LoadItems ==
    /\ step = "items"
    /\ itemRows' = UNION {{Row(s.id, w) : w \in s.items} :
                            s \in {t \in snapshots : t.id \in ids}}
    /\ step' = "judge"
    /\ UNCHANGED <<vars, ids, totals, answer, erased>>

\* From the rows alone.
Respond ==
    /\ step = "judge"
    /\ answer' = Judge
    /\ step' = "answered"
    /\ UNCHANGED <<vars, ids, totals, itemRows, erased>>

\* A read fails, or the 20 seconds are over: an error, and no verdict.
Fails ==
    /\ step \in {"scrapes", "indicators", "items"}
    /\ step' = "idle"
    /\ ids' = {} /\ totals' = {} /\ itemRows' = {}
    /\ UNCHANGED <<vars, answer, erased>>

AuditNext ==
    \/ Environment
    \/ Request
    \/ LoadScrapes
    \/ LoadIndicators
    \/ LoadItems
    \/ Respond
    \/ Fails

AuditSpec == AuditInit /\ [][AuditNext]_auditVars
-----------------------------------------------------------------------------
AuditResponse == [scrapes : Nat, audited : Nat, reported : Nat, recalculated : Nat,
                  conclusive : BOOLEAN, within : BOOLEAN]

(***************************************************************************)
(* Type invariant: the rows read are of the scrapes read, and no more      *)
(* scrapes are audited than there are (SkippedScrapesCount is never        *)
(* negative, audit.go:218).                                                *)
(***************************************************************************)
AuditTypeOK ==
    /\ step \in {"idle", "scrapes", "indicators", "items", "judge", "answered"}
    /\ ids \subseteq 1..MaxIds
    /\ totals \subseteq [id : ids, reported : Nat]
    /\ itemRows \subseteq [id : ids, w : Workloads, requested : Nat, used : Nat]
    /\ answer \in AuditResponse /\ answer.audited <= answer.scrapes
    /\ erased \in BOOLEAN

(***************************************************************************)
(* A conclusive audit compares a cost with the same items it was computed  *)
(* from, however saves and erasures fall between the three reads: a scrape *)
(* whose items were erased after its totals were read is left out, not     *)
(* compared with nothing (audit.go:166-170).  So no error remains but one  *)
(* decimal per item, and a waste well above that is within tolerance.      *)
(***************************************************************************)
NoFalseDivergence ==
    step = "answered" /\ answer.conclusive =>
        LET error == Grain * Cardinality(itemRows)
        IN  /\ Distance(answer.reported, answer.recalculated) <= error
            /\ 10 * error < answer.recalculated => answer.within

\* The scrapes of the period that can be audited, as they are now.
Auditable == {s \in snapshots : s.id \in ids /\ s.items # {}}
StoredCost(s) == SumFunction([w \in s.items |-> Cost(Stored(Requested[w]), Stored(Used[w]))])

(***************************************************************************)
(* Only an erasure makes the audit leave out what it could audit: without  *)
(* one, saves, failures and earlier requests notwithstanding, it covers    *)
(* every scrape of the period that has items, with its whole cost.         *)
(***************************************************************************)
CompleteUnlessErased ==
    step = "answered" /\ ~ erased =>
        /\ answer.audited = Cardinality(Auditable)
        /\ answer.recalculated = SumFunction([s \in Auditable |-> StoredCost(s)])
=============================================================================
