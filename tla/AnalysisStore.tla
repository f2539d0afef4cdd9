--------------------------- MODULE AnalysisStore ---------------------------
(***************************************************************************)
(* What the persistence layer promises: the history consists of whole      *)
(* snapshots and whole reports.  A snapshot (scrape, indicators, workload  *)
(* items) appears in one step with everything that was measured; a report  *)
(* (consolidation and its workloads) appears in one step; both are erased  *)
(* in one step; and nothing else ever changes them.  Each has an identity  *)
(* that was given out for it once and is never used again, not even after  *)
(* an erasure.  Module Pipeline implements this with tables, statements    *)
(* and transactions.                                                       *)
(***************************************************************************)
EXTENDS Naturals

CONSTANTS
    Workloads       \* the containers that can be measured

VARIABLES
    snapshots,      \* set of [id, measured, items]: measured = has its totals
    reports,        \* set of [id, items]
    usedIds,        \* number of identities given out so far: [snapshots, reports]
    openIds         \* those not settled yet: [snapshots, reports]

vars == <<snapshots, reports, usedIds, openIds>>

Init ==
    /\ snapshots = {}
    /\ reports = {}
    /\ usedIds = [snapshots |-> 0, reports |-> 0]
    /\ openIds = [snapshots |-> {}, reports |-> {}]

TakeSnapshotId ==
    /\ usedIds' = [usedIds EXCEPT !.snapshots = @ + 1]
    /\ openIds' = [openIds EXCEPT !.snapshots = @ \cup {usedIds.snapshots + 1}]
    /\ UNCHANGED <<snapshots, reports>>

TakeReportId ==
    /\ usedIds' = [usedIds EXCEPT !.reports = @ + 1]
    /\ openIds' = [openIds EXCEPT !.reports = @ \cup {usedIds.reports + 1}]
    /\ UNCHANGED <<snapshots, reports>>

\* A transaction that is rolled back has used its identity up.
GiveUp ==
    /\ \E S \in SUBSET openIds.snapshots, R \in SUBSET openIds.reports :
          openIds' = [snapshots |-> S, reports |-> R]
    /\ UNCHANGED <<snapshots, reports, usedIds>>

AddSnapshot ==
    /\ \E i \in openIds.snapshots, m \in SUBSET Workloads :
          /\ snapshots' = snapshots \cup {[id |-> i, measured |-> TRUE, items |-> m]}
          /\ openIds' = [openIds EXCEPT !.snapshots = @ \ {i}]
    /\ UNCHANGED <<reports, usedIds>>

AddReport ==
    /\ \E i \in openIds.reports, m \in SUBSET Workloads :
          /\ reports' = reports \cup {[id |-> i, items |-> m]}
          /\ openIds' = [openIds EXCEPT !.reports = @ \ {i}]
    /\ UNCHANGED <<snapshots, usedIds>>

Erase ==
    /\ snapshots' = {}
    /\ reports' = {}
    /\ UNCHANGED <<usedIds, openIds>>

Next ==
    \/ TakeSnapshotId
    \/ TakeReportId
    \/ GiveUp
    \/ AddSnapshot
    \/ AddReport
    \/ Erase

Spec == Init /\ [][Next]_vars
=============================================================================
