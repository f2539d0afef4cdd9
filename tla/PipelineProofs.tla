--------------------------- MODULE PipelineProofs ---------------------------
(***************************************************************************)
(* Proofs about module Pipeline, for all sets of workloads and requests,   *)
(* windows and bounds.                                                     *)
(***************************************************************************)
EXTENDS Pipeline, TLAPS

USE WorkloadsAssumption, PipelineBounds

-----------------------------------------------------------------------------
(***************************************************************************)
(* Facts about the idle processes.                                         *)
(***************************************************************************)
LEMMA IdleTypes ==
    /\ IdleScraper \in Scraper /\ IdleScraper.pc = "idle"
    /\ IdleCycle \in Cycle /\ IdleCycle.pc = "idle"
    /\ NoneHeard \in [Keys -> SUBSET [id : Nat, read : Nat]]
<1>1. NoTx \in SnapshotTx /\ NoReads \in Reads /\ NoReport \in ReportTx
    BY DEF NoTx, NoReads, NoReport, SnapshotTx, Reads, ReportTx
<1>2. IdleScraper \in Scraper /\ IdleScraper.pc = "idle"
    BY <1>1 DEF IdleScraper, Scraper
<1>3. IdleCycle \in Cycle /\ IdleCycle.pc = "idle"
    BY <1>1 DEF IdleCycle, Cycle
<1>4. NoneHeard \in [Keys -> SUBSET [id : Nat, read : Nat]]
    BY DEF NoneHeard
<1> QED
    BY <1>2, <1>3, <1>4

LEMMA RowsOfType ==
    ASSUME NEW S \in SUBSET ScrapeRow
    PROVE  RowsOf(S) \in SUBSET Rows
    BY DEF RowsOf, ScrapeRow, Rows

LEMMA TypeInit == Init => TypeOK
    BY IdleTypes DEF Init, TypeOK, IdleRequest

LEMMA ScraperType ==
    ASSUME TypeOK, Scrape
    PROVE  scraper' \in Scraper
<1> USE DEF TypeOK
<1>1. CASE ScrapeStart
    <2>1. scraper' = [IdleScraper EXCEPT !.pc = "calculate", !.taken = gen]
        BY <1>1 DEF ScrapeStart
    <2> QED
        BY <2>1, IdleTypes DEF Scraper
<1>2. CASE InsertScrape
    <2>1. PICK m \in SUBSET Workloads :
            scraper' = [scraper EXCEPT !.pc = "indicator", !.left = m,
                          !.tx = [NoTx EXCEPT !.scrapes =
                            {[id |-> lastScrape + 1, gen |-> gen, at |-> now,
                              taken |-> scraper.taken, measured |-> m]}]]
        BY <1>2 DEF InsertScrape
    <2>2. scraper.taken \in Nat
        BY DEF Scraper
    <2>3. [id |-> lastScrape + 1, gen |-> gen, at |-> now,
           taken |-> scraper.taken, measured |-> m] \in ScrapeRow
        BY <2>2 DEF ScrapeRow
    <2>4. [NoTx EXCEPT !.scrapes =
             {[id |-> lastScrape + 1, gen |-> gen, at |-> now,
               taken |-> scraper.taken, measured |-> m]}] \in SnapshotTx
        BY <2>3 DEF NoTx, SnapshotTx
    <2> QED
        BY <2>1, <2>4 DEF Scraper
<1>3. CASE InsertIndicator
    <2>1. RowsOf(scraper.tx.scrapes) \in SUBSET Rows
        BY RowsOfType DEF Scraper, SnapshotTx
    <2> QED
        BY <1>3, <2>1 DEF InsertIndicator, Scraper, SnapshotTx
<1>4. CASE InsertItem
    <2>1. PICK w \in scraper.left :
            scraper' = [scraper EXCEPT
                       !.left = @ \ {w},
                       !.tx.items = @ \cup {[id |-> s.id, gen |-> s.gen, w |-> w] :
                                              s \in scraper.tx.scrapes}]
        BY <1>4 DEF InsertItem
    <2>2. {[id |-> s.id, gen |-> s.gen, w |-> w] : s \in scraper.tx.scrapes} \in SUBSET ItemRow
        BY DEF Scraper, SnapshotTx, ScrapeRow, ItemRow
    <2> QED
        BY <2>1, <2>2 DEF Scraper, SnapshotTx
<1>5. CASE CommitSnapshot
    BY <1>5, IdleTypes DEF CommitSnapshot
<1>6. CASE ScrapeFails
    BY <1>6, IdleTypes DEF ScrapeFails
<1> QED
    BY <1>1, <1>2, <1>3, <1>4, <1>5, <1>6 DEF Scrape

LEMMA CycleType ==
    ASSUME TypeOK, Consolidate
    PROVE  cycle' \in Cycle
<1> USE DEF TypeOK
<1>0. cycle \in Cycle
    OBVIOUS
<1>1. CASE CycleStart
    <2>1. cycle' = [IdleCycle EXCEPT !.pc = "scrapes", !.end = now]
        BY <1>1 DEF CycleStart
    <2> QED
        BY <2>1, IdleTypes DEF Cycle, Failable
<1>2. CASE ReadScrapes
    <2>1. InWindow(cycle.end) \in SUBSET ScrapeRow
        BY DEF InWindow
    <2> QED
        BY <1>0, <1>2, <2>1, IdleTypes DEF ReadScrapes, Cycle, Reads, Failable
<1>3. CASE ReadIndicators
    BY <1>0, <1>3, IdleTypes DEF ReadIndicators, ForScrapes, Cycle, Reads, Failable
<1>4. CASE ReadItems
    BY <1>0, <1>4 DEF ReadItems, ForScrapes, Cycle, Reads, Failable
<1>5. CASE InsertConsolidation
    <2> DEFINE row == Averaged(lastConsolidation + 1)
               ws == Grouped
    <2>1. row \in ConsolidationRow
        BY <1>0 DEF Averaged, Cycle, ConsolidationRow
    <2>2. ws \in SUBSET Keys
        BY <1>0 DEF Grouped, Cycle, Reads, ItemRow, Keys
    <2>3. cycle' = [cycle EXCEPT !.pc = "workloads", !.id = lastConsolidation + 1,
                                 !.todo = ws, !.tx.consolidations = {row}]
        BY <1>5 DEF InsertConsolidation
    <2> HIDE DEF row, ws
    <2>4. [cycle.tx EXCEPT !.consolidations = {row}] \in ReportTx
        BY <1>0, <2>1 DEF Cycle, ReportTx
    <2>5. cycle' = [cycle EXCEPT !.pc = "workloads", !.id = lastConsolidation + 1,
                      !.todo = ws, !.tx = [cycle.tx EXCEPT !.consolidations = {row}]]
        BY <2>3
    <2>6. lastConsolidation + 1 \in Nat /\ "workloads" \in Failable
        BY DEF Failable
    <2> QED
        BY <1>0, <2>2, <2>4, <2>5, <2>6 DEF Cycle
<1>6. CASE InsertConsolidated
    <2>1. PICK w \in Workloads :
            cycle' = [cycle EXCEPT !.todo = @ \ {w},
                        !.tx.consolidated = @ \cup {[id |-> cycle.id, w |-> w]}]
        BY <1>6 DEF InsertConsolidated
    <2>2. [id |-> cycle.id, w |-> w] \in ConsolidatedRow
        BY <1>0 DEF Cycle, ConsolidatedRow
    <2> QED
        BY <1>0, <2>1, <2>2 DEF Cycle, ReportTx
<1>7. CASE CommitConsolidation
    <2>1. {0} \cup Grouped \in SUBSET Keys
        BY <1>0 DEF Grouped, Cycle, Reads, ItemRow, Keys
    <2> QED
        BY <1>0, <1>7, <2>1, IdleTypes DEF CommitConsolidation, Cycle
<1>8. CASE CycleFails
    BY <1>8, IdleTypes DEF CycleFails
<1>9. CASE ObserveNext
    BY <1>0, <1>9, IdleTypes DEF ObserveNext, Cycle
<1> QED
    BY <1>1, <1>2, <1>3, <1>4, <1>5, <1>6, <1>7, <1>8, <1>9 DEF Consolidate

LEMMA TypeStep == TypeOK /\ [Next]_vars => TypeOK'
<1> SUFFICES ASSUME TypeOK, [Next]_vars
             PROVE  TypeOK'
    OBVIOUS
<1> USE DEF TypeOK
<1>1. CASE Tick
    BY <1>1 DEF Tick, store, sequences, tracker, ghosts
<1>2. CASE Scrape
    <2>1. scraper' \in Scraper
        BY <1>2, ScraperType
    <2>2. /\ scraper.tx.scrapes \subseteq ScrapeRow
          /\ scraper.tx.indicators \subseteq Rows
          /\ scraper.tx.items \subseteq ItemRow
        BY DEF Scraper, SnapshotTx
    <2>3. CASE CommitSnapshot
        BY <2>1, <2>2, <2>3 DEF CommitSnapshot, sequences, tracker, ghosts
    <2>4. CASE InsertScrape
        <3>1. lastScrape' = lastScrape + 1
            BY <2>4 DEF InsertScrape
        <3> QED
            BY <2>1, <2>4, <3>1 DEF InsertScrape, store, tracker, ghosts
    <2> QED
        BY <1>2, <2>1, <2>3, <2>4 DEF Scrape, ScrapeStart, InsertIndicator, InsertItem,
            ScrapeFails, store, sequences, tracker, ghosts
<1>3. CASE Consolidate
    <2>1. cycle' \in Cycle
        BY <1>3, CycleType
    <2>2. /\ cycle.tx.consolidations \subseteq ConsolidationRow
          /\ cycle.tx.consolidated \subseteq ConsolidatedRow
          /\ cycle.id \in Nat /\ cycle.read \in Nat
        BY DEF Cycle, ReportTx
    <2>3. CASE ObserveNext
        <3>1. PICK k \in Keys :
                heard' = [heard EXCEPT ![k] = @ \cup {[id |-> cycle.id, read |-> cycle.read]}]
            BY <2>3 DEF ObserveNext
        <3>2. [id |-> cycle.id, read |-> cycle.read] \in [id : Nat, read : Nat]
            BY <2>2
        <3>3. heard' \in [Keys -> SUBSET [id : Nat, read : Nat]]
            BY <3>1, <3>2
        <3> QED
            BY <2>1, <2>3, <3>3 DEF ObserveNext, store, sequences, ghosts
    <2>4. CASE InsertConsolidation
        BY <2>1, <2>4 DEF InsertConsolidation, store, tracker, ghosts
    <2>5. CASE CommitConsolidation
        BY <2>1, <2>2, <2>5 DEF CommitConsolidation, sequences, tracker
    <2> QED
        BY <1>3, <2>1, <2>3, <2>4, <2>5 DEF Consolidate, CycleStart, ReadScrapes,
            ReadIndicators, ReadItems, InsertConsolidated, CycleFails,
            store, sequences, tracker, ghosts
<1>4. ASSUME NEW r \in Requests, Truncate(r)
      PROVE  TypeOK'
    BY <1>4 DEF Truncate, Erased, store, sequences, tracker, ghosts
<1>5. ASSUME NEW r \in Requests, ResetTracker(r)
      PROVE  TypeOK'
    BY <1>5, IdleTypes DEF ResetTracker, IdleRequest, Later, store, sequences, tracker, ghosts
<1>6. CASE Crash
    BY <1>6, IdleTypes DEF Crash, IdleRequest, store, sequences, tracker, ghosts
<1>7. CASE UNCHANGED vars
    BY <1>7 DEF vars, store, sequences, tracker, ghosts
<1> QED
    BY <1>1, <1>2, <1>3, <1>4, <1>5, <1>6, <1>7 DEF Next, Serve

(***************************************************************************)
(* The tables, the processes and the tracker are well typed in every       *)
(* reachable state.                                                        *)
(***************************************************************************)
THEOREM TypeCorrect == Spec => []TypeOK
    BY TypeInit, TypeStep, PTL DEF Spec
-----------------------------------------------------------------------------
(***************************************************************************)
(* What the pending transaction of the scraper holds.                      *)
(***************************************************************************)
PendingItems ==
    {x \in ItemsOf(scraper.tx.scrapes) : x.w \notin scraper.left}

SnapshotTxWhole ==
    /\ scraper.pc = "indicator" =>
         /\ scraper.tx.items = {}
         /\ \A s \in scraper.tx.scrapes : scraper.left = s.measured
    /\ scraper.pc = "items" =>
         /\ scraper.tx.indicators = RowsOf(scraper.tx.scrapes)
         /\ scraper.tx.items = PendingItems
         /\ \A s \in scraper.tx.scrapes : scraper.left \subseteq s.measured

SnapshotInv == SnapshotsWhole /\ SnapshotTxWhole

(***************************************************************************)
(* The effects of the scraper's steps on its record, field by field.       *)
(***************************************************************************)
LEMMA InsertScrapeEffect ==
    ASSUME TypeOK, InsertScrape
    PROVE  \E m \in SUBSET Workloads :
             /\ scraper'.pc = "indicator"
             /\ scraper'.taken = scraper.taken
             /\ scraper'.left = m
             /\ scraper'.tx.scrapes = {[id |-> lastScrape + 1, gen |-> gen, at |-> now,
                                        taken |-> scraper.taken, measured |-> m]}
             /\ scraper'.tx.indicators = {}
             /\ scraper'.tx.items = {}
    BY DEF TypeOK, InsertScrape, Scraper, SnapshotTx, NoTx

LEMMA InsertIndicatorEffect ==
    ASSUME TypeOK, InsertIndicator
    PROVE  /\ scraper.pc = "indicator"
           /\ scraper'.pc = "items"
           /\ scraper'.taken = scraper.taken
           /\ scraper'.left = scraper.left
           /\ scraper'.tx.scrapes = scraper.tx.scrapes
           /\ scraper'.tx.indicators = RowsOf(scraper.tx.scrapes)
           /\ scraper'.tx.items = scraper.tx.items
    BY DEF TypeOK, InsertIndicator, Scraper, SnapshotTx

LEMMA InsertItemEffect ==
    ASSUME TypeOK, InsertItem
    PROVE  \E w \in scraper.left :
             /\ scraper.pc = "items"
             /\ scraper'.pc = "items"
             /\ scraper'.taken = scraper.taken
             /\ scraper'.left = scraper.left \ {w}
             /\ scraper'.tx.scrapes = scraper.tx.scrapes
             /\ scraper'.tx.indicators = scraper.tx.indicators
             /\ scraper'.tx.items = scraper.tx.items
                  \cup {[id |-> s.id, gen |-> s.gen, w |-> w] : s \in scraper.tx.scrapes}
    BY DEF TypeOK, InsertItem, Scraper, SnapshotTx

(***************************************************************************)
(* RowsOf and ItemsOf distribute over the union of two sets of scrapes.    *)
(***************************************************************************)
LEMMA RowsUnion ==
    ASSUME NEW S, NEW T
    PROVE  /\ RowsOf(S \cup T) = RowsOf(S) \cup RowsOf(T)
           /\ ItemsOf(S \cup T) = ItemsOf(S) \cup ItemsOf(T)
           /\ RowsOf({}) = {} /\ ItemsOf({}) = {}
    BY DEF RowsOf, ItemsOf

LEMMA SnapshotInit == Init => SnapshotInv
    BY RowsUnion, IdleTypes DEF Init, SnapshotInv, SnapshotsWhole, SnapshotTxWhole

LEMMA SnapshotStep == TypeOK /\ SnapshotInv /\ [Next]_vars => SnapshotInv'
<1> SUFFICES ASSUME TypeOK, SnapshotInv, [Next]_vars
             PROVE  SnapshotInv'
    OBVIOUS
<1> USE DEF SnapshotInv
<1>s. ASSUME UNCHANGED store
      PROVE  SnapshotsWhole'
    BY <1>s DEF store, SnapshotsWhole, RowsOf, ItemsOf
<1>x. ASSUME UNCHANGED scraper
      PROVE  SnapshotTxWhole'
    BY <1>x DEF SnapshotTxWhole, PendingItems, RowsOf, ItemsOf
<1>i. ASSUME scraper'.pc \notin {"indicator", "items"}
      PROVE  SnapshotTxWhole'
    BY <1>i DEF SnapshotTxWhole
<1>1. CASE Scrape
    <2>1. CASE ScrapeStart \/ ScrapeFails
        <3>1. scraper'.pc \notin {"indicator", "items"}
            BY <2>1, IdleTypes DEF ScrapeStart, ScrapeFails, IdleScraper
        <3> QED
            BY <2>1, <3>1, <1>s, <1>i DEF ScrapeStart, ScrapeFails
    <2>2. CASE InsertScrape
        <3>1. SnapshotTxWhole'
            BY <2>2, InsertScrapeEffect DEF SnapshotTxWhole
        <3> QED
            BY <2>2, <3>1, <1>s DEF InsertScrape
    <2>3. CASE InsertIndicator
        <3>1. scraper'.tx.items = PendingItems'
            BY <2>3, InsertIndicatorEffect DEF SnapshotTxWhole, PendingItems, ItemsOf
        <3>2. SnapshotTxWhole'
            BY <2>3, <3>1, InsertIndicatorEffect DEF SnapshotTxWhole, RowsOf
        <3> QED
            BY <2>3, <3>2, <1>s DEF InsertIndicator
    <2>4. CASE InsertItem
        <3>1. PICK w \in scraper.left :
                 /\ scraper.pc = "items"
                 /\ scraper'.pc = "items"
                 /\ scraper'.left = scraper.left \ {w}
                 /\ scraper'.tx.scrapes = scraper.tx.scrapes
                 /\ scraper'.tx.indicators = scraper.tx.indicators
                 /\ scraper'.tx.items = scraper.tx.items
                      \cup {[id |-> s.id, gen |-> s.gen, w |-> w] : s \in scraper.tx.scrapes}
            BY <2>4, InsertItemEffect
        <3>2. \A s \in scraper.tx.scrapes : scraper.left \subseteq s.measured
            BY <3>1 DEF SnapshotTxWhole
        <3>3. scraper'.tx.items = PendingItems'
            BY <3>1, <3>2 DEF SnapshotTxWhole, PendingItems, ItemsOf
        <3>4. SnapshotTxWhole'
            BY <3>1, <3>2, <3>3 DEF SnapshotTxWhole, RowsOf
        <3> QED
            BY <2>4, <3>4, <1>s DEF InsertItem
    <2>5. CASE CommitSnapshot
        <3>1. scraper.pc = "items" /\ scraper.left = {}
            BY <2>5 DEF CommitSnapshot
        <3>2. scraper.tx.items = ItemsOf(scraper.tx.scrapes)
            BY <3>1 DEF SnapshotTxWhole, PendingItems
        <3>3. scraper.tx.indicators = RowsOf(scraper.tx.scrapes)
            BY <3>1 DEF SnapshotTxWhole
        <3>4. /\ indicators' = RowsOf(scrapes) \cup RowsOf(scraper.tx.scrapes)
              /\ items' = ItemsOf(scrapes) \cup ItemsOf(scraper.tx.scrapes)
              /\ scrapes' = scrapes \cup scraper.tx.scrapes
            BY <2>5, <3>2, <3>3 DEF CommitSnapshot, SnapshotsWhole
        <3>5. indicators' = RowsOf(scrapes') /\ items' = ItemsOf(scrapes')
            BY <3>4, RowsUnion
        <3>6. SnapshotsWhole'
            BY <3>5 DEF SnapshotsWhole, RowsOf, ItemsOf
        <3> QED
            BY <2>5, <3>6, <1>i, IdleTypes DEF CommitSnapshot
    <2> QED
        BY <1>1, <2>1, <2>2, <2>3, <2>4, <2>5 DEF Scrape
<1>2. CASE Tick \/ Consolidate
    <2>1. UNCHANGED <<scrapes, indicators, items, scraper>>
        BY <1>2 DEF Tick, Consolidate, CycleStart, ReadScrapes, ReadIndicators, ReadItems,
            InsertConsolidation, InsertConsolidated, CommitConsolidation, CycleFails,
            ObserveNext, store
    <2>2. SnapshotsWhole'
        BY <2>1 DEF SnapshotsWhole, RowsOf, ItemsOf
    <2> QED
        BY <2>1, <2>2, <1>x
<1>3. ASSUME NEW r \in Requests, Truncate(r)
      PROVE  SnapshotInv'
    <2>1. UNCHANGED scraper /\ scrapes' = {} /\ indicators' = {} /\ items' = {}
        BY <1>3 DEF Truncate, Erased
    <2>2. SnapshotsWhole'
        BY <2>1 DEF SnapshotsWhole, RowsOf, ItemsOf
    <2> QED
        BY <2>1, <2>2, <1>x
<1>4. ASSUME NEW r \in Requests, ResetTracker(r)
      PROVE  SnapshotInv'
    BY <1>4, <1>s, <1>x DEF ResetTracker
<1>5. CASE Crash
    BY <1>5, <1>s, <1>i, IdleTypes DEF Crash
<1>6. CASE UNCHANGED vars
    BY <1>6, <1>s, <1>x DEF vars
<1> QED
    BY <1>1, <1>2, <1>3, <1>4, <1>5, <1>6 DEF Next, Serve

(***************************************************************************)
(* SaveSnapshot keeps its word (db.go:67-69): the history consists of      *)
(* whole snapshots in every reachable state.                               *)
(***************************************************************************)
THEOREM SnapshotsStayWhole == Spec => []SnapshotsWhole
<1>1. TypeOK /\ SnapshotInv /\ [Next]_vars => (TypeOK /\ SnapshotInv)'
    BY TypeStep, SnapshotStep
<1>2. SnapshotInv => SnapshotsWhole
    BY DEF SnapshotInv
<1> QED
    BY TypeInit, SnapshotInit, <1>1, <1>2, PTL DEF Spec

-----------------------------------------------------------------------------
(***************************************************************************)
(* What the pending transaction of the consolidator holds.                 *)
(***************************************************************************)
ReportTxWhole ==
    /\ cycle.pc \in {"scrapes", "indicators", "items", "save"} =>
         cycle.tx.consolidated = {}
    /\ cycle.pc = "workloads" =>
         /\ cycle.tx.consolidations = {Averaged(cycle.id)}
         /\ cycle.todo \subseteq Grouped
         /\ cycle.tx.consolidated = {[id |-> cycle.id, w |-> w] : w \in Grouped \ cycle.todo}

ReportInv == ReportsWhole /\ ReportTxWhole

(***************************************************************************)
(* The effects of the consolidator's steps on its record.                  *)
(***************************************************************************)
LEMMA CycleStartEffect ==
    ASSUME CycleStart
    PROVE  cycle'.pc = "scrapes" /\ cycle'.tx.consolidated = {}
    BY DEF CycleStart, IdleCycle, NoReport

LEMMA ReadScrapesEffect ==
    ASSUME TypeOK, ReadScrapes
    PROVE  /\ cycle.pc = "scrapes"
           /\ \/ cycle'.pc = "idle"
              \/ /\ cycle'.pc = "indicators"
                 /\ cycle'.read = gen
                 /\ cycle'.tx = cycle.tx
                 /\ cycle'.rows.scrapes = InWindow(cycle.end)
    BY IdleTypes DEF TypeOK, ReadScrapes, Cycle, Reads

LEMMA ReadIndicatorsEffect ==
    ASSUME TypeOK, ReadIndicators
    PROVE  /\ cycle.pc = "indicators"
           /\ \/ cycle'.pc = "idle"
              \/ /\ cycle'.pc = "items"
                 /\ cycle'.read = cycle.read
                 /\ cycle'.tx = cycle.tx
                 /\ cycle'.rows.scrapes = cycle.rows.scrapes
                 /\ cycle'.rows.indicators = ForScrapes(indicators)
    BY IdleTypes DEF TypeOK, ReadIndicators, Cycle, Reads

LEMMA ReadItemsEffect ==
    ASSUME TypeOK, ReadItems
    PROVE  /\ cycle.pc = "items"
           /\ cycle'.pc = "save"
           /\ cycle'.read = cycle.read
           /\ cycle'.tx = cycle.tx
           /\ cycle'.done = gen
           /\ cycle'.rows.scrapes = cycle.rows.scrapes
           /\ cycle'.rows.indicators = cycle.rows.indicators
           /\ cycle'.rows.items = ForScrapes(items)
    BY DEF TypeOK, ReadItems, Cycle, Reads

LEMMA InsertConsolidationEffect ==
    ASSUME TypeOK, InsertConsolidation
    PROVE  /\ cycle.pc = "save"
           /\ cycle'.pc = "workloads"
           /\ cycle'.read = cycle.read
           /\ cycle'.done = cycle.done
           /\ cycle'.rows = cycle.rows
           /\ cycle'.id = lastConsolidation + 1
           /\ cycle'.todo = Grouped
           /\ cycle'.tx.consolidations = {Averaged(lastConsolidation + 1)}
           /\ cycle'.tx.consolidated = cycle.tx.consolidated
    BY DEF TypeOK, InsertConsolidation, Cycle, ReportTx

LEMMA InsertConsolidatedEffect ==
    ASSUME TypeOK, InsertConsolidated
    PROVE  \E w \in cycle.todo :
             /\ cycle.pc = "workloads"
             /\ cycle'.pc = "workloads"
             /\ cycle'.read = cycle.read
             /\ cycle'.done = cycle.done
             /\ cycle'.rows = cycle.rows
             /\ cycle'.id = cycle.id
             /\ cycle'.todo = cycle.todo \ {w}
             /\ cycle'.tx.consolidations = cycle.tx.consolidations
             /\ cycle'.tx.consolidated = cycle.tx.consolidated \cup {[id |-> cycle.id, w |-> w]}
    BY DEF TypeOK, InsertConsolidated, First, Cycle, ReportTx

LEMMA CommitConsolidationEffect ==
    ASSUME TypeOK, CommitConsolidation
    PROVE  /\ cycle.pc = "workloads"
           /\ cycle.todo = {}
           /\ consolidations' = consolidations \cup cycle.tx.consolidations
           /\ consolidated' = consolidated \cup cycle.tx.consolidated
           /\ saved' = saved \cup {cycle.id}
           /\ \/ cycle'.pc = "observe" /\ cycle'.id = cycle.id /\ cycle'.read = cycle.read
              \/ cycle'.pc = "idle"
    BY IdleTypes DEF TypeOK, CommitConsolidation, Cycle

LEMMA ObserveNextEffect ==
    ASSUME TypeOK, ObserveNext
    PROVE  \E k \in Keys :
             /\ cycle.pc = "observe"
             /\ heard' = [heard EXCEPT ![k] = @ \cup {[id |-> cycle.id, read |-> cycle.read]}]
             /\ \/ cycle'.pc = "observe" /\ cycle'.id = cycle.id /\ cycle'.read = cycle.read
                \/ cycle'.pc = "idle"
    BY IdleTypes DEF TypeOK, ObserveNext, Cycle

LEMMA ReportInit == Init => ReportInv
    BY IdleTypes DEF Init, ReportInv, ReportsWhole, ReportTxWhole

LEMMA ReportStep == TypeOK /\ ReportInv /\ [Next]_vars => ReportInv'
<1> SUFFICES ASSUME TypeOK, ReportInv, [Next]_vars
             PROVE  ReportInv'
    OBVIOUS
<1> USE DEF ReportInv
<1>s. ASSUME UNCHANGED <<consolidations, consolidated>>
      PROVE  ReportsWhole'
    BY <1>s DEF ReportsWhole
<1>x. ASSUME UNCHANGED cycle
      PROVE  ReportTxWhole'
    BY <1>x DEF ReportTxWhole, Averaged, Grouped
<1>i. ASSUME cycle'.pc \in {"idle", "observe"}
      PROVE  ReportTxWhole'
    BY <1>i DEF ReportTxWhole
<1>1. CASE Consolidate
    <2>1. CASE CycleStart
        BY <2>1, <1>s, CycleStartEffect DEF CycleStart, ReportTxWhole, store
    <2>2. CASE ReadScrapes
        BY <2>2, <1>s, ReadScrapesEffect DEF ReadScrapes, ReportTxWhole, store
    <2>3. CASE ReadIndicators
        BY <2>3, <1>s, ReadIndicatorsEffect DEF ReadIndicators, ReportTxWhole, store
    <2>4. CASE ReadItems
        BY <2>4, <1>s, ReadItemsEffect DEF ReadItems, ReportTxWhole, store
    <2>5. CASE InsertConsolidation
        <3>1. Grouped' = Grouped
            BY <2>5, InsertConsolidationEffect DEF Grouped
        <3>2. Averaged(lastConsolidation + 1) = Averaged(cycle.id)'
            BY <2>5, InsertConsolidationEffect DEF Averaged
        <3>3. cycle'.tx.consolidated = {}
            BY <2>5, InsertConsolidationEffect DEF ReportTxWhole
        <3>4. ReportTxWhole'
            BY <2>5, <3>1, <3>2, <3>3, InsertConsolidationEffect DEF ReportTxWhole
        <3> QED
            BY <2>5, <3>4, <1>s DEF InsertConsolidation, store
    <2>6. CASE InsertConsolidated
        <3>1. PICK w \in cycle.todo :
                 /\ cycle.pc = "workloads"
                 /\ cycle'.pc = "workloads"
                 /\ cycle'.read = cycle.read
                 /\ cycle'.done = cycle.done
                 /\ cycle'.rows = cycle.rows
                 /\ cycle'.id = cycle.id
                 /\ cycle'.todo = cycle.todo \ {w}
                 /\ cycle'.tx.consolidations = cycle.tx.consolidations
                 /\ cycle'.tx.consolidated
                      = cycle.tx.consolidated \cup {[id |-> cycle.id, w |-> w]}
            BY <2>6, InsertConsolidatedEffect
        <3>2. Grouped' = Grouped /\ Averaged(cycle.id)' = Averaged(cycle.id)
            BY <3>1 DEF Grouped, Averaged
        <3>3. w \in Grouped
            BY <3>1 DEF ReportTxWhole
        <3>4. {[id |-> cycle.id, w |-> v] : v \in Grouped \ cycle.todo}
                \cup {[id |-> cycle.id, w |-> w]}
              = {[id |-> cycle.id, w |-> v] : v \in Grouped \ (cycle.todo \ {w})}
            BY <3>3
        <3>5. ReportTxWhole'
            BY <3>1, <3>2, <3>4 DEF ReportTxWhole
        <3> QED
            BY <2>6, <3>5, <1>s DEF InsertConsolidated, store
    <2>7. CASE CommitConsolidation
        <3>1. /\ cycle.tx.consolidations = {Averaged(cycle.id)}
              /\ cycle.tx.consolidated = {[id |-> cycle.id, w |-> x.w] : x \in cycle.rows.items}
            BY <2>7, CommitConsolidationEffect DEF ReportTxWhole, Grouped
        <3>2. /\ consolidations' = consolidations \cup {Averaged(cycle.id)}
              /\ consolidated' = consolidated
                   \cup {[id |-> cycle.id, w |-> x.w] : x \in cycle.rows.items}
            BY <2>7, <3>1, CommitConsolidationEffect
        <3> DEFINE rows(c) == {[id |-> c.id, w |-> x.w] : x \in c.rows.items}
        <3>3. rows(Averaged(cycle.id)) = {[id |-> cycle.id, w |-> x.w] : x \in cycle.rows.items}
            BY DEF Averaged
        <3>4. consolidated = UNION {rows(c) : c \in consolidations}
            BY DEF ReportsWhole
        <3> HIDE DEF rows
        <3>5. consolidated' = UNION {rows(c) : c \in consolidations'}
            BY <3>2, <3>3, <3>4
        <3>6. ReportsWhole'
            BY <3>5 DEF ReportsWhole, rows
        <3> QED
            BY <2>7, <3>6, <1>i, CommitConsolidationEffect
    <2>8. CASE CycleFails
        BY <2>8, <1>s, <1>i, IdleTypes DEF CycleFails, store
    <2>9. CASE ObserveNext
        BY <2>9, <1>s, <1>i, ObserveNextEffect DEF ObserveNext, store
    <2> QED
        BY <1>1, <2>1, <2>2, <2>3, <2>4, <2>5, <2>6, <2>7, <2>8, <2>9 DEF Consolidate
<1>2. CASE Tick \/ Scrape
    <2>1. UNCHANGED <<consolidations, consolidated, cycle>>
        BY <1>2 DEF Tick, Scrape, ScrapeStart, InsertScrape, InsertIndicator, InsertItem,
            CommitSnapshot, ScrapeFails, store
    <2> QED
        BY <2>1, <1>s, <1>x
<1>3. ASSUME NEW r \in Requests, Truncate(r)
      PROVE  ReportInv'
    BY <1>3, <1>x DEF Truncate, Erased, ReportsWhole
<1>4. ASSUME NEW r \in Requests, ResetTracker(r)
      PROVE  ReportInv'
    BY <1>4, <1>s, <1>x DEF ResetTracker, store
<1>5. CASE Crash
    BY <1>5, <1>s, <1>i, IdleTypes DEF Crash, store
<1>6. CASE UNCHANGED vars
    BY <1>6, <1>s, <1>x DEF vars, store
<1> QED
    BY <1>1, <1>2, <1>3, <1>4, <1>5, <1>6 DEF Next, Serve

(***************************************************************************)
(* Every committed consolidation has exactly the rows of the workloads it  *)
(* read (SaveConsolidation, db.go:232-279), whatever fails or is erased.   *)
(***************************************************************************)
THEOREM ReportsStayWhole == Spec => []ReportsWhole
<1>1. TypeOK /\ ReportInv /\ [Next]_vars => (TypeOK /\ ReportInv)'
    BY TypeStep, ReportStep
<1>2. ReportInv => ReportsWhole
    BY DEF ReportInv
<1> QED
    BY TypeInit, ReportInit, <1>1, <1>2, PTL DEF Spec

-----------------------------------------------------------------------------
(***************************************************************************)
(* Scrape ids are never used twice: the committed ones differ from each    *)
(* other and precede the one of the pending transaction, and all of them   *)
(* were drawn from the sequence.                                           *)
(***************************************************************************)
Inserting == scraper.pc \in {"indicator", "items"}

ScrapeIdInv ==
    /\ \A s \in scrapes : s.id <= lastScrape
    /\ \A s, t \in scrapes : s.id = t.id => s = t
    /\ Inserting =>
         /\ \A t \in scraper.tx.scrapes : t.id \in 1..lastScrape
         /\ \A s \in scrapes, t \in scraper.tx.scrapes : s.id < t.id
         /\ \A t, u \in scraper.tx.scrapes : t = u

LEMMA CommitSnapshotEffect ==
    ASSUME TypeOK, CommitSnapshot
    PROVE  /\ Inserting
           /\ scraper'.pc = "idle"
           /\ scrapes' = scrapes \cup scraper.tx.scrapes
    BY IdleTypes DEF CommitSnapshot, Inserting

LEMMA ScrapeIdInit == Init => ScrapeIdInv
    BY IdleTypes DEF Init, ScrapeIdInv, Inserting

LEMMA ScrapeIdStep == TypeOK /\ ScrapeIdInv /\ [Next]_vars => ScrapeIdInv'
<1> SUFFICES ASSUME TypeOK, ScrapeIdInv, [Next]_vars
             PROVE  ScrapeIdInv'
    OBVIOUS
<1>t. /\ lastScrape \in Nat
      /\ \A s \in scrapes : s.id \in Nat
      /\ \A t \in scraper.tx.scrapes : t.id \in Nat
    BY DEF TypeOK, Scraper, SnapshotTx, ScrapeRow
<1>i. ASSUME UNCHANGED <<scrapes, lastScrape>>, scraper'.pc = "idle"
      PROVE  ScrapeIdInv'
    BY <1>i DEF ScrapeIdInv, Inserting
<1>x. ASSUME UNCHANGED <<scrapes, lastScrape, scraper>>
      PROVE  ScrapeIdInv'
    BY <1>x DEF ScrapeIdInv, Inserting
<1>1. CASE Scrape
    <2>1. CASE ScrapeStart
        <3>1. scraper'.pc = "calculate"
            BY <2>1 DEF ScrapeStart, IdleScraper
        <3> QED
            BY <2>1, <3>1 DEF ScrapeStart, ScrapeIdInv, Inserting, store, sequences
    <2>2. CASE InsertScrape
        <3>1. scrapes' = scrapes /\ lastScrape' = lastScrape + 1
            BY <2>2 DEF InsertScrape, store
        <3>2. PICK m \in SUBSET Workloads :
                 scraper'.tx.scrapes = {[id |-> lastScrape + 1, gen |-> gen, at |-> now,
                                         taken |-> scraper.taken, measured |-> m]}
            BY <2>2, InsertScrapeEffect
        <3> DEFINE row == [id |-> lastScrape + 1, gen |-> gen, at |-> now,
                           taken |-> scraper.taken, measured |-> m]
        <3>3. row.id = lastScrape + 1
            OBVIOUS
        <3>4. scraper'.tx.scrapes = {row}
            BY <3>2
        <3> HIDE DEF row
        <3> QED
            BY <1>t, <3>1, <3>3, <3>4 DEF ScrapeIdInv
    <2>3. CASE InsertIndicator
        BY <2>3, InsertIndicatorEffect DEF InsertIndicator, ScrapeIdInv, Inserting, store, sequences
    <2>4. CASE InsertItem
        BY <2>4, InsertItemEffect DEF InsertItem, ScrapeIdInv, Inserting, store, sequences
    <2>5. CASE CommitSnapshot
        <3>1. lastScrape' = lastScrape
            BY <2>5 DEF CommitSnapshot, sequences
        <3> QED
            BY <1>t, <2>5, <3>1, CommitSnapshotEffect DEF ScrapeIdInv, Inserting
    <2>6. CASE ScrapeFails
        BY <2>6, <1>i, IdleTypes DEF ScrapeFails, store, sequences
    <2> QED
        BY <1>1, <2>1, <2>2, <2>3, <2>4, <2>5, <2>6 DEF Scrape
<1>2. CASE Tick \/ Consolidate
    <2>1. UNCHANGED <<scrapes, lastScrape, scraper>>
        BY <1>2 DEF Tick, Consolidate, CycleStart, ReadScrapes, ReadIndicators, ReadItems,
            InsertConsolidation, InsertConsolidated, CommitConsolidation, CycleFails,
            ObserveNext, store, sequences
    <2> QED
        BY <2>1, <1>x
<1>3. ASSUME NEW r \in Requests, Truncate(r)
      PROVE  ScrapeIdInv'
    BY <1>3 DEF Truncate, Erased, NoInsertsPending, ScrapeIdInv, Inserting, sequences
<1>4. ASSUME NEW r \in Requests, ResetTracker(r)
      PROVE  ScrapeIdInv'
    BY <1>4, <1>x DEF ResetTracker, store, sequences
<1>5. CASE Crash
    BY <1>5, <1>i, IdleTypes DEF Crash, store, sequences
<1>6. CASE UNCHANGED vars
    BY <1>6, <1>x DEF vars, store, sequences
<1> QED
    BY <1>1, <1>2, <1>3, <1>4, <1>5, <1>6 DEF Next, Serve

-----------------------------------------------------------------------------
(***************************************************************************)
(* What a cycle holds of the scrapes it selected.  A row that has the id   *)
(* of a selected scrape is that scrape; as long as there was no erasure    *)
(* the selected scrapes are still there; and what was read of the child    *)
(* tables belongs to them, entirely when there was no erasure.             *)
(***************************************************************************)
Reading == {"indicators", "items", "save", "workloads"}

SelectionKept ==
    cycle.pc \in Reading =>
        /\ cycle.read <= gen
        /\ \A r \in cycle.rows.scrapes : r.id <= lastScrape
        /\ \A s \in scrapes, r \in cycle.rows.scrapes : s.id = r.id => s = r
        /\ Inserting =>
             \A t \in scraper.tx.scrapes, r \in cycle.rows.scrapes : t.id # r.id
        /\ cycle.pc \in {"indicators", "items"} /\ cycle.read = gen =>
             cycle.rows.scrapes \subseteq scrapes

IndicatorsOfSelection ==
    /\ cycle.pc \in Reading \ {"indicators"} =>
         cycle.rows.indicators \subseteq RowsOf(cycle.rows.scrapes)
    /\ cycle.pc = "items" /\ cycle.read = gen =>
         cycle.rows.indicators = RowsOf(cycle.rows.scrapes)

Coherent(read, done, rows) ==
    /\ rows.indicators \subseteq RowsOf(rows.scrapes)
    /\ \A x \in rows.items : [id |-> x.id, gen |-> x.gen] \in RowsOf(rows.scrapes)
    /\ read = done => /\ rows.indicators = RowsOf(rows.scrapes)
                      /\ rows.items = ItemsOf(rows.scrapes)

ReadsCoherent ==
    /\ cycle.pc \in {"save", "workloads"} => Coherent(cycle.read, cycle.done, cycle.rows)
    /\ \A c \in consolidations : Coherent(c.read, c.done, c.rows)

ReadInv == SelectionKept /\ IndicatorsOfSelection /\ ReadsCoherent

(***************************************************************************)
(* A query by scrape ids finds exactly the rows of the scrapes that are    *)
(* both in the table and among those selected.                             *)
(***************************************************************************)
LEMMA Selection ==
    ASSUME NEW S, NEW R, \A s \in S, r \in R : s.id = r.id => s = r
    PROVE  /\ {x \in RowsOf(S) : x.id \in {r.id : r \in R}} = RowsOf(S \cap R)
           /\ {x \in ItemsOf(S) : x.id \in {r.id : r \in R}} = ItemsOf(S \cap R)
    BY DEF RowsOf, ItemsOf

LEMMA ReadInit == Init => ReadInv
    BY IdleTypes DEF Init, ReadInv, SelectionKept, IndicatorsOfSelection, ReadsCoherent, Reading

(***************************************************************************)
(* Steps that leave the cycle's reads alone: the scrapes only grow by a    *)
(* pending one, whose id no selected scrape has, or are erased together    *)
(* with a change of generation.                                            *)
(***************************************************************************)
LEMMA ScrapeKeepsReads ==
    ASSUME TypeOK, ScrapeIdInv, ReadInv, Scrape
    PROVE  ReadInv'
<1>t. /\ lastScrape \in Nat /\ \A r \in cycle.rows.scrapes : r.id \in Nat
    BY DEF TypeOK, Cycle, Reads, ScrapeRow
<1>1. UNCHANGED <<cycle, gen, consolidations>>
    BY DEF Scrape, ScrapeStart, InsertScrape, InsertIndicator, InsertItem, CommitSnapshot,
        ScrapeFails, store
<1>2. IndicatorsOfSelection' /\ ReadsCoherent'
    BY <1>1 DEF ReadInv, IndicatorsOfSelection, ReadsCoherent, Coherent, RowsOf, ItemsOf
<1>3. CASE ScrapeStart \/ ScrapeFails
    <2>1. UNCHANGED <<scrapes, lastScrape>> /\ ~ Inserting'
        BY <1>3, IdleTypes DEF ScrapeStart, ScrapeFails, Inserting, IdleScraper, store, sequences
    <2> QED
        BY <1>1, <1>2, <2>1 DEF ReadInv, SelectionKept
<1>4. CASE InsertScrape
    <2>1. scrapes' = scrapes /\ lastScrape' = lastScrape + 1
        BY <1>4 DEF InsertScrape, store
    <2>2. \A t \in scraper'.tx.scrapes : t.id = lastScrape + 1
        BY <1>4, InsertScrapeEffect
    <2> QED
        BY <1>t, <1>1, <1>2, <2>1, <2>2 DEF ReadInv, SelectionKept
<1>5. CASE InsertIndicator \/ InsertItem
    <2>1. UNCHANGED <<scrapes, lastScrape>>
        BY <1>5 DEF InsertIndicator, InsertItem, store, sequences
    <2>2. Inserting /\ scraper'.tx.scrapes = scraper.tx.scrapes
        BY <1>5, InsertIndicatorEffect, InsertItemEffect DEF Inserting
    <2> QED
        BY <1>1, <1>2, <2>1, <2>2 DEF ReadInv, SelectionKept
<1>6. CASE CommitSnapshot
    <2>1. /\ Inserting /\ ~ Inserting'
          /\ scrapes' = scrapes \cup scraper.tx.scrapes
          /\ lastScrape' = lastScrape
        BY <1>6, CommitSnapshotEffect DEF CommitSnapshot, sequences, Inserting
    <2> QED
        BY <1>1, <1>2, <2>1 DEF ReadInv, SelectionKept
<1> QED
    BY <1>3, <1>4, <1>5, <1>6 DEF Scrape

LEMMA TruncateKeepsReads ==
    ASSUME TypeOK, ReadInv, NEW r \in Requests, Truncate(r)
    PROVE  ReadInv'
<1>1. /\ UNCHANGED <<cycle, scraper, lastScrape>>
      /\ gen' = gen + 1 /\ scrapes' = {} /\ consolidations' = {}
    BY DEF Truncate, Erased, sequences
<1>2. gen \in Nat /\ cycle.read \in Nat
    BY DEF TypeOK, Cycle
<1>3. cycle.pc \in Reading => cycle.read <= gen /\ cycle.read # gen'
    BY <1>1, <1>2 DEF ReadInv, SelectionKept
<1>4. SelectionKept'
    BY <1>1, <1>2, <1>3 DEF ReadInv, SelectionKept, Inserting, Reading
<1>5. IndicatorsOfSelection'
    BY <1>1, <1>3 DEF ReadInv, IndicatorsOfSelection, Reading, RowsOf
<1>6. ReadsCoherent'
    BY <1>1 DEF ReadInv, ReadsCoherent, Coherent, RowsOf, ItemsOf
<1> QED
    BY <1>4, <1>5, <1>6 DEF ReadInv

LEMMA ConsolidateKeepsReads ==
    ASSUME TypeOK, SnapshotInv, ReportInv, ScrapeIdInv, ReadInv, Consolidate
    PROVE  ReadInv'
<1>1. UNCHANGED <<gen, scrapes, indicators, items, lastScrape, scraper>>
    BY DEF Consolidate, CycleStart, ReadScrapes, ReadIndicators, ReadItems,
        InsertConsolidation, InsertConsolidated, CommitConsolidation, CycleFails,
        ObserveNext, store, sequences
<1>t. gen \in Nat /\ cycle.read \in Nat
    BY DEF TypeOK, Cycle
<1>o. ASSUME UNCHANGED consolidations
      PROVE  \A c \in consolidations' : Coherent(c.read, c.done, c.rows)
    BY <1>o DEF ReadInv, ReadsCoherent
<1>i. ASSUME cycle'.pc \notin Reading, UNCHANGED consolidations
      PROVE  ReadInv'
    BY <1>i, <1>o DEF ReadInv, SelectionKept, IndicatorsOfSelection, ReadsCoherent, Reading
<1>2. CASE CycleStart \/ CycleFails \/ ObserveNext
    <2>1. cycle'.pc \in {"scrapes", "idle", "observe"}
        BY <1>2, CycleStartEffect, ObserveNextEffect, IdleTypes DEF CycleFails
    <2>2. UNCHANGED consolidations
        BY <1>2 DEF CycleStart, CycleFails, ObserveNext, store
    <2> QED
        BY <2>1, <2>2, <1>i DEF Reading
<1>3. CASE ReadScrapes
    <2>1. UNCHANGED consolidations
        BY <1>3 DEF ReadScrapes, store
    <2>2. CASE cycle'.pc = "idle"
        BY <2>1, <2>2, <1>i DEF Reading
    <2>3. CASE cycle'.pc # "idle"
        <3>1. cycle'.pc = "indicators" /\ cycle'.read = gen /\ cycle'.rows.scrapes \subseteq scrapes
            BY <1>3, <2>3, ReadScrapesEffect DEF InWindow
        <3>2. \A s \in scrapes : s.id \in Nat
            BY DEF TypeOK, ScrapeRow
        <3>3. Inserting => \A t \in scraper.tx.scrapes, s \in scrapes : t.id # s.id
            BY <3>2 DEF ScrapeIdInv, TypeOK, Scraper, SnapshotTx, ScrapeRow
        <3>4. SelectionKept'
            BY <1>1, <1>t, <3>1, <3>3 DEF SelectionKept, ScrapeIdInv, Reading, Inserting
        <3> QED
            BY <2>1, <1>o, <3>1, <3>4 DEF ReadInv, IndicatorsOfSelection, ReadsCoherent, Reading
    <2> QED
        BY <2>2, <2>3
<1>4. CASE ReadIndicators
    <2>1. UNCHANGED consolidations
        BY <1>4 DEF ReadIndicators, store
    <2>2. CASE cycle'.pc = "idle"
        BY <2>1, <2>2, <1>i DEF Reading
    <2>3. CASE cycle'.pc # "idle"
        <3>1. /\ cycle.pc = "indicators" /\ cycle'.pc = "items"
              /\ cycle'.read = cycle.read
              /\ cycle'.rows.scrapes = cycle.rows.scrapes
              /\ cycle'.rows.indicators = ForScrapes(indicators)
            BY <1>4, <2>3, ReadIndicatorsEffect
        <3>2. \A s \in scrapes, r \in cycle.rows.scrapes : s.id = r.id => s = r
            BY <3>1 DEF ReadInv, SelectionKept, Reading
        <3>3. ForScrapes(indicators) = RowsOf(scrapes \cap cycle.rows.scrapes)
            BY <3>2, Selection DEF ForScrapes, ScrapeIds, SnapshotInv, SnapshotsWhole
        <3>4. ForScrapes(indicators) \subseteq RowsOf(cycle.rows.scrapes)
            BY <3>3 DEF RowsOf
        <3>5. ASSUME cycle.read = gen
              PROVE  ForScrapes(indicators) = RowsOf(cycle.rows.scrapes)
            <4>1. scrapes \cap cycle.rows.scrapes = cycle.rows.scrapes
                BY <3>1, <3>5 DEF ReadInv, SelectionKept, Reading
            <4> QED
                BY <3>3, <4>1
        <3>6. RowsOf(cycle'.rows.scrapes) = RowsOf(cycle.rows.scrapes)
            BY <3>1
        <3>7. IndicatorsOfSelection'
            BY <1>1, <3>1, <3>4, <3>5, <3>6 DEF IndicatorsOfSelection, RowsOf
        <3>8. SelectionKept'
            BY <1>1, <3>1 DEF ReadInv, SelectionKept, Reading, Inserting
        <3> QED
            BY <2>1, <1>o, <3>1, <3>7, <3>8 DEF ReadInv, ReadsCoherent
    <2> QED
        BY <2>2, <2>3
<1>5. CASE ReadItems
    <2>1. UNCHANGED consolidations
        BY <1>5 DEF ReadItems, store
    <2>2. /\ cycle.pc = "items" /\ cycle'.pc = "save"
          /\ cycle'.read = cycle.read /\ cycle'.done = gen
          /\ cycle'.rows.scrapes = cycle.rows.scrapes
          /\ cycle'.rows.indicators = cycle.rows.indicators
          /\ cycle'.rows.items = ForScrapes(items)
        BY <1>5, ReadItemsEffect
    <2>3. \A s \in scrapes, r \in cycle.rows.scrapes : s.id = r.id => s = r
        BY <2>2 DEF ReadInv, SelectionKept, Reading
    <2>4. ForScrapes(items) = ItemsOf(scrapes \cap cycle.rows.scrapes)
        BY <2>3, Selection DEF ForScrapes, ScrapeIds, SnapshotInv, SnapshotsWhole
    <2>5. \A x \in ForScrapes(items) :
             [id |-> x.id, gen |-> x.gen] \in RowsOf(cycle.rows.scrapes)
        BY <2>4 DEF RowsOf, ItemsOf
    <2>6. ASSUME cycle.read = gen
          PROVE  ForScrapes(items) = ItemsOf(cycle.rows.scrapes)
        <3>1. scrapes \cap cycle.rows.scrapes = cycle.rows.scrapes
            BY <2>2, <2>6 DEF ReadInv, SelectionKept, Reading
        <3> QED
            BY <2>4, <3>1
    <2>7. /\ cycle.rows.indicators \subseteq RowsOf(cycle.rows.scrapes)
          /\ cycle.read = gen => cycle.rows.indicators = RowsOf(cycle.rows.scrapes)
        BY <2>2 DEF ReadInv, IndicatorsOfSelection, Reading
    <2>8. Coherent(cycle'.read, cycle'.done, cycle'.rows)
        BY <2>2, <2>5, <2>6, <2>7 DEF Coherent
    <2>9. SelectionKept'
        BY <1>1, <2>2 DEF ReadInv, SelectionKept, Reading, Inserting
    <2>10. IndicatorsOfSelection'
        BY <2>2, <2>7 DEF IndicatorsOfSelection, RowsOf
    <2>11. ReadsCoherent'
        BY <2>1, <2>8, <1>o DEF ReadsCoherent
    <2> QED
        BY <2>9, <2>10, <2>11 DEF ReadInv
<1>6. CASE InsertConsolidation \/ InsertConsolidated
    <2>1. UNCHANGED consolidations
        BY <1>6 DEF InsertConsolidation, InsertConsolidated, store
    <2>2. /\ cycle.pc \in {"save", "workloads"} /\ cycle'.pc = "workloads"
          /\ cycle'.read = cycle.read /\ cycle'.done = cycle.done /\ cycle'.rows = cycle.rows
        BY <1>6, InsertConsolidationEffect, InsertConsolidatedEffect
    <2>3. SelectionKept'
        BY <1>1, <2>2 DEF ReadInv, SelectionKept, Reading, Inserting
    <2>4. IndicatorsOfSelection'
        BY <2>2 DEF ReadInv, IndicatorsOfSelection, Reading, RowsOf
    <2>5. ReadsCoherent'
        BY <2>1, <2>2, <1>o DEF ReadInv, ReadsCoherent
    <2> QED
        BY <2>3, <2>4, <2>5 DEF ReadInv
<1>7. CASE CommitConsolidation
    <2>1. cycle'.pc \notin Reading
        BY <1>7, CommitConsolidationEffect DEF Reading
    <2>2. consolidations' = consolidations \cup {Averaged(cycle.id)}
        BY <1>7, CommitConsolidationEffect DEF ReportInv, ReportTxWhole
    <2>3. Coherent(cycle.read, cycle.done, cycle.rows)
        BY <1>7, CommitConsolidationEffect DEF ReadInv, ReadsCoherent
    <2>4. \A c \in consolidations' : Coherent(c.read, c.done, c.rows)
        BY <2>2, <2>3 DEF ReadInv, ReadsCoherent, Averaged
    <2> QED
        BY <2>1, <2>4 DEF ReadInv, SelectionKept, IndicatorsOfSelection, ReadsCoherent, Reading
<1> QED
    BY <1>2, <1>3, <1>4, <1>5, <1>6, <1>7 DEF Consolidate

LEMMA ReadStep ==
    TypeOK /\ SnapshotInv /\ ReportInv /\ ScrapeIdInv /\ ReadInv /\ [Next]_vars => ReadInv'
<1> SUFFICES ASSUME TypeOK, SnapshotInv, ReportInv, ScrapeIdInv, ReadInv, [Next]_vars
             PROVE  ReadInv'
    OBVIOUS
<1>x. ASSUME UNCHANGED <<gen, scrapes, consolidations, lastScrape, scraper, cycle>>
      PROVE  ReadInv'
    BY <1>x DEF ReadInv, SelectionKept, IndicatorsOfSelection, ReadsCoherent, Coherent,
        Inserting, RowsOf, ItemsOf
<1>1. CASE Tick \/ UNCHANGED vars
    BY <1>1, <1>x DEF Tick, vars, store, sequences
<1>2. ASSUME NEW r \in Requests, ResetTracker(r)
      PROVE  ReadInv'
    BY <1>2, <1>x DEF ResetTracker, store, sequences
<1>3. CASE Crash
    <2>1. cycle'.pc \notin Reading /\ UNCHANGED consolidations
        BY <1>3, IdleTypes DEF Crash, store, Reading
    <2> QED
        BY <2>1 DEF ReadInv, SelectionKept, IndicatorsOfSelection, ReadsCoherent, Reading
<1> QED
    BY <1>1, <1>2, <1>3, ScrapeKeepsReads, ConsolidateKeepsReads, TruncateKeepsReads
       DEF Next, Serve

HistoryInv == TypeOK /\ SnapshotInv /\ ReportInv /\ ScrapeIdInv /\ ReadInv

LEMMA HistoryInvariant == Spec => []HistoryInv
<1>1. Init => HistoryInv
    BY TypeInit, SnapshotInit, ReportInit, ScrapeIdInit, ReadInit DEF HistoryInv
<1>2. HistoryInv /\ [Next]_vars => HistoryInv'
    BY TypeStep, SnapshotStep, ReportStep, ScrapeIdStep, ReadStep DEF HistoryInv
<1> QED
    BY <1>1, <1>2, PTL DEF Spec

(***************************************************************************)
(* The totals and items of a consolidation are of the scrapes it counted,  *)
(* although the three reads are separate statements and an erasure may     *)
(* fall between them: TRUNCATE does not restart the ids (db.go:480).       *)
(***************************************************************************)
THEOREM OneSelection == Spec => []ReadsOfOneSelection
<1>1. HistoryInv => ReadsOfOneSelection
    BY DEF HistoryInv, ReadInv, ReadsCoherent, Coherent, ReadsOfOneSelection
<1> QED
    BY <1>1, HistoryInvariant, PTL

(***************************************************************************)
(* A consolidation misses totals or items of a scrape it counted only when *)
(* an erasure fell between its reads (consolidator.go:83-116).             *)
(***************************************************************************)
THEOREM OnlyErasuresTear == Spec => []TornOnlyByErasure
<1>1. HistoryInv => TornOnlyByErasure
    BY DEF HistoryInv, ReadInv, ReadsCoherent, Coherent, TornOnlyByErasure
<1> QED
    BY <1>1, HistoryInvariant, PTL

-----------------------------------------------------------------------------
(***************************************************************************)
(* What the tracker was given.                                             *)
(***************************************************************************)
HeardInv ==
    /\ HeardWasSaved
    /\ cycle.pc = "observe" => cycle.id \in saved

LEMMA HeardInit == Init => HeardInv
    BY IdleTypes DEF Init, HeardInv, HeardWasSaved, NoneHeard

LEMMA HeardStep == TypeOK /\ HeardInv /\ [Next]_vars => HeardInv'
<1> SUFFICES ASSUME TypeOK, HeardInv, [Next]_vars
             PROVE  HeardInv'
    OBVIOUS
<1> USE DEF HeardInv
<1>x. ASSUME UNCHANGED <<heard, cycle, saved>>
      PROVE  HeardInv'
    BY <1>x DEF HeardWasSaved
<1>1. CASE Tick \/ Scrape \/ (\E r \in Requests : Truncate(r)) \/ UNCHANGED vars
    <2>1. UNCHANGED <<heard, cycle, saved>>
        BY <1>1 DEF Tick, Scrape, ScrapeStart, InsertScrape, InsertIndicator, InsertItem,
            CommitSnapshot, ScrapeFails, Truncate, vars, tracker, ghosts
    <2> QED
        BY <2>1, <1>x
<1>2. CASE Consolidate
    <2>1. CASE CommitConsolidation
        <3>1. heard' = heard
            BY <2>1 DEF CommitConsolidation, tracker
        <3> QED
            BY <2>1, <3>1, CommitConsolidationEffect DEF HeardWasSaved
    <2>2. CASE ObserveNext
        <3>1. PICK k \in Keys :
                 /\ cycle.pc = "observe"
                 /\ heard' = [heard EXCEPT ![k] = @ \cup {[id |-> cycle.id, read |-> cycle.read]}]
                 /\ \/ cycle'.pc = "observe" /\ cycle'.id = cycle.id
                    \/ cycle'.pc = "idle"
            BY <2>2, ObserveNextEffect
        <3>2. saved' = saved
            BY <2>2 DEF ObserveNext, ghosts
        <3>3. \A l \in Keys : heard'[l] \subseteq heard[l] \cup {[id |-> cycle.id, read |-> cycle.read]}
            BY <3>1 DEF TypeOK
        <3> QED
            BY <3>1, <3>2, <3>3 DEF HeardWasSaved
    <2>3. CASE ~ CommitConsolidation /\ ~ ObserveNext
        <3>1. UNCHANGED <<heard, saved>>
            BY <1>2, <2>3 DEF Consolidate, CycleStart, ReadScrapes, ReadIndicators, ReadItems,
                InsertConsolidation, InsertConsolidated, CycleFails, tracker, ghosts
        <3>2. cycle'.pc # "observe"
            BY <1>2, <2>3, CycleStartEffect, ReadScrapesEffect, ReadIndicatorsEffect,
               ReadItemsEffect, InsertConsolidationEffect, InsertConsolidatedEffect, IdleTypes
               DEF Consolidate, CycleFails
        <3> QED
            BY <3>1, <3>2 DEF HeardWasSaved
    <2> QED
        BY <2>1, <2>2, <2>3
<1>3. CASE Crash \/ (\E r \in Requests : ResetTracker(r))
    <2>1. heard' = NoneHeard /\ saved' = saved
        BY <1>3 DEF Crash, ResetTracker, ghosts
    <2>2. cycle' = cycle \/ cycle'.pc = "idle"
        BY <1>3, IdleTypes DEF Crash, ResetTracker
    <2> QED
        BY <2>1, <2>2 DEF HeardWasSaved, NoneHeard
<1> QED
    BY <1>1, <1>2, <1>3 DEF Next, Serve

(***************************************************************************)
(* Nothing is observed of a consolidation that was not committed           *)
(* (consolidator.go:233-246).                                              *)
(***************************************************************************)
THEOREM OnlySavedIsHeard == Spec => []HeardWasSaved
<1>1. TypeOK /\ HeardInv /\ [Next]_vars => (TypeOK /\ HeardInv)'
    BY TypeStep, HeardStep
<1>2. HeardInv => HeardWasSaved
    BY DEF HeardInv
<1> QED
    BY TypeInit, HeardInit, <1>1, <1>2, PTL DEF Spec

-----------------------------------------------------------------------------
(***************************************************************************)
(* How an erasure is outlived.  While one stale scrape is in the table the *)
(* scraper has started afresh, so it cannot be about to add another; the   *)
(* same holds of consolidations, and of what the tracker was given.        *)
(***************************************************************************)
StaleScrapes ==
    /\ \A s \in scrapes : s.gen = gen
    /\ scraper.pc # "idle" => scraper.taken <= gen
    /\ Inserting => \A s \in scraper.tx.scrapes : s.gen = gen /\ s.taken = scraper.taken
    /\ scraper.pc # "idle" /\ (\E s \in scrapes : s.taken < gen) => scraper.taken = gen
    /\ \A s, t \in scrapes : s.taken < gen /\ t.taken < gen => s.id = t.id

StaleReports ==
    /\ cycle.pc \in Reading /\ (\E c \in consolidations : c.read < gen) => cycle.read = gen
    /\ \A c, d \in consolidations : c.read < gen /\ d.read < gen => c.id = d.id

PromisesKept ==
    /\ promised <= gen
    /\ \A r \in Requests : request[r].gen <= gen

StaleHeard ==
    /\ \A k \in Keys : \A h \in heard[k] : Stale(h) =>
         /\ cycle.pc \in Reading => cycle.read >= promised
         /\ cycle.pc = "observe" => cycle.id = h.id \/ cycle.read >= promised
    /\ \A k, l \in Keys : \A h \in heard[k], i \in heard[l] :
         Stale(h) /\ Stale(i) => h.id = i.id

SurvivorInv == StaleScrapes /\ StaleReports /\ PromisesKept /\ StaleHeard

LEMMA SurvivorInit == Init => SurvivorInv
    BY IdleTypes DEF Init, SurvivorInv, StaleScrapes, StaleReports, PromisesKept, StaleHeard,
        Inserting, Reading, NoneHeard, IdleRequest

LEMMA StaleScrapesStep ==
    ASSUME TypeOK, ScrapeIdInv, StaleScrapes, [Next]_vars
    PROVE  StaleScrapes'
<1>t. /\ gen \in Nat /\ scraper.taken \in Nat
      /\ \A s \in scrapes : s.taken \in Nat
    BY DEF TypeOK, Scraper, ScrapeRow
<1>i. ASSUME UNCHANGED <<scrapes, gen>>, scraper'.pc = "idle"
      PROVE  StaleScrapes'
    BY <1>i DEF StaleScrapes, Inserting
<1>x. ASSUME UNCHANGED <<scrapes, gen, scraper>>
      PROVE  StaleScrapes'
    BY <1>x DEF StaleScrapes, Inserting
<1>1. CASE Scrape
    <2>0. gen' = gen
        BY <1>1 DEF Scrape, ScrapeStart, InsertScrape, InsertIndicator, InsertItem,
            CommitSnapshot, ScrapeFails
    <2>1. CASE ScrapeStart
        <3>1. scraper'.pc = "calculate" /\ scraper'.taken = gen /\ scrapes' = scrapes
            BY <2>1 DEF ScrapeStart, IdleScraper, store
        <3> QED
            BY <1>t, <2>0, <3>1 DEF StaleScrapes, Inserting
    <2>2. CASE InsertScrape
        <3>1. PICK m \in SUBSET Workloads :
                 /\ scraper'.pc = "indicator"
                 /\ scraper'.taken = scraper.taken
                 /\ scraper'.tx.scrapes = {[id |-> lastScrape + 1, gen |-> gen, at |-> now,
                                            taken |-> scraper.taken, measured |-> m]}
            BY <2>2, InsertScrapeEffect
        <3>2. \A s \in scraper'.tx.scrapes : s.gen = gen /\ s.taken = scraper.taken
            BY <3>1
        <3>3. scraper.pc # "idle" /\ scrapes' = scrapes
            BY <2>2 DEF InsertScrape, store
        <3> QED
            BY <2>0, <3>1, <3>2, <3>3 DEF StaleScrapes, Inserting
    <2>3. CASE InsertIndicator \/ InsertItem
        <3>1. /\ Inserting /\ scraper'.pc = "items" /\ scraper'.taken = scraper.taken
              /\ scraper'.tx.scrapes = scraper.tx.scrapes
            BY <2>3, InsertIndicatorEffect, InsertItemEffect DEF Inserting
        <3>2. scrapes' = scrapes
            BY <2>3 DEF InsertIndicator, InsertItem, store
        <3> QED
            BY <2>0, <3>1, <3>2 DEF StaleScrapes, Inserting
    <2>4. CASE CommitSnapshot
        <3>1. /\ Inserting /\ scraper.pc # "idle" /\ scraper'.pc = "idle"
              /\ scrapes' = scrapes \cup scraper.tx.scrapes
            BY <2>4, CommitSnapshotEffect DEF Inserting
        <3>2. \A s \in scraper.tx.scrapes : s.gen = gen /\ s.taken = scraper.taken
            BY <3>1 DEF StaleScrapes
        <3>3. \A s, t \in scraper.tx.scrapes : s.id = t.id
            BY <3>1 DEF ScrapeIdInv
        <3>4. scraper.taken < gen => \A s \in scrapes : ~ (s.taken < gen)
            BY <1>t, <3>1 DEF StaleScrapes
        <3>5. \A s, t \in scrapes' : s.taken < gen /\ t.taken < gen => s.id = t.id
            BY <3>1, <3>2, <3>3, <3>4 DEF StaleScrapes
        <3> QED
            BY <2>0, <3>1, <3>2, <3>5 DEF StaleScrapes, Inserting
    <2>5. CASE ScrapeFails
        BY <2>0, <2>5, <1>i, IdleTypes DEF ScrapeFails, store
    <2> QED
        BY <1>1, <2>1, <2>2, <2>3, <2>4, <2>5 DEF Scrape
<1>2. CASE Tick \/ Consolidate \/ (\E r \in Requests : ResetTracker(r)) \/ UNCHANGED vars
    <2>1. UNCHANGED <<scrapes, gen, scraper>>
        BY <1>2 DEF Tick, Consolidate, CycleStart, ReadScrapes, ReadIndicators, ReadItems,
            InsertConsolidation, InsertConsolidated, CommitConsolidation, CycleFails,
            ObserveNext, ResetTracker, vars, store
    <2> QED
        BY <2>1, <1>x
<1>3. ASSUME NEW r \in Requests, Truncate(r)
      PROVE  StaleScrapes'
    <2>1. scrapes' = {} /\ gen' = gen + 1 /\ scraper' = scraper /\ ~ Inserting
        BY <1>3 DEF Truncate, Erased, NoInsertsPending, Inserting
    <2> QED
        BY <1>t, <2>1 DEF StaleScrapes, Inserting
<1>4. CASE Crash
    BY <1>4, <1>i, IdleTypes DEF Crash, store
<1> QED
    BY <1>1, <1>2, <1>3, <1>4 DEF Next, Serve

LEMMA StaleReportsStep ==
    ASSUME TypeOK, ReportInv, ReadInv, StaleReports, [Next]_vars
    PROVE  StaleReports'
<1>t. /\ gen \in Nat /\ cycle.read \in Nat
      /\ \A c \in consolidations : c.read \in Nat
    BY DEF TypeOK, Cycle, ConsolidationRow
<1>x. ASSUME UNCHANGED <<consolidations, gen>>, cycle' = cycle \/ cycle'.pc \notin Reading
      PROVE  StaleReports'
    BY <1>x DEF StaleReports
<1>1. CASE Consolidate
    <2>0. gen' = gen
        BY <1>1 DEF Consolidate, CycleStart, ReadScrapes, ReadIndicators, ReadItems,
            InsertConsolidation, InsertConsolidated, CommitConsolidation, CycleFails, ObserveNext
    <2>1. CASE CycleStart \/ CycleFails \/ ObserveNext
        <3>1. cycle'.pc \in {"scrapes", "idle", "observe"}
            BY <2>1, CycleStartEffect, ObserveNextEffect, IdleTypes DEF CycleFails
        <3>2. UNCHANGED consolidations
            BY <2>1 DEF CycleStart, CycleFails, ObserveNext, store
        <3> QED
            BY <2>0, <3>1, <3>2, <1>x DEF Reading
    <2>2. CASE ReadScrapes
        <3>1. UNCHANGED consolidations
            BY <2>2 DEF ReadScrapes, store
        <3>2. cycle'.pc = "idle" \/ cycle'.read = gen
            BY <2>2, ReadScrapesEffect
        <3> QED
            BY <2>0, <3>1, <3>2 DEF StaleReports, Reading
    <2>3. CASE ReadIndicators \/ ReadItems \/ InsertConsolidation \/ InsertConsolidated
        <3>1. UNCHANGED consolidations
            BY <2>3 DEF ReadIndicators, ReadItems, InsertConsolidation, InsertConsolidated, store
        <3>2. cycle'.pc = "idle" \/ (cycle.pc \in Reading /\ cycle'.read = cycle.read)
            BY <2>3, ReadIndicatorsEffect, ReadItemsEffect, InsertConsolidationEffect,
               InsertConsolidatedEffect DEF Reading
        <3> QED
            BY <2>0, <3>1, <3>2 DEF StaleReports, Reading
    <2>4. CASE CommitConsolidation
        <3>1. /\ cycle.pc \in Reading /\ cycle'.pc \notin Reading
              /\ consolidations' = consolidations \cup {Averaged(cycle.id)}
            BY <2>4, CommitConsolidationEffect DEF Reading, ReportInv, ReportTxWhole
        <3>2. Averaged(cycle.id).read = cycle.read
            BY DEF Averaged
        <3>3. cycle.read < gen => \A c \in consolidations : ~ (c.read < gen)
            BY <1>t, <3>1 DEF StaleReports
        <3>4. \A c, d \in consolidations' : c.read < gen /\ d.read < gen => c.id = d.id
            BY <3>1, <3>2, <3>3 DEF StaleReports
        <3> QED
            BY <2>0, <3>1, <3>4 DEF StaleReports
    <2> QED
        BY <1>1, <2>1, <2>2, <2>3, <2>4 DEF Consolidate
<1>2. CASE Tick \/ Scrape \/ (\E r \in Requests : ResetTracker(r)) \/ UNCHANGED vars
    <2>1. UNCHANGED <<consolidations, gen, cycle>>
        BY <1>2 DEF Tick, Scrape, ScrapeStart, InsertScrape, InsertIndicator, InsertItem,
            CommitSnapshot, ScrapeFails, ResetTracker, vars, store
    <2> QED
        BY <2>1, <1>x
<1>3. ASSUME NEW r \in Requests, Truncate(r)
      PROVE  StaleReports'
    BY <1>3 DEF Truncate, Erased, StaleReports
<1>4. CASE Crash
    BY <1>4, <1>x, IdleTypes DEF Crash, store, Reading
<1> QED
    BY <1>1, <1>2, <1>3, <1>4 DEF Next, Serve

LEMMA PromisesStep ==
    ASSUME TypeOK, PromisesKept, [Next]_vars
    PROVE  PromisesKept'
<1>t. gen \in Nat /\ promised \in Nat /\ \A r \in Requests : request[r].gen \in Nat
    BY DEF TypeOK
<1>1. CASE Tick \/ Scrape \/ Consolidate \/ UNCHANGED vars
    <2>1. UNCHANGED <<gen, promised, request>>
        BY <1>1 DEF Tick, Scrape, ScrapeStart, InsertScrape, InsertIndicator, InsertItem,
            CommitSnapshot, ScrapeFails, Consolidate, CycleStart, ReadScrapes, ReadIndicators,
            ReadItems, InsertConsolidation, InsertConsolidated, CommitConsolidation,
            CycleFails, ObserveNext, vars, ghosts
    <2> QED
        BY <2>1 DEF PromisesKept
<1>2. ASSUME NEW r \in Requests, Truncate(r)
      PROVE  PromisesKept'
    <2>1. gen' = gen + 1 /\ promised' = promised
        BY <1>2 DEF Truncate, Erased, ghosts
    <2>2. \A q \in Requests : request'[q].gen \in {request[q].gen, gen + 1}
        BY <1>2 DEF Truncate, TypeOK
    <2> QED
        BY <1>t, <2>1, <2>2 DEF PromisesKept
<1>3. ASSUME NEW r \in Requests, ResetTracker(r)
      PROVE  PromisesKept'
    <2>1. gen' = gen /\ promised' \in {promised, request[r].gen}
        BY <1>3 DEF ResetTracker, Later
    <2>2. \A q \in Requests : request'[q].gen \in {request[q].gen, 0}
        BY <1>3 DEF ResetTracker, IdleRequest, TypeOK
    <2> QED
        BY <1>t, <2>1, <2>2 DEF PromisesKept
<1>4. CASE Crash
    BY <1>t, <1>4 DEF Crash, ghosts, PromisesKept, IdleRequest
<1> QED
    BY <1>1, <1>2, <1>3, <1>4 DEF Next, Serve

LEMMA StaleHeardStep ==
    ASSUME TypeOK, PromisesKept, StaleHeard, [Next]_vars
    PROVE  StaleHeard'
<1>t. gen \in Nat /\ promised \in Nat /\ cycle.read \in Nat /\ promised <= gen
    BY DEF TypeOK, Cycle, PromisesKept
<1>x. ASSUME UNCHANGED <<heard, promised>>,
             cycle' = cycle \/ cycle'.pc \notin Reading \cup {"observe"}
      PROVE  StaleHeard'
    BY <1>x DEF StaleHeard, Stale
<1>1. CASE Consolidate
    <2>0. promised' = promised
        BY <1>1 DEF Consolidate, CycleStart, ReadScrapes, ReadIndicators, ReadItems,
            InsertConsolidation, InsertConsolidated, CommitConsolidation, CycleFails,
            ObserveNext, ghosts
    <2>1. CASE CycleStart \/ CycleFails
        <3>1. cycle'.pc \in {"scrapes", "idle"} /\ heard' = heard
            BY <2>1, CycleStartEffect, IdleTypes DEF CycleStart, CycleFails, tracker
        <3> QED
            BY <2>0, <3>1, <1>x DEF Reading
    <2>2. CASE ReadScrapes
        <3>1. heard' = heard
            BY <2>2 DEF ReadScrapes, tracker
        <3>2. cycle'.pc = "idle" \/ (cycle'.pc = "indicators" /\ cycle'.read >= promised)
            BY <1>t, <2>2, ReadScrapesEffect
        <3> QED
            BY <2>0, <3>1, <3>2 DEF StaleHeard, Stale, Reading
    <2>3. CASE ReadIndicators \/ ReadItems \/ InsertConsolidation \/ InsertConsolidated
        <3>1. heard' = heard
            BY <2>3 DEF ReadIndicators, ReadItems, InsertConsolidation, InsertConsolidated, tracker
        <3>2. \/ cycle'.pc = "idle"
              \/ cycle.pc \in Reading /\ cycle'.pc \in Reading /\ cycle'.read = cycle.read
            BY <2>3, ReadIndicatorsEffect, ReadItemsEffect, InsertConsolidationEffect,
               InsertConsolidatedEffect DEF Reading
        <3> QED
            BY <2>0, <3>1, <3>2 DEF StaleHeard, Stale, Reading
    <2>4. CASE CommitConsolidation
        <3>1. heard' = heard
            BY <2>4 DEF CommitConsolidation, tracker
        <3>2. /\ cycle.pc \in Reading
              /\ \/ cycle'.pc = "observe" /\ cycle'.read = cycle.read
                 \/ cycle'.pc = "idle"
            BY <2>4, CommitConsolidationEffect DEF Reading
        <3> QED
            BY <2>0, <3>1, <3>2 DEF StaleHeard, Stale, Reading
    <2>5. CASE ObserveNext
        <3>1. PICK k \in Keys :
                 /\ cycle.pc = "observe"
                 /\ heard' = [heard EXCEPT ![k] = @ \cup {[id |-> cycle.id, read |-> cycle.read]}]
                 /\ \/ cycle'.pc = "observe" /\ cycle'.id = cycle.id /\ cycle'.read = cycle.read
                    \/ cycle'.pc = "idle"
            BY <2>5, ObserveNextEffect
        <3> DEFINE new == [id |-> cycle.id, read |-> cycle.read]
        <3>2. new.id = cycle.id /\ new.read = cycle.read
            OBVIOUS
        <3>3. \A l \in Keys : heard'[l] \subseteq heard[l] \cup {new}
            BY <3>1 DEF TypeOK
        <3> HIDE DEF new
        <3>4. \A l \in Keys : \A h \in heard[l] :
                 Stale(h) /\ Stale(new) => h.id = new.id
            BY <1>t, <3>1, <3>2 DEF StaleHeard, Stale
        <3>5. \A k1, l1 \in Keys : \A h \in heard'[k1], i \in heard'[l1] :
                 Stale(h) /\ Stale(i) => h.id = i.id
            BY <3>3, <3>4 DEF StaleHeard
        <3>6. \A l \in Keys : \A h \in heard'[l] : Stale(h) =>
                 (cycle'.pc = "observe" => cycle'.id = h.id \/ cycle'.read >= promised)
            BY <3>1, <3>2, <3>3 DEF StaleHeard
        <3>7. cycle'.pc \notin Reading
            BY <3>1 DEF Reading
        <3> QED
            BY <2>0, <3>5, <3>6, <3>7 DEF StaleHeard, Stale
    <2> QED
        BY <1>1, <2>1, <2>2, <2>3, <2>4, <2>5 DEF Consolidate
<1>2. CASE Tick \/ Scrape \/ (\E r \in Requests : Truncate(r)) \/ UNCHANGED vars
    <2>1. UNCHANGED <<heard, promised, cycle>>
        BY <1>2 DEF Tick, Scrape, ScrapeStart, InsertScrape, InsertIndicator, InsertItem,
            CommitSnapshot, ScrapeFails, Truncate, vars, tracker, ghosts
    <2> QED
        BY <2>1, <1>x
<1>3. CASE Crash \/ (\E r \in Requests : ResetTracker(r))
    BY <1>3 DEF Crash, ResetTracker, StaleHeard, NoneHeard
<1> QED
    BY <1>1, <1>2, <1>3 DEF Next, Serve

(***************************************************************************)
(* At most one scrape and one consolidation that were in flight survive an *)
(* erasure, and at most one consolidation of before it reaches the tracker *)
(* after the handler answered 200 (experiment_reset.go:75-81).             *)
(***************************************************************************)
THEOREM FewSurvivors == Spec => []AtMostOneSurvivor
<1> DEFINE IInv == HistoryInv /\ SurvivorInv
<1>1. Init => IInv
    BY TypeInit, SnapshotInit, ReportInit, ScrapeIdInit, ReadInit, SurvivorInit DEF HistoryInv
<1>2. IInv /\ [Next]_vars => IInv'
    <2> SUFFICES ASSUME IInv, [Next]_vars
                 PROVE  IInv'
        OBVIOUS
    <2>1. HistoryInv'
        BY TypeStep, SnapshotStep, ReportStep, ScrapeIdStep, ReadStep DEF HistoryInv
    <2>2. SurvivorInv'
        BY StaleScrapesStep, StaleReportsStep, PromisesStep, StaleHeardStep
           DEF HistoryInv, SurvivorInv
    <2> QED
        BY <2>1, <2>2
<1>3. IInv => AtMostOneSurvivor
    <2> SUFFICES ASSUME IInv
                 PROVE  AtMostOneSurvivor
        OBVIOUS
    <2>1. \A s \in scrapes : s.gen = gen
        BY DEF SurvivorInv, StaleScrapes
    <2> QED
        BY <2>1 DEF SurvivorInv, StaleScrapes, StaleReports, StaleHeard, AtMostOneSurvivor
<1> QED
    BY <1>1, <1>2, <1>3, PTL DEF Spec

-----------------------------------------------------------------------------
(***************************************************************************)
(* Consolidation ids are never used twice either.                          *)
(***************************************************************************)
ReportIdInv ==
    /\ \A c \in consolidations : c.id <= lastConsolidation
    /\ \A c, d \in consolidations : c.id = d.id => c = d
    /\ cycle.pc = "workloads" =>
         /\ cycle.id \in 1..lastConsolidation
         /\ \A c \in consolidations : c.id < cycle.id

LEMMA ReportIdInit == Init => ReportIdInv
    BY IdleTypes DEF Init, ReportIdInv

LEMMA ReportIdStep ==
    ASSUME TypeOK, ReportInv, ReportIdInv, [Next]_vars
    PROVE  ReportIdInv'
<1>t. /\ lastConsolidation \in Nat /\ cycle.id \in Nat
      /\ \A c \in consolidations : c.id \in Nat
    BY DEF TypeOK, Cycle, ConsolidationRow
<1>x. ASSUME UNCHANGED <<consolidations, lastConsolidation>>,
             cycle' = cycle \/ cycle'.pc # "workloads"
      PROVE  ReportIdInv'
    BY <1>x DEF ReportIdInv
<1>1. CASE Consolidate
    <2>1. CASE InsertConsolidation
        <3>1. lastConsolidation' = lastConsolidation + 1 /\ consolidations' = consolidations
            BY <2>1 DEF InsertConsolidation, store
        <3> QED
            BY <1>t, <2>1, <3>1, InsertConsolidationEffect DEF ReportIdInv
    <2>2. CASE InsertConsolidated
        <3>1. UNCHANGED <<consolidations, lastConsolidation>>
            BY <2>2 DEF InsertConsolidated, store, sequences
        <3> QED
            BY <2>2, <3>1, InsertConsolidatedEffect DEF ReportIdInv
    <2>3. CASE CommitConsolidation
        <3>1. /\ cycle.pc = "workloads" /\ cycle'.pc # "workloads"
              /\ consolidations' = consolidations \cup {Averaged(cycle.id)}
            BY <2>3, CommitConsolidationEffect DEF ReportInv, ReportTxWhole
        <3>2. lastConsolidation' = lastConsolidation
            BY <2>3 DEF CommitConsolidation, sequences
        <3>3. Averaged(cycle.id).id = cycle.id
            BY DEF Averaged
        <3> QED
            BY <1>t, <3>1, <3>2, <3>3 DEF ReportIdInv
    <2>4. CASE ~ InsertConsolidation /\ ~ InsertConsolidated /\ ~ CommitConsolidation
        <3>1. UNCHANGED <<consolidations, lastConsolidation>>
            BY <1>1, <2>4 DEF Consolidate, CycleStart, ReadScrapes, ReadIndicators, ReadItems,
                CycleFails, ObserveNext, store, sequences
        <3>2. cycle'.pc # "workloads"
            BY <1>1, <2>4, CycleStartEffect, ReadScrapesEffect, ReadIndicatorsEffect,
               ReadItemsEffect, ObserveNextEffect, IdleTypes DEF Consolidate, CycleFails
        <3> QED
            BY <3>1, <3>2, <1>x
    <2> QED
        BY <2>1, <2>2, <2>3, <2>4
<1>2. CASE Tick \/ Scrape \/ (\E r \in Requests : ResetTracker(r)) \/ UNCHANGED vars
    <2>1. UNCHANGED <<consolidations, lastConsolidation, cycle>>
        BY <1>2 DEF Tick, Scrape, ScrapeStart, InsertScrape, InsertIndicator, InsertItem,
            CommitSnapshot, ScrapeFails, ResetTracker, vars, store, sequences
    <2> QED
        BY <2>1, <1>x
<1>3. ASSUME NEW r \in Requests, Truncate(r)
      PROVE  ReportIdInv'
    BY <1>3 DEF Truncate, Erased, NoInsertsPending, ReportIdInv, sequences
<1>4. CASE Crash
    BY <1>4, <1>x, IdleTypes DEF Crash, store, sequences
<1> QED
    BY <1>1, <1>2, <1>3, <1>4 DEF Next, Serve

-----------------------------------------------------------------------------
(***************************************************************************)
(* Refinement.  In a whole history the mapping of Store is a map over the  *)
(* committed scrapes and consolidations.                                   *)
(***************************************************************************)
WholeSnapshot(s) == [id |-> s.id, measured |-> TRUE, items |-> s.measured]

WholeReport(c) == [id |-> c.id, items |-> {x.w : x \in c.rows.items}]

LEMMA SnapshotsMapped ==
    SnapshotsWhole /\ ScrapeIdInv => Snapshots = {WholeSnapshot(s) : s \in scrapes}
<1> SUFFICES ASSUME SnapshotsWhole, ScrapeIdInv
             PROVE  Snapshots = {WholeSnapshot(s) : s \in scrapes}
    OBVIOUS
<1>1. ASSUME NEW s \in scrapes
      PROVE  SnapshotOf(s) = WholeSnapshot(s)
    <2>1. [id |-> s.id, gen |-> s.gen] \in indicators
        BY DEF SnapshotsWhole, RowsOf
    <2>2. \A y \in items : y.id = s.id => y.w \in s.measured
        BY DEF SnapshotsWhole, ItemsOf, ScrapeIdInv
    <2>3. ASSUME NEW w \in s.measured
          PROVE  \E y \in items : y.id = s.id /\ y.w = w
        <3>1. [id |-> s.id, gen |-> s.gen, w |-> w] \in items
            BY DEF SnapshotsWhole, ItemsOf
        <3> QED
            BY <3>1
    <2>4. {x.w : x \in {y \in items : y.id = s.id}} = s.measured
        BY <2>2, <2>3
    <2> QED
        BY <2>1, <2>4 DEF SnapshotOf, WholeSnapshot
<1> QED
    BY <1>1 DEF Snapshots

LEMMA ReportsMapped ==
    ReportsWhole /\ ReportIdInv => Reports = {WholeReport(c) : c \in consolidations}
<1> SUFFICES ASSUME ReportsWhole, ReportIdInv
             PROVE  Reports = {WholeReport(c) : c \in consolidations}
    OBVIOUS
<1>1. ASSUME NEW c \in consolidations
      PROVE  ReportOf(c) = WholeReport(c)
    <2>1. \A y \in consolidated : y.id = c.id => y.w \in {x.w : x \in c.rows.items}
        BY DEF ReportsWhole, ReportIdInv
    <2>2. ASSUME NEW v \in c.rows.items
          PROVE  \E y \in consolidated : y.id = c.id /\ y.w = v.w
        <3>1. [id |-> c.id, w |-> v.w] \in consolidated
            BY DEF ReportsWhole
        <3> QED
            BY <3>1
    <2>3. {x.w : x \in {y \in consolidated : y.id = c.id}} = {x.w : x \in c.rows.items}
        BY <2>1, <2>2
    <2> QED
        BY <2>3 DEF ReportOf, WholeReport
<1> QED
    BY <1>1 DEF Reports

StoreInv == HistoryInv /\ ReportIdInv

LEMMA StoreInit == Init => Store!Init
    BY IdleTypes DEF Init, Store!Init, Snapshots, Reports, UsedIds, OpenIds, OpenScrapes,
        OpenConsolidations

LEMMA StoreStep ==
    ASSUME StoreInv, StoreInv', [Next]_vars
    PROVE  [Store!Next]_(Store!vars)
<1>t. lastScrape \in Nat /\ lastConsolidation \in Nat
    BY DEF StoreInv, HistoryInv, TypeOK
<1>m. /\ Snapshots = {WholeSnapshot(s) : s \in scrapes}
      /\ Reports = {WholeReport(c) : c \in consolidations}
    BY SnapshotsMapped, ReportsMapped DEF StoreInv, HistoryInv, SnapshotInv, ReportInv
<1>n. /\ Snapshots' = {WholeSnapshot(s) : s \in scrapes'}
      /\ Reports' = {WholeReport(c) : c \in consolidations'}
    <2>1. SnapshotsWhole' /\ ScrapeIdInv' /\ ReportsWhole' /\ ReportIdInv'
        BY DEF StoreInv, HistoryInv, SnapshotInv, ReportInv
    <2>2. (Snapshots = {WholeSnapshot(s) : s \in scrapes})'
        BY <2>1, SnapshotsMapped, PTL
    <2>3. (Reports = {WholeReport(c) : c \in consolidations})'
        BY <2>1, ReportsMapped, PTL
    <2> QED
        BY <2>2, <2>3 DEF WholeSnapshot, WholeReport
<1>a. ASSUME UNCHANGED <<scrapes, consolidations, lastScrape, lastConsolidation>>,
             OpenScrapes' \subseteq OpenScrapes, OpenConsolidations' \subseteq OpenConsolidations
      PROVE  Store!Next
    <2>1. UNCHANGED <<Snapshots, Reports, UsedIds>>
        BY <1>a, <1>m, <1>n DEF UsedIds
    <2> QED
        BY <1>a, <2>1 DEF Store!Next, Store!GiveUp, OpenIds
<1>1. CASE Scrape
    <2>1. UNCHANGED <<consolidations, lastConsolidation, OpenConsolidations>>
        BY <1>1 DEF Scrape, ScrapeStart, InsertScrape, InsertIndicator, InsertItem,
            CommitSnapshot, ScrapeFails, store, sequences, OpenConsolidations
    <2>2. CASE InsertScrape
        <3>1. scrapes' = scrapes /\ lastScrape' = lastScrape + 1
            BY <2>2 DEF InsertScrape, store
        <3>2. OpenScrapes = {} /\ OpenScrapes' = {lastScrape + 1}
            <4>1. OpenScrapes = {}
                BY <2>2 DEF InsertScrape, OpenScrapes
            <4>2. PICK m \in SUBSET Workloads :
                    /\ scraper'.pc = "indicator"
                    /\ scraper'.tx.scrapes = {[id |-> lastScrape + 1, gen |-> gen, at |-> now,
                                               taken |-> scraper.taken, measured |-> m]}
                BY <2>2, InsertScrapeEffect DEF StoreInv, HistoryInv
            <4>3. OpenScrapes' = {s.id : s \in scraper'.tx.scrapes}
                BY <4>2 DEF OpenScrapes
            <4> QED
                BY <4>1, <4>2, <4>3
        <3>3. UNCHANGED <<Snapshots, Reports>>
            BY <1>m, <1>n, <2>1, <3>1
        <3>4. Store!TakeSnapshotId
            BY <2>1, <3>1, <3>2, <3>3 DEF Store!TakeSnapshotId, UsedIds, OpenIds
        <3> QED
            BY <3>4 DEF Store!Next
    <2>3. CASE CommitSnapshot
        <3>1. /\ Inserting /\ scrapes' = scrapes \cup scraper.tx.scrapes
              /\ lastScrape' = lastScrape
            BY <2>3, CommitSnapshotEffect DEF CommitSnapshot, sequences, StoreInv, HistoryInv
        <3>0. OpenScrapes' = {} /\ OpenScrapes = {s.id : s \in scraper.tx.scrapes}
            BY <2>3, IdleTypes DEF CommitSnapshot, OpenScrapes
        <3>2. CASE scraper.tx.scrapes = {}
            BY <1>a, <2>1, <3>0, <3>1, <3>2
        <3>3. ASSUME NEW t \in scraper.tx.scrapes
              PROVE  Store!AddSnapshot
            <4>1. scraper.tx.scrapes = {t}
                BY <3>1, <3>3 DEF StoreInv, HistoryInv, ScrapeIdInv
            <4>2. t.measured \in SUBSET Workloads
                BY <3>3 DEF StoreInv, HistoryInv, TypeOK, Scraper, SnapshotTx, ScrapeRow
            <4>3. OpenIds.snapshots = {t.id} /\ OpenIds' = [OpenIds EXCEPT !.snapshots = @ \ {t.id}]
                <5>1. OpenScrapes = {t.id}
                    BY <3>0, <4>1
                <5>2. OpenScrapes' = OpenScrapes \ {t.id}
                    BY <3>0, <5>1
                <5>3. OpenConsolidations' = OpenConsolidations
                    BY <2>1
                <5> QED
                    BY <5>1, <5>2, <5>3 DEF OpenIds
            <4>4. Snapshots' = Snapshots
                    \cup {[id |-> t.id, measured |-> TRUE, items |-> t.measured]}
                BY <1>m, <1>n, <3>1, <4>1 DEF WholeSnapshot
            <4>5. UNCHANGED <<Reports, UsedIds>>
                BY <1>m, <1>n, <2>1, <3>1 DEF UsedIds
            <4> QED
                BY <4>2, <4>3, <4>4, <4>5 DEF Store!AddSnapshot
        <3> QED
            BY <3>2, <3>3 DEF Store!Next
    <2>4. CASE ~ InsertScrape /\ ~ CommitSnapshot
        <3>1. UNCHANGED <<scrapes, lastScrape>>
            BY <1>1, <2>4 DEF Scrape, ScrapeStart, InsertIndicator, InsertItem, ScrapeFails,
                store, sequences
        <3>2. OpenScrapes' \subseteq OpenScrapes
            <4>1. CASE ScrapeStart \/ ScrapeFails
                BY <4>1, IdleTypes DEF ScrapeStart, ScrapeFails, OpenScrapes, IdleScraper
            <4>2. CASE InsertIndicator
                BY <4>2, InsertIndicatorEffect DEF StoreInv, HistoryInv, OpenScrapes
            <4>3. CASE InsertItem
                BY <4>3, InsertItemEffect DEF StoreInv, HistoryInv, OpenScrapes
            <4> QED
                BY <1>1, <2>4, <4>1, <4>2, <4>3 DEF Scrape
        <3> QED
            BY <1>a, <2>1, <3>1, <3>2
    <2> QED
        BY <2>2, <2>3, <2>4
<1>2. CASE Consolidate
    <2>1. UNCHANGED <<scrapes, lastScrape, OpenScrapes>>
        BY <1>2 DEF Consolidate, CycleStart, ReadScrapes, ReadIndicators, ReadItems,
            InsertConsolidation, InsertConsolidated, CommitConsolidation, CycleFails,
            ObserveNext, store, sequences, OpenScrapes
    <2>2. CASE InsertConsolidation
        <3>1. consolidations' = consolidations /\ lastConsolidation' = lastConsolidation + 1
            BY <2>2 DEF InsertConsolidation, store
        <3>2. OpenConsolidations = {} /\ OpenConsolidations' = {lastConsolidation + 1}
            BY <2>2, InsertConsolidationEffect DEF StoreInv, HistoryInv, OpenConsolidations
        <3>3. UNCHANGED <<Snapshots, Reports>>
            BY <1>m, <1>n, <2>1, <3>1
        <3>4. Store!TakeReportId
            BY <2>1, <3>1, <3>2, <3>3 DEF Store!TakeReportId, UsedIds, OpenIds
        <3> QED
            BY <3>4 DEF Store!Next
    <2>3. CASE CommitConsolidation
        <3>1. /\ cycle.pc = "workloads" /\ lastConsolidation' = lastConsolidation
              /\ consolidations' = consolidations \cup {Averaged(cycle.id)}
            BY <2>3, CommitConsolidationEffect
               DEF CommitConsolidation, sequences, StoreInv, HistoryInv, ReportInv, ReportTxWhole
        <3>2. OpenConsolidations = {cycle.id} /\ OpenConsolidations' = {}
            BY <2>3, <3>1, CommitConsolidationEffect DEF StoreInv, HistoryInv, OpenConsolidations
        <3>3. Grouped \in SUBSET Workloads
            BY DEF StoreInv, HistoryInv, TypeOK, Cycle, Reads, ItemRow, Grouped
        <3>4. /\ OpenIds.reports = {cycle.id}
              /\ OpenIds' = [OpenIds EXCEPT !.reports = @ \ {cycle.id}]
            BY <2>1, <3>2 DEF OpenIds
        <3>5. WholeReport(Averaged(cycle.id)) = [id |-> cycle.id, items |-> Grouped]
            BY DEF WholeReport, Averaged, Grouped
        <3>6. Reports' = Reports \cup {[id |-> cycle.id, items |-> Grouped]}
            BY <1>m, <1>n, <3>1, <3>5
        <3>7. UNCHANGED <<Snapshots, UsedIds>>
            BY <1>m, <1>n, <2>1, <3>1 DEF UsedIds
        <3> QED
            BY <3>3, <3>4, <3>6, <3>7 DEF Store!Next, Store!AddReport
    <2>4. CASE ~ InsertConsolidation /\ ~ CommitConsolidation
        <3>1. UNCHANGED <<consolidations, lastConsolidation>>
            BY <1>2, <2>4 DEF Consolidate, CycleStart, ReadScrapes, ReadIndicators, ReadItems,
                InsertConsolidated, CycleFails, ObserveNext, store, sequences
        <3>2. OpenConsolidations' \subseteq OpenConsolidations
            <4>1. CASE CycleStart \/ CycleFails
                BY <4>1, IdleTypes, CycleStartEffect DEF CycleFails, OpenConsolidations
            <4>2. CASE ReadScrapes \/ ReadIndicators \/ ReadItems
                BY <4>2, ReadScrapesEffect, ReadIndicatorsEffect, ReadItemsEffect
                   DEF StoreInv, HistoryInv, OpenConsolidations
            <4>3. CASE InsertConsolidated
                BY <4>3, InsertConsolidatedEffect DEF StoreInv, HistoryInv, OpenConsolidations
            <4>4. CASE ObserveNext
                BY <4>4, ObserveNextEffect DEF StoreInv, HistoryInv, OpenConsolidations
            <4> QED
                BY <1>2, <2>4, <4>1, <4>2, <4>3, <4>4 DEF Consolidate
        <3> QED
            BY <1>a, <2>1, <3>1, <3>2
    <2> QED
        BY <2>2, <2>3, <2>4
<1>3. ASSUME NEW r \in Requests, Truncate(r)
      PROVE  Store!Next
    <2>1. scrapes' = {} /\ consolidations' = {} /\ UNCHANGED <<UsedIds, OpenIds>>
        BY <1>3 DEF Truncate, Erased, sequences, UsedIds, OpenIds, OpenScrapes, OpenConsolidations
    <2>2. Snapshots' = {} /\ Reports' = {}
        BY <1>n, <2>1
    <2> QED
        BY <2>1, <2>2 DEF Store!Next, Store!Erase
<1>4. CASE Tick \/ Crash \/ (\E r \in Requests : ResetTracker(r)) \/ UNCHANGED vars
    <2>1. UNCHANGED <<scrapes, consolidations, lastScrape, lastConsolidation>>
        BY <1>4 DEF Tick, Crash, ResetTracker, vars, store, sequences
    <2>2. OpenScrapes' \subseteq OpenScrapes /\ OpenConsolidations' \subseteq OpenConsolidations
        BY <1>4, IdleTypes DEF Tick, Crash, ResetTracker, vars, OpenScrapes, OpenConsolidations
    <2> QED
        BY <2>1, <2>2, <1>a
<1> QED
    BY <1>1, <1>2, <1>3, <1>4 DEF Next, Serve

(***************************************************************************)
(* The tables and their transactions implement AnalysisStore: in every     *)
(* execution whole snapshots and whole reports come and go in single steps *)
(* (db.go:67-123, 232-279, 476-485).                                       *)
(***************************************************************************)
THEOREM PipelineRefinesStore == Spec => ImplementsAnalysisStore
<1>1. Init => StoreInv
    BY TypeInit, SnapshotInit, ReportInit, ScrapeIdInit, ReadInit, ReportIdInit
       DEF StoreInv, HistoryInv
<1>2. StoreInv /\ [Next]_vars => StoreInv'
    BY TypeStep, SnapshotStep, ReportStep, ScrapeIdStep, ReadStep, ReportIdStep
       DEF StoreInv, HistoryInv
<1>3. StoreInv /\ StoreInv' /\ [Next]_vars => [Store!Next]_(Store!vars)
    BY StoreStep
<1> QED
    BY StoreInit, <1>1, <1>2, <1>3, PTL DEF Spec, ImplementsAnalysisStore, Store!Spec
=============================================================================
