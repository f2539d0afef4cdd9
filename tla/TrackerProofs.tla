--------------------------- MODULE TrackerProofs ---------------------------
(***************************************************************************)
(* Proofs about the tracker (module Tracker), and about the tracker with   *)
(* the loop that drives it (module Cadence), for all keys, durations,      *)
(* intervals and bounds.                                                   *)
(***************************************************************************)
EXTENDS Cadence, TLAPS

USE RequiredAssumption, DurationsAssumption, BoundsAssumption DEF Zero, Signal!NoAlert

-----------------------------------------------------------------------------
(***************************************************************************)
(* Appending to a history keeps it a history and its earlier observations. *)
(***************************************************************************)
LEMMA Appended ==
    ASSUME NEW h \in Seq(Signal!Observation), NEW x \in Signal!Observation
    PROVE  LET g == Append(h, x) IN
           /\ g \in Seq(Signal!Observation)
           /\ Len(g) = Len(h) + 1
           /\ Len(h) \in Nat
           /\ \A i \in 1..Len(h) : g[i] = h[i]
           /\ g[Len(h) + 1] = x
    OBVIOUS

LEMMA ObservationType ==
    ASSUME NEW h \in Seq(Signal!Observation), NEW i \in 1..Len(h)
    PROVE  /\ h[i] \in Signal!Observation
           /\ h[i].at \in Nat
           /\ h[i].exceeds \in BOOLEAN
           /\ h[i].sustained \in Nat \cup {-1}
<1>1. h[i] \in Signal!Observation
    OBVIOUS
<1> QED
    BY <1>1 DEF Signal!Observation

(***************************************************************************)
(* The record after the gap check keeps its type.                          *)
(***************************************************************************)
LEMMA NotedType ==
    ASSUME TypeOK, NEW k \in Keys, NEW e \in BOOLEAN
    PROVE  /\ Noted(k, e) \in TrackedState
           /\ Noted(k, e).lastExceeds = e
           /\ Noted(k, e).lastObservedAt = now
           /\ Noted(k, e).lastNotifiedAt = states[k].lastNotifiedAt
<1>1. states[k] \in TrackedState
    BY DEF TypeOK
<1>2. AfterGap(states[k]) \in TrackedState
    BY <1>1 DEF AfterGap, TrackedState
<1>3. AfterGap(states[k]).lastNotifiedAt = states[k].lastNotifiedAt
    BY <1>1 DEF AfterGap, TrackedState
<1> QED
    BY <1>2, <1>3 DEF Noted, TrackedState, TypeOK

-----------------------------------------------------------------------------
(***************************************************************************)
(* Type correctness.  It is inductive but for one fact: a record that says *)
(* above has a firstAbove that is set and not in the future, so that the   *)
(* sustained duration is a natural number.                                 *)
(***************************************************************************)
FirstAboveSet ==
    \A k \in Keys : states[k].above => states[k].firstAbove \in 0..now

TypeInv == TypeOK /\ FirstAboveSet

LEMMA TypeInit == Init => TypeInv
    BY DEF Init, TypeInv, TypeOK, FirstAboveSet, NewTracker, ZeroState, TrackedState, Emission

LEMMA TypeStep == TypeInv /\ [Next]_vars => TypeInv'
<1> SUFFICES ASSUME TypeInv, [Next]_vars
             PROVE  TypeInv'
    OBVIOUS
<1> USE DEF TypeInv
<1>1. CASE Tick
    BY <1>1 DEF Tick, TypeOK, FirstAboveSet, TrackedState
<1>2. ASSUME NEW k \in Keys, ObserveBelow(k)
      PROVE  TypeInv'
    <2>1. Noted(k, FALSE) \in TrackedState
        BY NotedType
    <2>2. [Noted(k, FALSE) EXCEPT !.above = FALSE, !.firstAbove = Zero] \in TrackedState
        BY <2>1 DEF TrackedState
    <2>3. states' \in [Keys -> TrackedState]
        BY <1>2, <2>2 DEF ObserveBelow, TypeOK
    <2>4. [at |-> now, exceeds |-> FALSE, sustained |-> -1] \in Signal!Observation
        BY DEF TypeOK, Signal!Observation
    <2>5. history' \in [Keys -> Seq(Signal!Observation)]
        BY <1>2, <2>4 DEF ObserveBelow, Record, TypeOK
    <2>6. FirstAboveSet'
        BY <1>2, <2>1 DEF ObserveBelow, TypeOK, FirstAboveSet, TrackedState
    <2> QED
        BY <1>2, <2>3, <2>5, <2>6 DEF ObserveBelow, TypeOK
<1>3. ASSUME NEW k \in Keys, ObserveRunStart(k)
      PROVE  TypeInv'
    <2> DEFINE s == Noted(k, TRUE)
    <2>1. s \in TrackedState
        BY NotedType
    <2>2. [s EXCEPT !.above = TRUE, !.firstAbove = now] \in TrackedState
        BY <2>1 DEF TrackedState, TypeOK
    <2>3. states' \in [Keys -> TrackedState]
        BY <1>3, <2>2 DEF ObserveRunStart, TypeOK
    <2>4. [at |-> now, exceeds |-> TRUE, sustained |-> -1] \in Signal!Observation
        BY DEF TypeOK, Signal!Observation
    <2>5. history' \in [Keys -> Seq(Signal!Observation)]
        BY <1>3, <2>4 DEF ObserveRunStart, Record, TypeOK
    <2>6. FirstAboveSet'
        BY <1>3, <2>1 DEF ObserveRunStart, TypeOK, FirstAboveSet, TrackedState
    <2> QED
        BY <1>3, <2>3, <2>5, <2>6 DEF ObserveRunStart, TypeOK
<1>4. ASSUME NEW k \in Keys, ObserveQuiet(k)
      PROVE  TypeInv'
    <2> DEFINE s == Noted(k, TRUE)
    <2>1. s \in TrackedState
        BY NotedType
    <2>2. states' \in [Keys -> TrackedState]
        BY <1>4, <2>1 DEF ObserveQuiet, TypeOK
    <2>3. [at |-> now, exceeds |-> TRUE, sustained |-> -1] \in Signal!Observation
        BY DEF TypeOK, Signal!Observation
    <2>4. history' \in [Keys -> Seq(Signal!Observation)]
        BY <1>4, <2>3 DEF ObserveQuiet, Record, TypeOK
    <2>5. s.above => s.firstAbove \in 0..now
        BY DEF TypeOK, FirstAboveSet, Noted, AfterGap, TrackedState
    <2>6. FirstAboveSet'
        BY <1>4, <2>5 DEF ObserveQuiet, TypeOK, FirstAboveSet
    <2> QED
        BY <1>4, <2>2, <2>4, <2>6 DEF ObserveQuiet, TypeOK
<1>5. ASSUME NEW k \in Keys, ObserveNotify(k)
      PROVE  TypeInv'
    <2> DEFINE s == Noted(k, TRUE)
               d == now - s.firstAbove
    <2>1. s \in TrackedState
        BY NotedType
    <2>2. s.above /\ s.firstAbove \in 0..now
        BY <1>5 DEF ObserveNotify, TypeOK, FirstAboveSet, Noted, AfterGap, TrackedState
    <2>3a. now \in Nat
        BY DEF TypeOK
    <2>3. d \in Nat
        <3> HIDE DEF s
        <3> QED BY <2>2, <2>3a
    <2>4. [s EXCEPT !.lastNotifiedAt = now] \in TrackedState
        BY <2>1 DEF TrackedState, TypeOK
    <2>5. states' \in [Keys -> TrackedState]
        BY <1>5, <2>4 DEF ObserveNotify, TypeOK
    <2>6. [at |-> now, exceeds |-> TRUE, sustained |-> d] \in Signal!Observation
        BY <2>3 DEF TypeOK, Signal!Observation
    <2>7. history' \in [Keys -> Seq(Signal!Observation)]
        BY <1>5, <2>6 DEF ObserveNotify, Record, TypeOK
    <2>8. journal' \in [Keys -> Emission]
        <3>1. journal[k] \in Emission
            BY DEF TypeOK
        <3>2. [count |-> journal[k].count + 1, at |-> now, sustained |-> d] \in Emission
            <4>1. journal[k].count + 1 \in Nat
                BY <3>1 DEF Emission
            <4> HIDE DEF d
            <4> QED BY <4>1, <2>3a, <2>3 DEF Emission
        <3> QED
            BY <1>5, <3>2 DEF ObserveNotify, Notify, TypeOK
    <2>9. FirstAboveSet'
        BY <1>5, <2>1, <2>2 DEF ObserveNotify, TypeOK, FirstAboveSet, TrackedState
    <2> QED
        BY <1>5, <2>5, <2>7, <2>8, <2>9 DEF ObserveNotify, TypeOK
<1>6. CASE FreshStart
    BY <1>6 DEF FreshStart, TypeOK, FirstAboveSet, NewTracker, ZeroState, TrackedState
<1>7. CASE UNCHANGED vars
    BY <1>7 DEF vars, TypeOK, FirstAboveSet
<1> QED
    BY <1>1, <1>2, <1>3, <1>4, <1>5, <1>6, <1>7 DEF Next, Observe

(***************************************************************************)
(* In every reachable state the tracker, the notifier's output and the     *)
(* recorded observations are well typed; in particular no reported         *)
(* duration is negative (sustained.go:91).                                 *)
(***************************************************************************)
THEOREM TypeCorrect == Spec => []TypeOK
<1>1. TypeInv => TypeOK
    BY DEF TypeInv
<1> QED
    BY <1>1, TypeInit, TypeStep, PTL DEF Spec

-----------------------------------------------------------------------------
(***************************************************************************)
(* How the run that ends a history changes when observation x is appended. *)
(***************************************************************************)
Continues(h, x) ==
    /\ Len(h) > 0
    /\ h[Len(h)].exceeds
    /\ MaxGap > 0 => x.at - h[Len(h)].at <= MaxGap

(***************************************************************************)
(* An exceeding value that continues the run keeps its start.              *)
(***************************************************************************)
LEMMA RunExtended ==
    ASSUME NEW h \in Seq(Signal!Observation), NEW x \in Signal!Observation,
           x.exceeds, Continues(h, x), NEW i \in 1..Len(h),
           Signal!StartsRun(h, i)
    PROVE  Signal!StartsRun(Append(h, x), i)
<1> DEFINE g == Append(h, x)
           n == Len(h)
<1>1. /\ Len(g) = n + 1
      /\ n \in Nat
      /\ \A j \in 1..n : g[j] = h[j]
      /\ g[n + 1] = x
    BY Appended
<1> HIDE DEF g
<1>2. \A j \in i..Len(g) : g[j].exceeds
    BY <1>1 DEF Signal!StartsRun, Signal!Unbroken
<1>3. \A j \in (i+1)..Len(g) : Signal!Joined(g, j)
    <2> TAKE j \in (i+1)..Len(g)
    <2>1. CASE j = n + 1
        BY <2>1, <1>1 DEF Continues, Signal!Joined
    <2>2. CASE j # n + 1
        <3>1. j \in (i+1)..n /\ g[j] = h[j] /\ g[j-1] = h[j-1]
            BY <2>2, <1>1
        <3>2. Signal!Joined(h, j)
            BY <3>1 DEF Signal!StartsRun, Signal!Unbroken
        <3> QED
            BY <3>1, <3>2 DEF Signal!Joined
    <2> QED
        BY <2>1, <2>2
<1>4. i > 1 => ~ (g[i-1].exceeds /\ Signal!Joined(g, i))
    <2> SUFFICES ASSUME i > 1
                 PROVE  ~ (g[i-1].exceeds /\ Signal!Joined(g, i))
        OBVIOUS
    <2>1. g[i] = h[i] /\ g[i-1] = h[i-1]
        BY <1>1
    <2> QED
        BY <2>1 DEF Signal!StartsRun, Signal!Joined
<1>5. Signal!StartsRun(g, i)
    BY <1>2, <1>3, <1>4 DEF Signal!StartsRun, Signal!Unbroken
<1> QED
    BY <1>5 DEF g

(***************************************************************************)
(* An exceeding value that does not continue a run starts one.             *)
(***************************************************************************)
LEMMA RunStarted ==
    ASSUME NEW h \in Seq(Signal!Observation), NEW x \in Signal!Observation,
           x.exceeds, ~ Continues(h, x)
    PROVE  Signal!StartsRun(Append(h, x), Len(h) + 1)
<1> DEFINE g == Append(h, x)
           n == Len(h)
<1>1. /\ Len(g) = n + 1
      /\ n \in Nat
      /\ \A j \in 1..n : g[j] = h[j]
      /\ g[n + 1] = x
    BY Appended
<1> HIDE DEF g
<1>2. Signal!Unbroken(g, n + 1)
    BY <1>1 DEF Signal!Unbroken
<1>3. n + 1 > 1 => ~ (g[n].exceeds /\ Signal!Joined(g, n + 1))
    BY <1>1 DEF Continues, Signal!Joined
<1>4. Signal!StartsRun(g, n + 1)
    BY <1>1, <1>2, <1>3 DEF Signal!StartsRun
<1> QED
    BY <1>4 DEF g

(***************************************************************************)
(* No run that started earlier ends with x unless x continues it.          *)
(***************************************************************************)
LEMMA RunBroken ==
    ASSUME NEW h \in Seq(Signal!Observation), NEW x \in Signal!Observation,
           ~ (x.exceeds /\ Continues(h, x)), NEW i \in 1..Len(h)
    PROVE  ~ Signal!StartsRun(Append(h, x), i)
<1> DEFINE g == Append(h, x)
           n == Len(h)
<1>1. /\ Len(g) = n + 1
      /\ n \in Nat
      /\ \A j \in 1..n : g[j] = h[j]
      /\ g[n + 1] = x
    BY Appended
<1> HIDE DEF g
<1>2. SUFFICES ASSUME Signal!StartsRun(g, i)
               PROVE  FALSE
    BY DEF g
<1>3. g[n + 1].exceeds /\ g[n].exceeds /\ Signal!Joined(g, n + 1)
    BY <1>1, <1>2 DEF Signal!StartsRun, Signal!Unbroken
<1> QED
    BY <1>1, <1>3 DEF Continues, Signal!Joined

(***************************************************************************)
(* A history ends with one run: it has one start.                          *)
(***************************************************************************)
LEMMA RunStartUnique ==
    ASSUME NEW h \in Seq(Signal!Observation),
           NEW i \in 1..Len(h), NEW j \in 1..Len(h),
           Signal!StartsRun(h, i), Signal!StartsRun(h, j)
    PROVE  i = j
<1>1. ASSUME NEW a \in 1..Len(h), NEW b \in 1..Len(h), a < b,
             Signal!StartsRun(h, a), Signal!StartsRun(h, b)
      PROVE  FALSE
    <2>1. b - 1 \in a..Len(h) /\ b \in (a+1)..Len(h) /\ b > 1
        BY <1>1
    <2>2. h[b-1].exceeds /\ Signal!Joined(h, b)
        BY <1>1, <2>1 DEF Signal!StartsRun, Signal!Unbroken
    <2> QED
        BY <1>1, <2>1, <2>2 DEF Signal!StartsRun
<1> QED
    BY <1>1

-----------------------------------------------------------------------------
(***************************************************************************)
(* The four parts of StateSummarisesHistory, for one key.                  *)
(***************************************************************************)
Summary(s, h) ==
    /\ Chronological(h)
    /\ RunSummarised(s, h)
    /\ AlertsSummarised(s, h)
    /\ LastSummarised(s, h)

SummaryInv == TypeInv /\ \A k \in Keys : Summary(states[k], history[k])

LEMMA ChronologyKept ==
    ASSUME now \in Nat,
           NEW h \in Seq(Signal!Observation), NEW x \in Signal!Observation,
           x.at = now, Chronological(h)
    PROVE  Chronological(Append(h, x))
<1> DEFINE g == Append(h, x)
<1>1. /\ Len(g) = Len(h) + 1
      /\ Len(h) \in Nat
      /\ \A j \in 1..Len(h) : g[j] = h[j]
      /\ g[Len(h) + 1] = x
    BY Appended
<1> HIDE DEF g
<1>2. \A j \in 1..Len(g) : g[j].at <= now
    BY <1>1 DEF Chronological
<1>3. ASSUME NEW i \in 1..Len(g), NEW j \in 1..Len(g), i <= j
      PROVE  g[i].at <= g[j].at
    <2>1. CASE j = Len(h) + 1
        BY <2>1, <1>1, <1>2
    <2>2. CASE j # Len(h) + 1
        BY <2>2, <1>1, <1>3 DEF Chronological
    <2> QED
        BY <2>1, <2>2
<1>4. Chronological(g)
    BY <1>2, <1>3 DEF Chronological
<1> QED
    BY <1>4 DEF g

(***************************************************************************)
(* lastNotifiedAt still summarises the alerts when it is set to now at an  *)
(* alert and kept at any other observation.                                *)
(***************************************************************************)
LEMMA AlertsKept ==
    ASSUME now \in Nat,
           NEW h \in Seq(Signal!Observation), NEW x \in Signal!Observation,
           x.at = now, Chronological(h),
           NEW s \in TrackedState, NEW t \in TrackedState, AlertsSummarised(s, h),
           t.lastNotifiedAt = IF Signal!Alerted(x) THEN now ELSE s.lastNotifiedAt
    PROVE  AlertsSummarised(t, Append(h, x))
<1> DEFINE g == Append(h, x)
           n == Len(h)
<1>1. /\ Len(g) = n + 1
      /\ n \in Nat
      /\ \A j \in 1..n : g[j] = h[j]
      /\ g[n + 1] = x
    BY Appended
<1>2. s.lastNotifiedAt \in Nat \cup {Zero} /\ t.lastNotifiedAt \in Nat \cup {Zero}
    BY DEF TrackedState
<1> HIDE DEF g
<1>3. ASSUME NEW j \in 1..Len(g), Signal!Alerted(g[j])
      PROVE  t.lastNotifiedAt # Zero /\ g[j].at <= t.lastNotifiedAt
    <2>1. CASE j = n + 1
        BY <2>1, <1>1, <1>3
    <2>2. CASE j # n + 1
        <3>1. j \in 1..n /\ g[j] = h[j] /\ h[j].at <= now
            BY <2>2, <1>1 DEF Chronological
        <3>2. s.lastNotifiedAt # Zero /\ h[j].at <= s.lastNotifiedAt
            BY <3>1, <1>3 DEF AlertsSummarised
        <3> QED
            BY <3>1, <3>2
    <2> QED
        BY <2>1, <2>2
<1>4. ASSUME t.lastNotifiedAt # Zero
      PROVE  \E j \in 1..Len(g) : Signal!Alerted(g[j]) /\ g[j].at = t.lastNotifiedAt
    <2>1. CASE Signal!Alerted(x)
        BY <2>1, <1>1
    <2>2. CASE ~ Signal!Alerted(x)
        <3>1. PICK j \in 1..n : Signal!Alerted(h[j]) /\ h[j].at = s.lastNotifiedAt
            BY <2>2, <1>4 DEF AlertsSummarised
        <3>2. j \in 1..Len(g) /\ g[j] = h[j]
            BY <1>1
        <3> QED
            BY <2>2, <3>1, <3>2
    <2> QED
        BY <2>1, <2>2
<1>5. AlertsSummarised(t, g)
    BY <1>3, <1>4 DEF AlertsSummarised
<1> QED
    BY <1>5 DEF g

(***************************************************************************)
(* The cooldown test on lastNotifiedAt is the test on all earlier alerts.  *)
(***************************************************************************)
LEMMA CooldownExact ==
    ASSUME now \in Nat, NEW h \in Seq(Signal!Observation),
           NEW s \in TrackedState, AlertsSummarised(s, h)
    PROVE  CoolingDown(s) <=>
             ~ \A j \in 1..Len(h) : Signal!Alerted(h[j]) => now - h[j].at >= Cooldown
<1>1. s.lastNotifiedAt \in Nat \cup {Zero}
    BY DEF TrackedState
<1>2. ASSUME CoolingDown(s)
      PROVE  ~ \A j \in 1..Len(h) : Signal!Alerted(h[j]) => now - h[j].at >= Cooldown
    <2>1. PICK j \in 1..Len(h) : Signal!Alerted(h[j]) /\ h[j].at = s.lastNotifiedAt
        BY <1>2 DEF CoolingDown, AlertsSummarised
    <2> QED
        BY <1>1, <1>2, <2>1 DEF CoolingDown
<1>3. ASSUME NEW j \in 1..Len(h), Signal!Alerted(h[j]), ~ (now - h[j].at >= Cooldown)
      PROVE  CoolingDown(s)
    <2>1. s.lastNotifiedAt # Zero /\ h[j].at <= s.lastNotifiedAt
        BY <1>3 DEF AlertsSummarised
    <2>2. h[j].at \in Nat
        BY ObservationType
    <2> QED
        BY <1>1, <1>3, <2>1, <2>2 DEF CoolingDown
<1> QED
    BY <1>2, <1>3

(***************************************************************************)
(* After the gap check the record says above exactly when an exceeding     *)
(* value observed now continues the run, and keeps the start of the run.   *)
(***************************************************************************)
LEMMA NotedRun ==
    ASSUME SummaryInv, NEW k \in Keys, NEW e \in BOOLEAN,
           NEW x \in Signal!Observation, x.at = now
    PROVE  /\ Noted(k, e).above <=> Continues(history[k], x)
           /\ Noted(k, e).above => /\ states[k].above
                                   /\ Noted(k, e).firstAbove = states[k].firstAbove
<1> DEFINE s == states[k]
           h == history[k]
<1>1. s \in TrackedState /\ h \in Seq(Signal!Observation) /\ now \in Nat
    BY DEF SummaryInv, TypeInv, TypeOK
<1>2. Summary(s, h)
    BY DEF SummaryInv
<1>3. s.above => Len(h) > 0 /\ h[Len(h)].exceeds /\ s.lastObservedAt = h[Len(h)].at
    BY <1>2 DEF Summary, RunSummarised, LastSummarised
<1>4. Len(h) > 0 => h[Len(h)].at \in Nat
    BY <1>1, ObservationType
<1>5. ~ s.above => ~ Continues(h, x)
    BY <1>1, <1>2 DEF Summary, RunSummarised, Continues
<1>6. /\ Noted(k, e).above = AfterGap(s).above
      /\ Noted(k, e).firstAbove = AfterGap(s).firstAbove
    BY <1>1 DEF Noted, AfterGap, TrackedState
<1> HIDE DEF s, h
<1>7. AfterGap(s).above <=> Continues(h, x)
    BY <1>1, <1>3, <1>4, <1>5 DEF AfterGap, Continues, TrackedState
<1>8. AfterGap(s).above => s.above /\ AfterGap(s).firstAbove = s.firstAbove
    BY <1>1 DEF AfterGap, TrackedState
<1> QED
    BY <1>6, <1>7, <1>8 DEF s, h

(***************************************************************************)
(* Observation x of key k is the one the abstract specification allows,    *)
(* and the new record summarises the extended history.                     *)
(***************************************************************************)
Sound(k, x) ==
    /\ x \in Signal!Observation
    /\ x.at = now
    /\ x.sustained \in (0..now) \cup {-1}
    /\ history' = [history EXCEPT ![k] = Append(history[k], x)]
    /\ Signal!Justified(k, Append(history[k], x))
    /\ Summary(states'[k], Append(history[k], x))

LEMMA NoAlertJustified ==
    ASSUME NEW k \in Keys, NEW h \in Seq(Signal!Observation), NEW x \in Signal!Observation,
           ~ Signal!Alerted(x), ~ Signal!Due(k, Append(h, x))
    PROVE  Signal!Justified(k, Append(h, x))
<1>1. ~ Signal!Alerted(Append(h, x)[Len(Append(h, x))])
    BY Appended
<1> QED
    BY <1>1 DEF Signal!Justified

(***************************************************************************)
(* Without a run that continues there is nothing to alert about.           *)
(***************************************************************************)
LEMMA NotDueWithoutRun ==
    ASSUME NEW k \in Keys, NEW h \in Seq(Signal!Observation), NEW x \in Signal!Observation,
           ~ (x.exceeds /\ Continues(h, x))
    PROVE  ~ Signal!Due(k, Append(h, x))
<1> DEFINE g == Append(h, x)
<1>1. Len(g) = Len(h) + 1 /\ Len(h) \in Nat
    BY Appended
<1>2. \A i \in 1..(Len(g) - 1) : ~ Signal!StartsRun(g, i)
    BY <1>1, RunBroken
<1> QED
    BY <1>2 DEF Signal!Due

LEMMA BelowSound ==
    ASSUME SummaryInv, NEW k \in Keys, ObserveBelow(k)
    PROVE  \E x : Sound(k, x)
<1> DEFINE x == [at |-> now, exceeds |-> FALSE, sustained |-> -1]
           h == history[k]
           g == Append(h, x)
           t == [Noted(k, FALSE) EXCEPT !.above = FALSE, !.firstAbove = Zero]
<1>1. h \in Seq(Signal!Observation) /\ now \in Nat /\ states[k] \in TrackedState
    BY DEF SummaryInv, TypeInv, TypeOK
<1>2. x \in Signal!Observation /\ ~ x.exceeds /\ ~ Signal!Alerted(x) /\ x.at = now
    BY <1>1 DEF Signal!Observation, Signal!Alerted
<1>3. /\ Noted(k, FALSE) \in TrackedState
      /\ Noted(k, FALSE).lastExceeds = FALSE
      /\ Noted(k, FALSE).lastObservedAt = now
      /\ Noted(k, FALSE).lastNotifiedAt = states[k].lastNotifiedAt
    BY NotedType DEF SummaryInv, TypeInv
<1>4. /\ t \in TrackedState
      /\ ~ t.above /\ t.firstAbove = Zero
      /\ t.lastExceeds = FALSE
      /\ t.lastObservedAt = now
      /\ t.lastNotifiedAt = states[k].lastNotifiedAt
    BY <1>3 DEF TrackedState
<1>5. /\ states'[k] = t
      /\ history' = [history EXCEPT ![k] = g]
    BY DEF ObserveBelow, Record, SummaryInv, TypeInv, TypeOK
<1>6. /\ Len(g) = Len(h) + 1
      /\ Len(h) \in Nat
      /\ g[Len(h) + 1] = x
    BY <1>1, <1>2, Appended
<1>7. Summary(states[k], h)
    BY DEF SummaryInv
<1> HIDE DEF t, g, h, x
<1>8. Chronological(g)
    BY <1>1, <1>2, <1>7, ChronologyKept DEF Summary, g
<1>9. AlertsSummarised(t, g)
    BY <1>1, <1>2, <1>4, <1>7, AlertsKept DEF Summary, g
<1>10. RunSummarised(t, g) /\ LastSummarised(t, g)
    <2>1. Len(g) > 0 /\ Len(g) # 0 /\ g[Len(g)] = x
        BY <1>6
    <2>2. x.exceeds = FALSE
        BY DEF x
    <2>3. RunSummarised(t, g)
        BY <2>1, <2>2, <1>4 DEF RunSummarised
    <2>4. LastSummarised(t, g)
        BY <2>1, <2>2, <1>2, <1>4 DEF LastSummarised
    <2> QED
        BY <2>3, <2>4
<1>11. Signal!Justified(k, g)
    BY <1>1, <1>2, NotDueWithoutRun, NoAlertJustified DEF g
<1>12. x.sustained \in (0..now) \cup {-1}
    BY DEF x
<1> QED
    BY <1>2, <1>5, <1>8, <1>9, <1>10, <1>11, <1>12 DEF Sound, Summary, g, h

LEMMA RunStartSound ==
    ASSUME SummaryInv, NEW k \in Keys, ObserveRunStart(k)
    PROVE  \E x : Sound(k, x)
<1> DEFINE x == [at |-> now, exceeds |-> TRUE, sustained |-> -1]
           h == history[k]
           g == Append(h, x)
           t == [Noted(k, TRUE) EXCEPT !.above = TRUE, !.firstAbove = now]
<1>1. h \in Seq(Signal!Observation) /\ now \in Nat /\ states[k] \in TrackedState
    BY DEF SummaryInv, TypeInv, TypeOK
<1>2. x \in Signal!Observation /\ x.exceeds /\ ~ Signal!Alerted(x) /\ x.at = now
    BY <1>1 DEF Signal!Observation, Signal!Alerted
<1>3. /\ Noted(k, TRUE) \in TrackedState
      /\ Noted(k, TRUE).lastExceeds = TRUE
      /\ Noted(k, TRUE).lastObservedAt = now
      /\ Noted(k, TRUE).lastNotifiedAt = states[k].lastNotifiedAt
    BY NotedType DEF SummaryInv, TypeInv
<1>4. /\ t \in TrackedState
      /\ t.above /\ t.firstAbove = now
      /\ t.lastExceeds = TRUE
      /\ t.lastObservedAt = now
      /\ t.lastNotifiedAt = states[k].lastNotifiedAt
    BY <1>1, <1>3 DEF TrackedState
<1>5. /\ states'[k] = t
      /\ history' = [history EXCEPT ![k] = g]
    BY DEF ObserveRunStart, Record, SummaryInv, TypeInv, TypeOK
<1>6. /\ Len(g) = Len(h) + 1
      /\ Len(h) \in Nat
      /\ g[Len(h) + 1] = x
    BY <1>1, <1>2, Appended
<1>7. Summary(states[k], h)
    BY DEF SummaryInv
<1>8. ~ Continues(h, x)
    BY <1>2, NotedRun DEF ObserveRunStart
<1> HIDE DEF t, g, h, x
<1>9. Chronological(g)
    BY <1>1, <1>2, <1>7, ChronologyKept DEF Summary, g
<1>10. AlertsSummarised(t, g)
    BY <1>1, <1>2, <1>4, <1>7, AlertsKept DEF Summary, g
<1>11. Signal!StartsRun(g, Len(h) + 1)
    BY <1>1, <1>2, <1>8, RunStarted DEF g
<1>12. RunSummarised(t, g) /\ LastSummarised(t, g)
    <2>1. Len(g) > 0 /\ Len(g) # 0 /\ g[Len(g)] = x /\ Len(h) + 1 \in 1..Len(g)
          /\ g[Len(h) + 1].at = now
        BY <1>2, <1>6
    <2>2. x.exceeds = TRUE
        BY DEF x
    <2>3. RunSummarised(t, g)
        BY <2>1, <2>2, <1>4, <1>11 DEF RunSummarised
    <2>4. LastSummarised(t, g)
        BY <2>1, <2>2, <1>2, <1>4 DEF LastSummarised
    <2> QED
        BY <2>3, <2>4
<1>13. Signal!Justified(k, g)
    BY <1>1, <1>2, <1>8, NotDueWithoutRun, NoAlertJustified DEF g
<1>14. x.sustained \in (0..now) \cup {-1}
    BY DEF x
<1> QED
    BY <1>2, <1>5, <1>9, <1>10, <1>12, <1>13, <1>14 DEF Sound, Summary, g, h

(***************************************************************************)
(* The value continues a run: the record knows where the run started.      *)
(***************************************************************************)
LEMMA RunKept ==
    ASSUME SummaryInv, NEW k \in Keys, Noted(k, TRUE).above,
           NEW x \in Signal!Observation, x.at = now, x.exceeds
    PROVE  /\ Continues(history[k], x)
           /\ \E i \in 1..Len(history[k]) :
                 /\ Signal!StartsRun(Append(history[k], x), i)
                 /\ Noted(k, TRUE).firstAbove = Append(history[k], x)[i].at
<1>1. history[k] \in Seq(Signal!Observation)
    BY DEF SummaryInv, TypeInv, TypeOK
<1>2. /\ Continues(history[k], x)
      /\ states[k].above
      /\ Noted(k, TRUE).firstAbove = states[k].firstAbove
    BY NotedRun
<1>3. PICK i \in 1..Len(history[k]) : Signal!StartsRun(history[k], i)
                                      /\ states[k].firstAbove = history[k][i].at
    BY <1>2 DEF SummaryInv, Summary, RunSummarised
<1>4. Append(history[k], x)[i] = history[k][i]
    BY <1>1, Appended
<1>5. Signal!StartsRun(Append(history[k], x), i)
    BY <1>1, <1>2, <1>3, RunExtended
<1> QED
    BY <1>2, <1>3, <1>4, <1>5

LEMMA QuietSound ==
    ASSUME SummaryInv, NEW k \in Keys, ObserveQuiet(k)
    PROVE  \E x : Sound(k, x)
<1> DEFINE x == [at |-> now, exceeds |-> TRUE, sustained |-> -1]
           h == history[k]
           g == Append(h, x)
           t == Noted(k, TRUE)
<1>1. h \in Seq(Signal!Observation) /\ now \in Nat /\ states[k] \in TrackedState
    BY DEF SummaryInv, TypeInv, TypeOK
<1>2. x \in Signal!Observation /\ x.exceeds = TRUE /\ ~ Signal!Alerted(x) /\ x.at = now
    BY <1>1 DEF Signal!Observation, Signal!Alerted
<1>3. /\ t \in TrackedState
      /\ t.lastExceeds = TRUE
      /\ t.lastObservedAt = now
      /\ t.lastNotifiedAt = states[k].lastNotifiedAt
    BY NotedType DEF SummaryInv, TypeInv
<1>4. t.above /\ (now - t.firstAbove < Required[k] \/ CoolingDown(t))
    BY DEF ObserveQuiet
<1>5. /\ states'[k] = t
      /\ history' = [history EXCEPT ![k] = g]
    BY DEF ObserveQuiet, Record, SummaryInv, TypeInv, TypeOK
<1>6. /\ Len(g) = Len(h) + 1
      /\ Len(h) \in Nat
      /\ \A j \in 1..Len(h) : g[j] = h[j]
      /\ g[Len(h) + 1] = x
      /\ g \in Seq(Signal!Observation)
    BY <1>1, <1>2, Appended
<1>7. Summary(states[k], h)
    BY DEF SummaryInv
<1>8. PICK i \in 1..Len(h) : Signal!StartsRun(g, i) /\ t.firstAbove = g[i].at
    BY <1>2, <1>4, RunKept
<1> HIDE DEF t, g, h, x
<1>9. Chronological(g)
    BY <1>1, <1>2, <1>7, ChronologyKept DEF Summary, g
<1>10. AlertsSummarised(t, g)
    BY <1>1, <1>2, <1>3, <1>7, AlertsKept DEF Summary, g
<1>11. RunSummarised(t, g) /\ LastSummarised(t, g)
    <2>1. Len(g) > 0 /\ Len(g) # 0 /\ g[Len(g)] = x /\ i \in 1..Len(g)
        BY <1>6
    <2>2. RunSummarised(t, g)
        BY <2>1, <1>2, <1>4, <1>8 DEF RunSummarised
    <2>3. LastSummarised(t, g)
        BY <2>1, <1>2, <1>3 DEF LastSummarised
    <2> QED
        BY <2>2, <2>3
<1>12. ~ Signal!Due(k, g)
    <2>1. CASE now - t.firstAbove < Required[k]
        <3>1. ASSUME NEW j \in 1..(Len(g) - 1), Signal!StartsRun(g, j)
              PROVE  ~ (g[Len(g)].at - g[j].at >= Required[k])
            <4>1. j = i
                BY <3>1, <1>6, <1>8, RunStartUnique
            <4>2. g[i].at \in Nat /\ Required[k] \in Nat
                BY <1>6, ObservationType
            <4> QED
                BY <4>1, <4>2, <2>1, <1>1, <1>2, <1>6, <1>8
        <3> QED
            BY <3>1 DEF Signal!Due
    <2>2. CASE CoolingDown(t)
        <3>1. CoolingDown(states[k])
            BY <2>2, <1>3 DEF CoolingDown
        <3>2. PICK j \in 1..Len(h) : Signal!Alerted(h[j]) /\ ~ (now - h[j].at >= Cooldown)
            BY <3>1, <1>1, <1>7, CooldownExact DEF Summary
        <3>3. j \in 1..(Len(g) - 1) /\ g[j] = h[j] /\ g[Len(g)].at = now
            BY <1>2, <1>6
        <3> QED
            BY <3>2, <3>3 DEF Signal!Due
    <2> QED
        BY <1>4, <2>1, <2>2
<1>13. Signal!Justified(k, g)
    BY <1>1, <1>2, <1>12, NoAlertJustified DEF g
<1>14. x.sustained \in (0..now) \cup {-1}
    BY DEF x
<1> QED
    BY <1>2, <1>5, <1>9, <1>10, <1>11, <1>13, <1>14 DEF Sound, Summary, g, h

LEMMA NotifySound ==
    ASSUME SummaryInv, NEW k \in Keys, ObserveNotify(k)
    PROVE  \E x : Sound(k, x)
<1> DEFINE s == Noted(k, TRUE)
           d == now - s.firstAbove
           x == [at |-> now, exceeds |-> TRUE, sustained |-> d]
           h == history[k]
           g == Append(h, x)
           t == [s EXCEPT !.lastNotifiedAt = now]
<1>1. h \in Seq(Signal!Observation) /\ now \in Nat /\ states[k] \in TrackedState
    BY DEF SummaryInv, TypeInv, TypeOK
<1>2. s.above /\ s.firstAbove \in 0..now
    BY DEF ObserveNotify, SummaryInv, TypeInv, TypeOK, FirstAboveSet, Noted, AfterGap,
           TrackedState
<1>3. d \in 0..now
    <2> HIDE DEF s
    <2> QED BY <1>1, <1>2
<1>4. x \in Signal!Observation /\ x.exceeds = TRUE /\ Signal!Alerted(x) /\ x.at = now
      /\ x.sustained = d
    <2> HIDE DEF d
    <2> QED BY <1>1, <1>3 DEF Signal!Observation, Signal!Alerted
<1>5. /\ s \in TrackedState
      /\ s.lastExceeds = TRUE
      /\ s.lastObservedAt = now
      /\ s.lastNotifiedAt = states[k].lastNotifiedAt
    BY NotedType DEF SummaryInv, TypeInv
<1>6. d >= Required[k] /\ ~ CoolingDown(s)
    BY DEF ObserveNotify
<1>7. /\ states'[k] = t
      /\ history' = [history EXCEPT ![k] = g]
    BY DEF ObserveNotify, Record, SummaryInv, TypeInv, TypeOK
<1>8. /\ Len(g) = Len(h) + 1
      /\ Len(h) \in Nat
      /\ \A j \in 1..Len(h) : g[j] = h[j]
      /\ g[Len(h) + 1] = x
      /\ g \in Seq(Signal!Observation)
    BY <1>1, <1>4, Appended
<1>9. Summary(states[k], h)
    BY DEF SummaryInv
<1>10. PICK i \in 1..Len(h) : Signal!StartsRun(g, i) /\ s.firstAbove = g[i].at
    BY <1>2, <1>4, RunKept
<1>11. d = now - g[i].at
    BY <1>10
<1> HIDE DEF s
<1>12. /\ t \in TrackedState
       /\ t.above /\ t.firstAbove = g[i].at
       /\ t.lastExceeds = TRUE
       /\ t.lastObservedAt = now
       /\ t.lastNotifiedAt = now
    <2> HIDE DEF g
    <2> QED BY <1>1, <1>2, <1>5, <1>10 DEF TrackedState
<1> HIDE DEF t, g, h, x, d
<1>13. Chronological(g)
    BY <1>1, <1>4, <1>9, ChronologyKept DEF Summary, g
<1>14. AlertsSummarised(t, g)
    BY <1>1, <1>4, <1>9, <1>12, AlertsKept DEF Summary, g
<1>15. RunSummarised(t, g) /\ LastSummarised(t, g)
    <2>1. Len(g) > 0 /\ Len(g) # 0 /\ g[Len(g)] = x /\ i \in 1..Len(g)
        BY <1>8
    <2>2. RunSummarised(t, g)
        BY <2>1, <1>4, <1>10, <1>12 DEF RunSummarised
    <2>3. LastSummarised(t, g)
        BY <2>1, <1>4, <1>12 DEF LastSummarised
    <2> QED
        BY <2>2, <2>3
<1>16. i \in 1..(Len(g) - 1) /\ g[Len(g)] = x
    BY <1>8
<1>17. \A j \in 1..(Len(g) - 1) : Signal!Alerted(g[j]) => g[Len(g)].at - g[j].at >= Cooldown
    <2>1. ~ CoolingDown(states[k])
        BY <1>5, <1>6 DEF CoolingDown
    <2>2. \A j \in 1..Len(h) : Signal!Alerted(h[j]) => now - h[j].at >= Cooldown
        BY <2>1, <1>1, <1>9, CooldownExact DEF Summary
    <2> QED
        BY <2>2, <1>4, <1>8, <1>16
<1>18. Signal!Due(k, g)
    BY <1>4, <1>6, <1>10, <1>11, <1>16, <1>17 DEF Signal!Due
<1>19. Signal!Justified(k, g)
    BY <1>4, <1>10, <1>11, <1>16, <1>18 DEF Signal!Justified
<1> QED
    BY <1>3, <1>4, <1>7, <1>13, <1>14, <1>15, <1>12, <1>19 DEF Sound, Summary, g, h

-----------------------------------------------------------------------------
LEMMA ObserveSound ==
    ASSUME SummaryInv, NEW k \in Keys, Observe(k)
    PROVE  \E x : Sound(k, x)
    BY BelowSound, RunStartSound, QuietSound, NotifySound DEF Observe

LEMMA SummaryInit == Init => SummaryInv
<1> SUFFICES ASSUME Init
             PROVE  SummaryInv
    OBVIOUS
<1>1. TypeInv
    BY TypeInit
<1>2. ASSUME NEW k \in Keys
      PROVE  Summary(states[k], history[k])
    BY DEF Init, NewTracker, ZeroState, Summary, Chronological, RunSummarised,
           AlertsSummarised, LastSummarised
<1> QED
    BY <1>1, <1>2 DEF SummaryInv

LEMMA SummaryStep == SummaryInv /\ [Next]_vars => SummaryInv'
<1> SUFFICES ASSUME SummaryInv, [Next]_vars
             PROVE  SummaryInv'
    OBVIOUS
<1>1. TypeInv'
    BY TypeStep DEF SummaryInv
<1>2. CASE Tick
    <2>1. now <= now' /\ UNCHANGED <<states, history>>
        BY <1>2 DEF Tick, SummaryInv, TypeInv, TypeOK
    <2>2. ASSUME NEW k \in Keys
          PROVE  Summary(states[k], history[k])'
        <3>1. Summary(states[k], history[k]) /\ history[k] \in Seq(Signal!Observation)
              /\ now \in Nat
            BY DEF SummaryInv, TypeInv, TypeOK
        <3>2. Chronological(history[k])'
            <4>1. \A j \in 1..Len(history[k]) : history[k][j].at \in Nat
                BY <3>1, ObservationType
            <4> QED
                BY <2>1, <3>1, <4>1, <1>1 DEF Summary, Chronological, TypeInv, TypeOK
        <3> QED
            BY <2>1, <3>1, <3>2 DEF Summary, RunSummarised, AlertsSummarised, LastSummarised
    <2> QED
        BY <1>1, <2>2 DEF SummaryInv
<1>3. ASSUME NEW k \in Keys, Observe(k)
      PROVE  SummaryInv'
    <2>1. PICK x : Sound(k, x)
        BY <1>3, ObserveSound
    <2>2. now' = now /\ \A j \in Keys \ {k} : states'[j] = states[j] /\ history'[j] = history[j]
        BY <1>3 DEF Observe, ObserveBelow, ObserveRunStart, ObserveQuiet, ObserveNotify, Record,
                    SummaryInv, TypeInv, TypeOK
    <2>3. history'[k] = Append(history[k], x)
        BY <2>1 DEF Sound, SummaryInv, TypeInv, TypeOK
    <2>4. ASSUME NEW j \in Keys
          PROVE  Summary(states[j], history[j])'
        <3>1. Summary(states'[j], history'[j])
            BY <2>1, <2>2, <2>3 DEF Sound, SummaryInv
        <3> QED
            BY <3>1, <2>2 DEF Summary, Chronological, RunSummarised, AlertsSummarised,
                              LastSummarised
    <2> QED
        BY <1>1, <2>4 DEF SummaryInv
<1>4. CASE FreshStart
    <2>1. ASSUME NEW k \in Keys
          PROVE  Summary(states[k], history[k])'
        BY <1>4 DEF FreshStart, NewTracker, ZeroState, Summary, Chronological, RunSummarised,
                    AlertsSummarised, LastSummarised
    <2> QED
        BY <1>1, <2>1 DEF SummaryInv
<1>5. CASE UNCHANGED vars
    BY <1>1, <1>5 DEF vars, SummaryInv, Summary, Chronological, RunSummarised,
                      AlertsSummarised, LastSummarised
<1> QED
    BY <1>2, <1>3, <1>4, <1>5 DEF Next

LEMMA SummaryAlways == Spec => []SummaryInv
    BY SummaryInit, SummaryStep, PTL DEF Spec

(***************************************************************************)
(* The record the code keeps for a key summarises every observation made   *)
(* since the last fresh start (sustained.go:66-89, 98): no dip, silence,   *)
(* alert or reset makes them disagree.                                     *)
(***************************************************************************)
THEOREM RecordsSummarise == Spec => []StateSummarisesHistory
<1>1. SummaryInv => StateSummarisesHistory
    BY DEF SummaryInv, Summary, StateSummarisesHistory
<1> QED
    BY <1>1, SummaryAlways, PTL

-----------------------------------------------------------------------------
LEMMA RefinedInit == Init => Signal!Init
    BY DEF Init, Signal!Init

LEMMA RefinedStep == SummaryInv /\ [Next]_vars => [Signal!Next]_(Signal!vars)
<1> SUFFICES ASSUME SummaryInv, [Next]_vars
             PROVE  [Signal!Next]_(Signal!vars)
    OBVIOUS
<1>1. CASE Tick
    BY <1>1 DEF Tick, Signal!Next, Signal!Tick
<1>2. ASSUME NEW k \in Keys, Observe(k)
      PROVE  Signal!Observe(k)
    <2>1. PICK x : Sound(k, x)
        BY <1>2, ObserveSound
    <2>2. /\ x = [at |-> now, exceeds |-> x.exceeds, sustained |-> x.sustained]
          /\ x.exceeds \in BOOLEAN
          /\ x.sustained \in (0..now) \cup {-1}
        BY <2>1 DEF Sound, Signal!Observation
    <2>3. Len(history[k]) < MaxObs /\ UNCHANGED now
        BY <1>2 DEF Observe, ObserveBelow, ObserveRunStart, ObserveQuiet, ObserveNotify, Record
    <2>4. /\ Signal!Justified(k, Append(history[k], x))
          /\ history' = [history EXCEPT ![k] = Append(history[k], x)]
        BY <2>1 DEF Sound
    <2> QED
        BY <2>2, <2>3, <2>4 DEF Signal!Observe
<1>3. CASE FreshStart
    BY <1>3 DEF FreshStart, Signal!Next, Signal!Forget
<1>4. CASE UNCHANGED vars
    BY <1>4 DEF vars, Signal!vars
<1> QED
    BY <1>1, <1>2, <1>3, <1>4 DEF Next, Signal!Next

(***************************************************************************)
(* Observe (sustained.go:57-110), which looks only at the record of a key, *)
(* notifies exactly when the full history says an alert is due, with the   *)
(* duration of the whole run: the tracker implements SustainedAlert.       *)
(***************************************************************************)
THEOREM TrackerRefines == Spec => ImplementsSustainedAlert
    BY RefinedInit, RefinedStep, SummaryAlways, PTL
    DEF Spec, ImplementsSustainedAlert, Signal!Spec

-----------------------------------------------------------------------------
(***************************************************************************)
(* Why an alert is not late by more than MaxGap.  The observation before   *)
(* it was Justified too: it raised no alert, and the cooldown did not hold *)
(* it back, so the run, which had started by then, was shorter than        *)
(* Required; and it is joined to the alert's by at most MaxGap.  Hence the *)
(* invariant remembers that the last observation is Justified.             *)
(***************************************************************************)
Prompt(k, h, n) ==
    (/\ MaxGap > 0
     /\ Signal!Alerted(h[n])
     /\ ~ Signal!Alerted(h[n-1])
     /\ \A j \in 1..(n-2) : Signal!Alerted(h[j]) => h[n-1].at - h[j].at >= Cooldown)
    => h[n].sustained <= Required[k] + MaxGap

LatencyInv ==
    \A k \in Keys : /\ \A n \in 2..Len(history[k]) : Prompt(k, history[k], n)
                    /\ Len(history[k]) > 0 => Signal!Justified(k, history[k])

LEMMA RunShortened ==
    ASSUME NEW h \in Seq(Signal!Observation), NEW x \in Signal!Observation,
           NEW i \in 1..Len(h), Signal!StartsRun(Append(h, x), i)
    PROVE  /\ Signal!StartsRun(h, i)
           /\ MaxGap > 0 => x.at - h[Len(h)].at <= MaxGap
<1> DEFINE g == Append(h, x)
           n == Len(h)
<1>1. /\ Len(g) = n + 1
      /\ n \in Nat
      /\ \A j \in 1..n : g[j] = h[j]
      /\ g[n + 1] = x
    BY Appended
<1>2. Signal!StartsRun(g, i)
    OBVIOUS
<1> HIDE DEF g
<1>3. \A j \in i..n : h[j].exceeds
    BY <1>1, <1>2 DEF Signal!StartsRun, Signal!Unbroken
<1>4. ASSUME NEW j \in (i+1)..n
      PROVE  Signal!Joined(h, j)
    <2>1. g[j] = h[j] /\ g[j-1] = h[j-1] /\ j \in (i+1)..Len(g)
        BY <1>1
    <2> QED
        BY <1>2, <2>1 DEF Signal!StartsRun, Signal!Unbroken, Signal!Joined
<1>5. i > 1 => ~ (h[i-1].exceeds /\ Signal!Joined(h, i))
    <2> SUFFICES ASSUME i > 1
                 PROVE  ~ (h[i-1].exceeds /\ Signal!Joined(h, i))
        OBVIOUS
    <2>1. g[i] = h[i] /\ g[i-1] = h[i-1]
        BY <1>1
    <2> QED
        BY <1>2, <2>1 DEF Signal!StartsRun, Signal!Joined
<1>6. Signal!Joined(g, n + 1)
    <2>1. n + 1 \in (i+1)..Len(g)
        BY <1>1
    <2> QED
        BY <1>2, <2>1 DEF Signal!StartsRun, Signal!Unbroken
<1>7. MaxGap > 0 => x.at - h[n].at <= MaxGap
    BY <1>1, <1>6 DEF Signal!Joined
<1> QED
    BY <1>3, <1>4, <1>5, <1>7 DEF Signal!StartsRun, Signal!Unbroken

LEMMA AppendedPrompt ==
    ASSUME NEW k \in Keys, NEW h \in Seq(Signal!Observation), NEW x \in Signal!Observation,
           Len(h) > 0, Chronological(h),
           Signal!Justified(k, h), Signal!Justified(k, Append(h, x))
    PROVE  Prompt(k, Append(h, x), Len(h) + 1)
<1> DEFINE g == Append(h, x)
           n == Len(h)
<1>1. /\ Len(g) = n + 1
      /\ n \in Nat
      /\ \A j \in 1..n : g[j] = h[j]
      /\ g[n + 1] = x
    BY Appended
<1>2. Signal!Justified(k, g)
    OBVIOUS
<1>3. ASSUME NEW i \in 1..n, Signal!StartsRun(g, i)
      PROVE  /\ Signal!StartsRun(h, i)
             /\ MaxGap > 0 => x.at - h[n].at <= MaxGap
    BY <1>3, RunShortened
<1> HIDE DEF g
<1> SUFFICES ASSUME MaxGap > 0, Signal!Alerted(x), ~ Signal!Alerted(h[n]),
                    \A j \in 1..(n-1) : Signal!Alerted(h[j]) => h[n].at - h[j].at >= Cooldown
             PROVE  x.sustained <= Required[k] + MaxGap
    <2>1. \A j \in 1..(n-1) : g[j] = h[j]
        BY <1>1
    <2>2. g[n + 1] = x /\ g[n] = h[n] /\ (n + 1) - 1 = n /\ (n + 1) - 2 = n - 1
        BY <1>1
    <2> QED
        BY <2>1, <2>2 DEF Prompt, g
<1>4. PICK i \in 1..n : Signal!StartsRun(g, i) /\ x.sustained = x.at - h[i].at
    <2>1. Signal!Due(k, g)
        BY <1>1, <1>2 DEF Signal!Justified
    <2>2. \E i \in 1..n : Signal!StartsRun(g, i) /\ g[n+1].sustained = g[n+1].at - g[i].at
        BY <1>1, <1>2, <2>1 DEF Signal!Justified
    <2> QED
        BY <1>1, <2>2
<1>5. Signal!StartsRun(h, i) /\ x.at - h[n].at <= MaxGap
    BY <1>3, <1>4
<1>6. h[n].at - h[i].at < Required[k] \/ i = n
    <2>1. CASE i # n
        <3>1. ~ Signal!Due(k, h)
            <4> SUFFICES ASSUME Signal!Due(k, h)
                         PROVE  FALSE
                OBVIOUS
            <4>1. PICK a \in 1..(n-1) : h[n].sustained = h[n].at - h[a].at
                BY DEF Signal!Justified
            <4>2. a \in 1..n /\ n \in 1..n /\ a <= n
                BY <1>1
            <4>3. h[a].at <= h[n].at /\ h[a].at \in Nat /\ h[n].at \in Nat
                BY <4>2, ObservationType DEF Chronological
            <4> QED
                BY <4>1, <4>3 DEF Signal!Alerted
        <3>2. i \in 1..(n-1)
            BY <2>1
        <3>3. ~ (h[n].at - h[i].at >= Required[k])
            BY <1>5, <3>1, <3>2 DEF Signal!Due
        <3>4. h[n].at \in Nat /\ h[i].at \in Nat
            BY <1>1, ObservationType
        <3> QED
            BY <3>3, <3>4
    <2> QED
        BY <2>1
<1>7. x.at \in Nat /\ h[n].at \in Nat /\ h[i].at \in Nat
    BY <1>1, ObservationType DEF Signal!Observation
<1> QED
    BY <1>4, <1>5, <1>6, <1>7

LEMMA LatencyStep == SummaryInv /\ LatencyInv /\ [Next]_vars => LatencyInv'
<1> SUFFICES ASSUME SummaryInv, LatencyInv, [Next]_vars
             PROVE  LatencyInv'
    OBVIOUS
<1>1. CASE Tick
    BY <1>1 DEF Tick, LatencyInv
<1>2. ASSUME NEW k \in Keys, Observe(k)
      PROVE  LatencyInv'
    <2> DEFINE h == history[k]
    <2>1. PICK x : Sound(k, x)
        BY <1>2, ObserveSound
    <2> DEFINE g == Append(h, x)
    <2>2. h \in Seq(Signal!Observation) /\ x \in Signal!Observation
        BY <2>1 DEF Sound, SummaryInv, TypeInv, TypeOK
    <2>3. history'[k] = g /\ \A j \in Keys \ {k} : history'[j] = history[j]
        BY <2>1 DEF Sound, SummaryInv, TypeInv, TypeOK
    <2>4. Signal!Justified(k, g)
        BY <2>1 DEF Sound
    <2>5. ASSUME NEW n \in 2..Len(g)
          PROVE  Prompt(k, g, n)
        <3>1. Len(g) = Len(h) + 1 /\ Len(h) \in Nat /\ \A j \in 1..Len(h) : g[j] = h[j]
            BY <2>2, Appended
        <3>2. CASE n = Len(h) + 1
            <4>1. Len(h) > 0 /\ Signal!Justified(k, h) /\ Chronological(h)
                BY <3>1, <3>2 DEF LatencyInv, SummaryInv, Summary
            <4> QED
                BY <2>2, <2>4, <3>2, <4>1, AppendedPrompt
        <3>3. CASE n # Len(h) + 1
            <4>1. n \in 2..Len(h) /\ n - 1 \in 1..Len(h)
                BY <3>1, <3>3
            <4>2. Prompt(k, h, n)
                BY <4>1 DEF LatencyInv
            <4>3. g[n] = h[n] /\ g[n-1] = h[n-1] /\ \A j \in 1..(n-2) : g[j] = h[j]
                BY <3>1, <4>1
            <4> HIDE DEF g, h
            <4> QED
                BY <4>2, <4>3 DEF Prompt
        <3> QED
            BY <3>2, <3>3
    <2> QED
        BY <2>3, <2>4, <2>5 DEF LatencyInv
<1>3. CASE FreshStart
    BY <1>3 DEF FreshStart, LatencyInv
<1>4. CASE UNCHANGED vars
    BY <1>4 DEF vars, LatencyInv
<1> QED
    BY <1>1, <1>2, <1>3, <1>4 DEF Next

(***************************************************************************)
(* A run is not declared late because it was looked at late: the duration  *)
(* of an alert exceeds the configured one by at most MaxGap, unless the    *)
(* observation before it alerted or was held back by the cooldown.         *)
(***************************************************************************)
THEOREM AlertsPrompt == Spec => []LatencyBounded
<1>1. Init => LatencyInv
    <2>1. ASSUME Init, NEW k \in Keys
          PROVE  Len(history[k]) = 0 /\ 2..Len(history[k]) = {}
        <3>1. history[k] = << >>
            BY <2>1 DEF Init
        <3> QED
            BY <3>1
    <2>2. ASSUME Init, NEW k \in Keys
          PROVE  /\ \A n \in 2..Len(history[k]) : Prompt(k, history[k], n)
                 /\ Len(history[k]) > 0 => Signal!Justified(k, history[k])
        BY <2>1, <2>2
    <2> QED
        BY <2>2 DEF LatencyInv
<1>2. LatencyInv => LatencyBounded
    BY DEF LatencyInv, LatencyBounded, Prompt
<1> QED
    BY <1>1, <1>2, LatencyStep, SummaryAlways, PTL DEF Spec

-----------------------------------------------------------------------------
(***************************************************************************)
(* Why two notifications stay apart although a fresh start forgets the     *)
(* cooldown: either the record still knows the last notification, or it    *)
(* forgot it together with the run, so that any run in progress started at *)
(* or after that notification.                                             *)
(***************************************************************************)
LastKnownOrRunYounger(s, j) ==
    IF s.lastNotifiedAt = Zero
    THEN j.count > 0 /\ s.above => s.firstAbove >= j.at
    ELSE s.lastNotifiedAt = j.at

SpacingInv ==
    /\ TypeInv
    /\ \A k \in Keys : /\ journal[k].count > 0 => journal[k].at \in 0..now
                       /\ LastKnownOrRunYounger(states[k], journal[k])

LEMMA SpacingInit == Init => SpacingInv
    BY TypeInit DEF Init, SpacingInv, LastKnownOrRunYounger, NewTracker, ZeroState

(***************************************************************************)
(* What an observation does to what SpacingInv looks at.                   *)
(***************************************************************************)
LEMMA ObserveEffect ==
    ASSUME TypeInv, NEW k \in Keys, Observe(k)
    PROVE  /\ now' = now
           /\ \A j \in Keys \ {k} : states'[j] = states[j] /\ journal'[j] = journal[j]
           /\ \/ /\ journal'[k] = journal[k]
                 /\ states'[k].lastNotifiedAt = states[k].lastNotifiedAt
                 /\ states'[k].above => \/ states'[k].firstAbove = now
                                        \/ /\ states[k].above
                                           /\ states'[k].firstAbove = states[k].firstAbove
              \/ /\ states[k].above
                 /\ now - states[k].firstAbove >= Required[k]
                 /\ ~ CoolingDown(states[k])
                 /\ journal'[k].at = now
                 /\ journal'[k].count = journal[k].count + 1
                 /\ states'[k].lastNotifiedAt = now
<1> USE DEF TypeInv, TypeOK
<1>1. states[k] \in TrackedState /\ now \in Nat
    OBVIOUS
<1>2. \A e \in BOOLEAN : /\ Noted(k, e) \in TrackedState
                         /\ Noted(k, e).lastNotifiedAt = states[k].lastNotifiedAt
                         /\ Noted(k, e).above => /\ states[k].above
                                                 /\ Noted(k, e).firstAbove = states[k].firstAbove
    BY <1>1, NotedType DEF Noted, AfterGap, TrackedState
<1>3. CASE ObserveBelow(k)
    BY <1>2, <1>3 DEF ObserveBelow, TrackedState
<1>4. CASE ObserveRunStart(k)
    BY <1>2, <1>4 DEF ObserveRunStart, TrackedState
<1>5. CASE ObserveQuiet(k)
    BY <1>2, <1>5 DEF ObserveQuiet
<1>6. CASE ObserveNotify(k)
    <2>1. Noted(k, TRUE).above /\ Noted(k, TRUE).firstAbove = states[k].firstAbove
          /\ states[k].above
        BY <1>2, <1>6 DEF ObserveNotify
    <2>2. ~ CoolingDown(states[k])
        BY <1>2, <1>6 DEF ObserveNotify, CoolingDown
    <2>3. states'[k].lastNotifiedAt = now
        BY <1>2, <1>6 DEF ObserveNotify, TrackedState
    <2>4. journal'[k].at = now /\ journal'[k].count = journal[k].count + 1
        BY <1>6 DEF ObserveNotify, Notify
    <2>5. now - states[k].firstAbove >= Required[k]
        BY <2>1, <1>6 DEF ObserveNotify
    <2> QED
        BY <1>6, <2>1, <2>2, <2>3, <2>4, <2>5 DEF ObserveNotify, Notify
<1> QED
    BY <1>3, <1>4, <1>5, <1>6 DEF Observe

LEMMA SpacingStep == SpacingInv /\ [Next]_vars => SpacingInv'
<1> SUFFICES ASSUME SpacingInv, [Next]_vars
             PROVE  SpacingInv'
    OBVIOUS
<1>1. TypeInv'
    BY TypeStep DEF SpacingInv
<1>2. now \in Nat
    BY DEF SpacingInv, TypeInv, TypeOK
<1>3. CASE Tick
    BY <1>1, <1>2, <1>3 DEF Tick, SpacingInv, LastKnownOrRunYounger
<1>4. ASSUME NEW k \in Keys, Observe(k)
      PROVE  SpacingInv'
    <2>1. ASSUME NEW j \in Keys
          PROVE  (/\ journal[j].count > 0 => journal[j].at \in 0..now
                  /\ LastKnownOrRunYounger(states[j], journal[j]))'
        <3>1. CASE j # k
            BY <1>4, <3>1, ObserveEffect DEF SpacingInv, LastKnownOrRunYounger
        <3>2. CASE j = k
            BY <1>2, <1>4, <3>2, ObserveEffect DEF SpacingInv, LastKnownOrRunYounger
        <3> QED
            BY <3>1, <3>2
    <2> QED
        BY <1>1, <2>1 DEF SpacingInv
<1>5. CASE FreshStart
    BY <1>1, <1>5 DEF FreshStart, NewTracker, ZeroState, SpacingInv, LastKnownOrRunYounger
<1>6. CASE UNCHANGED vars
    BY <1>1, <1>6 DEF vars, SpacingInv, LastKnownOrRunYounger
<1> QED
    BY <1>3, <1>4, <1>5, <1>6 DEF Next

LEMMA StepSpaced ==
    ASSUME SpacingInv, [Next]_vars, NEW k \in Keys
    PROVE  Spaced(k, Least(Cooldown, Required[k]))
<1>1. now \in Nat /\ Required[k] \in Nat
    BY DEF SpacingInv, TypeInv, TypeOK
<1>2. ASSUME NEW j \in Keys, Observe(j)
      PROVE  Spaced(k, Least(Cooldown, Required[k]))
    <2>1. CASE j # k
        <3>1. journal'[k] = journal[k]
            BY <1>2, <2>1, ObserveEffect DEF SpacingInv
        <3>2. journal[k].count \in Nat
            BY DEF SpacingInv, TypeInv, TypeOK, Emission
        <3> QED
            BY <3>1, <3>2 DEF Spaced
    <2>2. CASE j = k
        <3>1. journal[k] \in Emission /\ states[k] \in TrackedState
            BY DEF SpacingInv, TypeInv, TypeOK
        <3>2. journal[k].count \in Nat /\ (states[k].above => states[k].firstAbove \in 0..now)
            BY <3>1 DEF Emission, SpacingInv, TypeInv, FirstAboveSet
        <3>3. SUFFICES ASSUME journal'[k].count > journal[k].count, journal[k].count > 0
                       PROVE  journal'[k].at - journal[k].at >= Least(Cooldown, Required[k])
            BY DEF Spaced
        <3>4. /\ journal'[k].at = now
              /\ states[k].above
              /\ now - states[k].firstAbove >= Required[k]
              /\ ~ CoolingDown(states[k])
            BY <1>2, <2>2, <3>2, <3>3, ObserveEffect DEF SpacingInv
        <3>5. LastKnownOrRunYounger(states[k], journal[k]) /\ journal[k].at \in 0..now
            BY <3>3 DEF SpacingInv
        <3>6. CASE states[k].lastNotifiedAt = Zero
            BY <1>1, <3>2, <3>3, <3>4, <3>5, <3>6 DEF LastKnownOrRunYounger, Least
        <3>7. CASE states[k].lastNotifiedAt # Zero
            BY <1>1, <3>4, <3>5, <3>7 DEF LastKnownOrRunYounger, CoolingDown, Least
        <3> QED
            BY <3>6, <3>7
    <2> QED
        BY <2>1, <2>2
<1>3. CASE UNCHANGED journal
    <2>1. journal[k].count \in Nat
        BY DEF SpacingInv, TypeInv, TypeOK, Emission
    <2> QED
        BY <1>3, <2>1 DEF Spaced
<1> QED
    BY <1>2, <1>3 DEF Next, Tick, FreshStart, vars

(***************************************************************************)
(* Whatever resets and restarts happen (sustained.go:125-129), two         *)
(* notifications of a key are at least the shorter of Cooldown and         *)
(* RequiredDuration apart.                                                 *)
(***************************************************************************)
THEOREM NotificationsSpaced == Spec => AlertsSpaced
<1>1. SpacingInv /\ [Next]_vars
        => [\A k \in Keys : Spaced(k, Least(Cooldown, Required[k]))]_vars
    BY StepSpaced
<1> QED
    BY <1>1, SpacingInit, SpacingStep, PTL DEF Spec, AlertsSpaced

-----------------------------------------------------------------------------
USE IntervalAssumption, MaxCycleAssumption

(***************************************************************************)
(* The pace of the loop: a cycle ends in time, and the next one starts one *)
(* stride after it at the latest.                                          *)
(***************************************************************************)
Paced ==
    /\ phase # "wait" => now <= startedAt + MaxCycle
    /\ now <= startedAt + Stride
    /\ ~ ticked => nextTick <= startedAt + Interval

PaceInv ==
    /\ CadenceTypeOK
    /\ FirstAboveSet
    /\ \A k \in Keys : since[k] <= now
    /\ \A k \in Keys : states[k].above => states[k].lastObservedAt # Zero
    /\ Paced

\* The current cycle has started and may yet observe the key.
Behind(k) == phase = "read" \/ (phase = "tell" /\ k \in left)

(***************************************************************************)
(* How long ago a key was heard of, counted in cycles.                     *)
(***************************************************************************)
HeardInv ==
    \A k \in Keys :
        states[k].lastObservedAt # Zero =>
            IF Behind(k) THEN startedAt - states[k].lastObservedAt <= (missed[k] + 1) * Stride
            ELSE startedAt - states[k].lastObservedAt <= missed[k] * Stride

Wait == Stride + MaxCycle

\* The run of the key started within a wait of the instant from which on nothing interfered.
RunsSince(k) == states[k].above /\ states[k].firstAbove <= since[k] + Wait

(***************************************************************************)
(* Once a whole cycle fell into the time without interference, the key is  *)
(* in a run, which started soon and has no gap.                            *)
(***************************************************************************)
SteadyRun(k) ==
    IF Behind(k)
    THEN /\ since[k] + Stride < startedAt =>
               RunsSince(k) /\ states[k].lastObservedAt >= startedAt - Stride
         /\ phase = "tell" /\ since[k] < startedAt => k \in seen
    ELSE since[k] < startedAt => RunsSince(k) /\ states[k].lastObservedAt >= startedAt

\* An observation that found the run long enough was a notification, or soon after one.
RunSignalled(k) ==
    LET s == states[k] IN
    s.above /\ s.lastObservedAt > s.firstAbove /\ s.lastObservedAt - s.firstAbove >= Required[k]
        => s.lastNotifiedAt # Zero /\ s.lastObservedAt - s.lastNotifiedAt <= Cooldown

SteadyInv ==
    /\ \A k \in Keys : RunSignalled(k)
    /\ MaxGap = 0 \/ Wait <= MaxGap => \A k \in high : SteadyRun(k)

(***************************************************************************)
(* Cycles no longer than the interval start with the ticks, one interval   *)
(* after the other.                                                        *)
(***************************************************************************)
Aligned ==
    IF ticked THEN now = startedAt + Interval /\ nextTick = startedAt + 2 * Interval
    ELSE nextTick = startedAt + Interval

BlindInv ==
    MaxCycle <= Interval =>
        /\ Aligned
        /\ \A k \in Keys :
            states[k].lastObservedAt # Zero =>
                IF Behind(k)
                THEN startedAt - states[k].lastObservedAt >= (missed[k] + 1) * Interval - MaxCycle
                ELSE startedAt - states[k].lastObservedAt >= missed[k] * Interval - MaxCycle
-----------------------------------------------------------------------------
\* Every step of the loop is a step of the tracker, or leaves it alone.
LEMMA TrackerStep == left \subseteq Keys /\ [CadenceNext]_cadenceVars => [Next]_vars
<1> SUFFICES ASSUME left \subseteq Keys, [CadenceNext]_cadenceVars
             PROVE  [Next]_vars
    OBVIOUS
<1>1. CASE Pass
    BY <1>1 DEF Pass, Next
<1>2. CASE CycleStarts \/ CycleReads \/ CycleMisses \/ CycleEnds
    BY <1>2 DEF CycleStarts, CycleReads, CycleMisses, CycleEnds, tracker, vars
<1>3. CASE CycleObserves
    <2>1. PICK k \in left : Observe(k)
        BY <1>3 DEF CycleObserves, Observe
    <2> QED
        BY <2>1 DEF Next
<1>4. CASE \E k \in Keys : Flip(k)
    BY <1>4 DEF Flip, tracker, vars
<1>5. CASE Reset \/ Restart
    BY <1>5 DEF Reset, Restart, Next
<1>6. CASE UNCHANGED cadenceVars
    BY <1>6 DEF cadenceVars, tracker, vars
<1> QED
    BY <1>1, <1>2, <1>3, <1>4, <1>5, <1>6 DEF CadenceNext

-----------------------------------------------------------------------------
(***************************************************************************)
(* What an observation does to the record of its key.                      *)
(***************************************************************************)
HeardOnce(k) == states[k].above => states[k].lastObservedAt # Zero

NoGap(k) == MaxGap = 0 \/ now - states[k].lastObservedAt <= MaxGap

LEMMA GapChecked ==
    ASSUME TypeInv, NEW k \in Keys, HeardOnce(k), NEW e \in BOOLEAN
    PROVE  LET s == Noted(k, e) IN
           /\ s \in TrackedState
           /\ s.above <=> states[k].above /\ NoGap(k)
           /\ s.above => s.firstAbove = states[k].firstAbove
           /\ s.lastObservedAt = now
           /\ s.lastNotifiedAt = states[k].lastNotifiedAt
<1>1. states[k] \in TrackedState /\ now \in Nat
    BY DEF TypeInv, TypeOK
<1>2. states[k].lastObservedAt \in Nat \cup {-1}
    BY <1>1 DEF TrackedState
<1>3. /\ Noted(k, e).above <=> states[k].above /\ NoGap(k)
      /\ Noted(k, e).above => Noted(k, e).firstAbove = states[k].firstAbove
    BY <1>1, <1>2 DEF Noted, AfterGap, TrackedState, HeardOnce, NoGap
<1> QED
    BY <1>3, NotedType DEF TypeInv

LEMMA ObservedEffect ==
    ASSUME TypeInv, NEW k \in Keys, HeardOnce(k), Observe(k)
    PROVE  /\ now' = now
           /\ \A j \in Keys \ {k} : states'[j] = states[j] /\ journal'[j] = journal[j]
           /\ states'[k] \in TrackedState
           /\ states'[k].lastObservedAt = now
           /\ (states[k].above /\ NoGap(k)) \/ journal'[k] = journal[k]
           /\ RunSignalled(k)'
<1>1. states[k] \in TrackedState /\ now \in Nat /\ states \in [Keys -> TrackedState]
    BY DEF TypeInv, TypeOK
<1>2. journal \in [Keys -> Emission]
    BY DEF TypeInv, TypeOK
<1>3. CASE ObserveBelow(k)
    <2> DEFINE s == Noted(k, FALSE)
    <2>1. s \in TrackedState /\ s.lastObservedAt = now
        BY GapChecked
    <2> HIDE DEF s
    <2>2. states' = [states EXCEPT ![k] = [s EXCEPT !.above = FALSE, !.firstAbove = Zero]]
        BY <1>3 DEF ObserveBelow, s
    <2>3. /\ states'[k] \in TrackedState /\ states'[k].lastObservedAt = now
          /\ ~ states'[k].above
        BY <1>1, <2>1, <2>2 DEF TrackedState
    <2> QED
        BY <1>1, <1>3, <2>2, <2>3 DEF ObserveBelow, RunSignalled
<1>4. CASE ObserveRunStart(k)
    <2> DEFINE s == Noted(k, TRUE)
    <2>1. s \in TrackedState /\ s.lastObservedAt = now
        BY GapChecked
    <2> HIDE DEF s
    <2>2. states' = [states EXCEPT ![k] = [s EXCEPT !.above = TRUE, !.firstAbove = now]]
        BY <1>4 DEF ObserveRunStart, s
    <2>3. /\ states'[k] \in TrackedState /\ states'[k].lastObservedAt = now
          /\ states'[k].firstAbove = now
        BY <1>1, <2>1, <2>2 DEF TrackedState
    <2>4. RunSignalled(k)'
        BY <1>1, <2>3 DEF RunSignalled
    <2> QED
        BY <1>1, <1>4, <2>2, <2>3, <2>4 DEF ObserveRunStart
<1>5. CASE ObserveQuiet(k)
    <2> DEFINE s == Noted(k, TRUE)
    <2>1. s \in TrackedState /\ s.lastObservedAt = now
        BY GapChecked
    <2>2. s.above /\ (now - s.firstAbove < Required[k] \/ CoolingDown(s))
        BY <1>5 DEF ObserveQuiet
    <2>3. states' = [states EXCEPT ![k] = s]
        BY <1>5 DEF ObserveQuiet
    <2> HIDE DEF s
    <2>4. states'[k] = s
        BY <1>1, <2>3
    <2>5. RunSignalled(k)'
        <3>1. s.lastNotifiedAt \in Nat \cup {-1} /\ s.firstAbove \in Nat \cup {-1}
            BY <2>1 DEF TrackedState
        <3> QED
            BY <1>1, <2>1, <2>2, <2>4, <3>1 DEF RunSignalled, CoolingDown
    <2> QED
        BY <1>1, <1>5, <2>1, <2>3, <2>4, <2>5 DEF ObserveQuiet
<1>6. CASE ObserveNotify(k)
    <2> DEFINE s == Noted(k, TRUE)
    <2>1. s \in TrackedState /\ s.lastObservedAt = now
        BY GapChecked
    <2>2. states' = [states EXCEPT ![k] = [s EXCEPT !.lastNotifiedAt = now]] /\ s.above
        BY <1>6 DEF ObserveNotify
    <2>3. states[k].above /\ NoGap(k)
        BY <2>2, GapChecked
    <2> HIDE DEF s
    <2>4. /\ states'[k] \in TrackedState /\ states'[k].lastObservedAt = now
          /\ states'[k].lastNotifiedAt = now
        BY <1>1, <2>1, <2>2 DEF TrackedState
    <2>5. RunSignalled(k)'
        BY <1>1, <2>4 DEF RunSignalled
    <2> QED
        BY <1>1, <1>2, <1>6, <2>2, <2>3, <2>4, <2>5 DEF ObserveNotify, Notify
<1> QED
    BY <1>3, <1>4, <1>5, <1>6 DEF Observe

LEMMA SeenEffect ==
    ASSUME TypeInv, NEW k \in Keys, HeardOnce(k),
           ObserveRunStart(k) \/ ObserveQuiet(k) \/ ObserveNotify(k)
    PROVE  /\ states'[k].above
           /\ \/ states'[k].firstAbove = now /\ ~ (states[k].above /\ NoGap(k))
              \/ states'[k].firstAbove = states[k].firstAbove /\ states[k].above
<1> DEFINE s == Noted(k, TRUE)
<1>1. states \in [Keys -> TrackedState] /\ now \in Nat
    BY DEF TypeInv, TypeOK
<1>2. /\ s \in TrackedState
      /\ s.above <=> states[k].above /\ NoGap(k)
      /\ s.above => s.firstAbove = states[k].firstAbove
    BY GapChecked
<1>3. \/ ~ s.above /\ states' = [states EXCEPT ![k] = [s EXCEPT !.above = TRUE, !.firstAbove = now]]
      \/ s.above /\ states' = [states EXCEPT ![k] = s]
      \/ s.above /\ states' = [states EXCEPT ![k] = [s EXCEPT !.lastNotifiedAt = now]]
    BY DEF ObserveRunStart, ObserveQuiet, ObserveNotify
<1> HIDE DEF s
<1> QED
    BY <1>1, <1>2, <1>3 DEF TrackedState
-----------------------------------------------------------------------------
(***************************************************************************)
(* The pace is kept.                                                       *)
(***************************************************************************)
LEMMA StrideType ==
    /\ Stride \in Nat /\ Stride >= Interval /\ Stride >= MaxCycle
    /\ MaxCycle <= Interval => Stride = Interval
    BY DEF Stride, Greater

LEMMA MissedType ==
    ASSUME since \in [Keys -> Nat], missed \in [Keys -> Nat], now \in Nat,
           \A k \in Keys : since[k] <= now,
           NEW K, Missed(K)
    PROVE  /\ since' \in [Keys -> Nat] /\ missed' \in [Keys -> Nat]
           /\ \A k \in Keys : since'[k] <= now
           /\ faults \in 0..MaxFaults => faults' \in 0..MaxFaults
<1>1. faults \in 0..MaxFaults => faults' \in 0..MaxFaults
    BY CadenceBounds DEF Missed
<1> QED
    BY <1>1 DEF Missed

LEMMA PaceInit == CadenceInit => PaceInv
<1> SUFFICES ASSUME CadenceInit
             PROVE  PaceInv
    OBVIOUS
<1>1. TypeInv
    BY TypeInit DEF CadenceInit
<1>2. CadenceTypeOK
    <2>1. nextTick \in Nat /\ now < nextTick /\ nextTick <= now + Interval /\ startedAt \in 0..now
        BY DEF CadenceInit, Init
    <2>2. faults \in 0..MaxFaults /\ flips \in 0..MaxFlips
        BY CadenceBounds DEF CadenceInit
    <2>3. since \in [Keys -> Nat] /\ missed \in [Keys -> Nat]
        BY DEF CadenceInit
    <2> QED
        BY <1>1, <2>1, <2>2, <2>3 DEF CadenceInit, CadenceTypeOK, TypeInv
<1>3. \A k \in Keys : states[k].above => states[k].lastObservedAt # Zero
    BY DEF CadenceInit, Init, NewTracker, ZeroState
<1> QED
    BY <1>1, <1>2, <1>3, StrideType DEF CadenceInit, PaceInv, TypeInv, Paced, Init

LEMMA PaceStep == PaceInv /\ [CadenceNext]_cadenceVars => PaceInv'
<1> SUFFICES ASSUME PaceInv, [CadenceNext]_cadenceVars
             PROVE  PaceInv'
    OBVIOUS
<1>1. TypeInv /\ TypeInv'
    BY TrackerStep, TypeStep DEF PaceInv, CadenceTypeOK, TypeInv
<1>2. /\ now \in Nat /\ nextTick \in Nat /\ now < nextTick /\ nextTick <= now + Interval
      /\ startedAt \in 0..now /\ since \in [Keys -> Nat] /\ missed \in [Keys -> Nat]
      /\ states \in [Keys -> TrackedState]
      /\ \A k \in Keys : since[k] <= now
    BY <1>1 DEF PaceInv, CadenceTypeOK, TypeInv, TypeOK
<1> DEFINE
      Times == /\ nextTick \in Nat /\ now < nextTick /\ nextTick <= now + Interval
               /\ startedAt \in 0..now
               /\ Paced
      Rest == /\ ticked \in BOOLEAN
              /\ phase \in {"wait", "read", "tell"}
              /\ left \subseteq Keys /\ seen \subseteq Keys /\ high \subseteq Keys
              /\ since \in [Keys -> Nat] /\ missed \in [Keys -> Nat]
              /\ faults \in 0..MaxFaults /\ flips \in 0..MaxFlips
              /\ \A k \in Keys : since[k] <= now
              /\ \A k \in Keys : states[k].above => states[k].lastObservedAt # Zero
<1>3. Times /\ Rest
    BY DEF PaceInv, CadenceTypeOK
<1>4. SUFFICES Times' /\ Rest'
    BY <1>1 DEF PaceInv, CadenceTypeOK, TypeInv
<1>5. CASE Pass
    <2>1. now' = now + 1 /\ UNCHANGED <<states, phase, startedAt, left, seen, high, since, missed, bounds>>
        BY <1>5 DEF Pass, Tick
    <2>2. Rest'
        <3>1. \A k \in Keys : since[k] <= now'
            BY <1>2, <2>1
        <3>2. ticked' \in BOOLEAN
            BY <1>3, <1>5 DEF Pass, PassDeliver
        <3> QED
            BY <1>3, <2>1, <3>1, <3>2 DEF bounds
    <2>3. Times'
        BY <1>2, <1>3, <1>5, <2>1, StrideType DEF Pass, PassDeliver, Paced
    <2> QED
        BY <2>2, <2>3
<1>6. CASE CycleStarts
    <2>1. Rest'
        BY <1>3, <1>6 DEF CycleStarts, tracker, bounds
    <2>2. Times'
        BY <1>2, <1>3, <1>6, StrideType DEF CycleStarts, Paced
    <2> QED
        BY <2>1, <2>2
<1>7. CASE CycleReads
    <2>1. PICK K \in SUBSET Keys : left' = K /\ Missed(Keys \ K)
        BY <1>7 DEF CycleReads
    <2>2. /\ since' \in [Keys -> Nat] /\ missed' \in [Keys -> Nat]
          /\ \A k \in Keys : since'[k] <= now
          /\ faults' \in 0..MaxFaults
        BY <1>2, <1>3, <2>1, MissedType
    <2>3. Rest'
        BY <1>3, <1>7, <2>1, <2>2 DEF CycleReads, tracker
    <2>4. Times'
        BY <1>3, <1>7 DEF CycleReads, Paced
    <2> QED
        BY <2>3, <2>4
<1>8. CASE CycleMisses
    <2>1. Missed(Keys)
        BY <1>8 DEF CycleMisses
    <2>2. /\ since' \in [Keys -> Nat] /\ missed' \in [Keys -> Nat]
          /\ \A k \in Keys : since'[k] <= now
          /\ faults' \in 0..MaxFaults
        BY <1>2, <1>3, <2>1, MissedType
    <2>3. Rest'
        BY <1>3, <1>8, <2>2 DEF CycleMisses, tracker
    <2>4. Times'
        BY <1>3, <1>8 DEF CycleMisses, Paced
    <2> QED
        BY <2>3, <2>4
<1>9. CASE CycleObserves
    <2>1. PICK k \in left : /\ Observe(k)
                            /\ left' = left \ {k}
                            /\ missed' = [missed EXCEPT ![k] = 0]
        BY <1>9 DEF CycleObserves, Observe
    <2>2. k \in Keys /\ HeardOnce(k)
        BY <1>3 DEF HeardOnce
    <2>3. /\ now' = now
          /\ states'[k].lastObservedAt = now
          /\ \A j \in Keys \ {k} : states'[j] = states[j]
        BY <1>1, <2>1, <2>2, ObservedEffect
    <2>4. \A j \in Keys : states'[j].above => states'[j].lastObservedAt # Zero
        BY <1>2, <1>3, <2>3
    <2>5. Rest'
        BY <1>3, <1>9, <2>1, <2>3, <2>4 DEF CycleObserves, bounds
    <2>6. Times'
        BY <1>3, <1>9, <2>3 DEF CycleObserves, Paced
    <2> QED
        BY <2>5, <2>6
<1>10. CASE CycleEnds
    BY <1>3, <1>10 DEF CycleEnds, tracker, bounds, Paced
<1>11. ASSUME NEW k \in Keys, Flip(k)
       PROVE  Times' /\ Rest'
    <2>1. Times'
        BY <1>3, <1>11 DEF Flip, loop, Paced
    <2>2. flips' \in 0..MaxFlips
        BY <1>3, <1>11, CadenceBounds DEF Flip
    <2>3. Rest'
        BY <1>2, <1>3, <1>11, <2>2 DEF Flip, loop, tracker
    <2> QED
        BY <2>1, <2>3
<1>12. CASE Reset
    <2>1. Times'
        BY <1>3, <1>12 DEF Reset, FreshStart, loop, Paced
    <2>2. Rest'
        BY <1>2, <1>3, <1>12 DEF Reset, FreshStart, NewTracker, ZeroState, loop, bounds
    <2> QED
        BY <2>1, <2>2
<1>13. CASE Restart
    <2>1. Times'
        BY <1>2, <1>3, <1>13, StrideType DEF Restart, FreshStart, LoopStarts, Paced
    <2>2. faults' \in 0..MaxFaults
        BY <1>3, <1>13, CadenceBounds DEF Restart
    <2>3. /\ since' \in [Keys -> Nat] /\ missed' \in [Keys -> Nat]
          /\ \A k \in Keys : since'[k] <= now'
          /\ \A k \in Keys : states'[k].above => states'[k].lastObservedAt # Zero
        BY <1>2, <1>13 DEF Restart, FreshStart, NewTracker, ZeroState
    <2>4. Rest'
        BY <1>3, <1>13, <2>2, <2>3 DEF Restart, LoopStarts
    <2> QED
        BY <2>1, <2>4
<1>14. CASE UNCHANGED cadenceVars
    BY <1>3, <1>14 DEF cadenceVars, tracker, loop, bounds, Paced
<1> QED
    BY <1>5, <1>6, <1>7, <1>8, <1>9, <1>10, <1>11, <1>12, <1>13, <1>14 DEF CadenceNext

(***************************************************************************)
(* Type correctness of the loop and of the tracker it drives.              *)
(***************************************************************************)
THEOREM CadenceTypeCorrect == CadenceSpec => []CadenceTypeOK
<1>1. PaceInv => CadenceTypeOK
    BY DEF PaceInv
<1> QED
    BY <1>1, PaceInit, PaceStep, PTL DEF CadenceSpec

(***************************************************************************)
(* The tracker that the loop drives is the tracker: whatever is proved of  *)
(* Tracker's behaviours holds of it.                                       *)
(***************************************************************************)
THEOREM LoopDrivesTracker == CadenceSpec => Spec
<1>1. CadenceInit => Init
    BY DEF CadenceInit
<1>2. PaceInv /\ [CadenceNext]_cadenceVars => [Next]_vars
    BY TrackerStep DEF PaceInv, CadenceTypeOK
<1> QED
    BY <1>1, <1>2, PaceInit, PaceStep, PTL DEF CadenceSpec, Spec
-----------------------------------------------------------------------------
(***************************************************************************)
(* What the steps do to what the invariants of a key look at.              *)
(***************************************************************************)
LEMMA KeyTypes ==
    ASSUME PaceInv, NEW k \in Keys
    PROVE  /\ now \in Nat /\ startedAt \in Nat /\ startedAt <= now /\ nextTick \in Nat
           /\ since[k] \in Nat /\ since[k] <= now /\ missed[k] \in Nat
           /\ states[k] \in TrackedState
           /\ states[k].lastObservedAt \in Nat \cup {-1}
           /\ states[k].lastNotifiedAt \in Nat \cup {-1}
           /\ states[k].above \in BOOLEAN
           /\ states[k].above => /\ states[k].firstAbove \in Nat /\ states[k].firstAbove <= now
                                 /\ states[k].lastObservedAt # -1
           /\ Required[k] \in Nat
<1>1. /\ now \in Nat /\ startedAt \in Nat /\ startedAt <= now /\ nextTick \in Nat
      /\ since[k] \in Nat /\ since[k] <= now /\ missed[k] \in Nat
      /\ states[k] \in TrackedState
    BY DEF PaceInv, CadenceTypeOK, TypeOK
<1>2. /\ states[k].lastObservedAt \in Nat \cup {-1}
      /\ states[k].lastNotifiedAt \in Nat \cup {-1}
      /\ states[k].above \in BOOLEAN
    BY <1>1 DEF TrackedState
<1>3. states[k].above => states[k].firstAbove \in 0..now /\ states[k].lastObservedAt # -1
    BY DEF PaceInv, FirstAboveSet
<1> QED
    BY <1>1, <1>2, <1>3

LEMMA MissedEffect ==
    ASSUME PaceInv, NEW K \in SUBSET Keys, Missed(K), NEW k \in Keys
    PROVE  /\ missed'[k] = IF k \in K THEN missed[k] + 1 ELSE missed[k]
           /\ since'[k] = IF k \in K THEN now ELSE since[k]
    BY KeyTypes DEF Missed

LEMMA ObservesEffect ==
    ASSUME PaceInv, CycleObserves
    PROVE  \E k \in left :
           /\ IF k \in seen
              THEN ObserveRunStart(k) \/ ObserveQuiet(k) \/ ObserveNotify(k)
              ELSE ObserveBelow(k)
           /\ k \in Keys /\ HeardOnce(k) /\ TypeInv /\ Observe(k)
           /\ phase = "tell" /\ phase' = "tell"
           /\ now' = now /\ startedAt' = startedAt /\ since' = since /\ seen' = seen /\ high' = high
           /\ ticked' = ticked /\ nextTick' = nextTick
           /\ left' = left \ {k}
           /\ missed'[k] = 0 /\ \A j \in Keys \ {k} : missed'[j] = missed[j]
           /\ states'[k] \in TrackedState /\ states'[k].lastObservedAt = now
           /\ RunSignalled(k)'
           /\ \A j \in Keys \ {k} : states'[j] = states[j]
<1>1. PICK k \in left : /\ IF k \in seen
                           THEN ObserveRunStart(k) \/ ObserveQuiet(k) \/ ObserveNotify(k)
                           ELSE ObserveBelow(k)
                        /\ left' = left \ {k}
                        /\ missed' = [missed EXCEPT ![k] = 0]
    BY DEF CycleObserves
<1>2. k \in Keys /\ HeardOnce(k) /\ TypeInv /\ Observe(k)
    BY <1>1 DEF PaceInv, CadenceTypeOK, TypeInv, HeardOnce, Observe
<1>3. missed'[k] = 0 /\ \A j \in Keys \ {k} : missed'[j] = missed[j]
    BY <1>1, <1>2 DEF PaceInv, CadenceTypeOK
<1>4. /\ now' = now
      /\ \A j \in Keys \ {k} : states'[j] = states[j]
      /\ states'[k] \in TrackedState /\ states'[k].lastObservedAt = now
      /\ RunSignalled(k)'
    BY <1>2, ObservedEffect
<1> QED
    BY <1>1, <1>2, <1>3, <1>4 DEF CycleObserves
-----------------------------------------------------------------------------
(***************************************************************************)
(* The tracker hears of every key in time (HeardInTime).                   *)
(***************************************************************************)
LEMMA HeardStep == PaceInv /\ HeardInv /\ [CadenceNext]_cadenceVars => HeardInv'
<1> SUFFICES ASSUME PaceInv, HeardInv, [CadenceNext]_cadenceVars, NEW k \in Keys
             PROVE  (states[k].lastObservedAt # Zero =>
                        IF Behind(k)
                        THEN startedAt - states[k].lastObservedAt <= (missed[k] + 1) * Stride
                        ELSE startedAt - states[k].lastObservedAt <= missed[k] * Stride)'
    BY DEF HeardInv
<1> DEFINE L == states[k].lastObservedAt
           P(m) == m * Stride
           Near(m) == L # Zero => startedAt - L <= P(m)
<1>1. \A m \in Nat : P(m) \in Nat /\ P(m + 1) = P(m) + Stride
    BY StrideType
<1>2. IF Behind(k) THEN Near(missed[k] + 1) ELSE Near(missed[k])
    BY DEF HeardInv
<1>3. Stride' = Stride
    BY DEF Stride, Greater
<1>4. SUFFICES IF Behind(k)' THEN L' # Zero => startedAt' - L' <= P(missed'[k] + 1)
               ELSE L' # Zero => startedAt' - L' <= P(missed'[k])
    BY <1>3
<1>5. /\ now \in Nat /\ startedAt \in Nat /\ startedAt <= now /\ missed[k] \in Nat
      /\ L \in Nat \cup {-1}
    BY KeyTypes
<1>6. now <= startedAt + Stride /\ Stride \in Nat
    BY StrideType DEF PaceInv, Paced
<1> HIDE DEF P, L
<1>7. CASE Pass
    <2>1. L' = L /\ startedAt' = startedAt /\ missed' = missed /\ (Behind(k)' <=> Behind(k))
        BY <1>7 DEF Pass, Tick, Behind, L
    <2> QED
        BY <1>2, <2>1
<1>8. CASE CycleStarts
    <2>1. L' = L /\ startedAt' = now /\ missed' = missed /\ Behind(k)' /\ ~ Behind(k)
        BY <1>8 DEF CycleStarts, tracker, Behind, L
    <2> QED
        BY <1>1, <1>2, <1>5, <1>6, <2>1
<1>9. CASE CycleReads
    <2>1. PICK K \in SUBSET Keys : left' = K /\ Missed(Keys \ K)
        BY <1>9 DEF CycleReads
    <2>2. /\ L' = L /\ startedAt' = startedAt /\ Behind(k)
          /\ Behind(k)' <=> k \in K
          /\ missed'[k] = IF k \in K THEN missed[k] ELSE missed[k] + 1
        BY <1>9, <2>1, MissedEffect DEF CycleReads, tracker, Behind, L
    <2> QED
        BY <1>2, <2>2
<1>10. CASE CycleMisses
    <2>1. /\ L' = L /\ startedAt' = startedAt /\ Behind(k) /\ ~ Behind(k)'
          /\ missed'[k] = missed[k] + 1
        BY <1>10, MissedEffect DEF CycleMisses, tracker, Behind, L
    <2> QED
        BY <1>2, <2>1
<1>11. CASE CycleObserves
    <2>1. PICK j \in left :
            /\ phase = "tell" /\ phase' = "tell"
            /\ startedAt' = startedAt /\ left' = left \ {j}
            /\ missed'[j] = 0 /\ \A i \in Keys \ {j} : missed'[i] = missed[i]
            /\ states'[j].lastObservedAt = now
            /\ \A i \in Keys \ {j} : states'[i] = states[i]
        BY <1>11, ObservesEffect
    <2>2. CASE j = k
        <3>1. L' = now /\ startedAt' = startedAt /\ missed'[k] = 0 /\ ~ Behind(k)'
            BY <2>1, <2>2 DEF Behind, L
        <3> QED
            BY <1>1, <1>5, <3>1
    <2>3. CASE j # k
        <3>1. L' = L /\ startedAt' = startedAt /\ missed'[k] = missed[k] /\ (Behind(k)' <=> Behind(k))
            BY <2>1, <2>3 DEF Behind, L
        <3> QED
            BY <1>2, <3>1
    <2> QED
        BY <2>2, <2>3
<1>12. CASE CycleEnds
    <2>1. L' = L /\ startedAt' = startedAt /\ missed' = missed /\ ~ Behind(k) /\ ~ Behind(k)'
        BY <1>12 DEF CycleEnds, tracker, Behind, L
    <2> QED
        BY <1>2, <2>1
<1>13. CASE (\E j \in Keys : Flip(j)) \/ UNCHANGED cadenceVars
    <2>1. L' = L /\ startedAt' = startedAt /\ missed' = missed /\ (Behind(k)' <=> Behind(k))
        BY <1>13 DEF Flip, cadenceVars, tracker, loop, Behind, L
    <2> QED
        BY <1>2, <2>1
<1>14. CASE Reset \/ Restart
    <2>1. L' = Zero
        BY <1>14 DEF Reset, Restart, FreshStart, NewTracker, ZeroState, L
    <2> QED
        BY <2>1
<1> QED
    BY <1>7, <1>8, <1>9, <1>10, <1>11, <1>12, <1>13, <1>14 DEF CadenceNext

LEMMA HeardAlways == CadenceSpec => [](PaceInv /\ HeardInv)
<1>1. CadenceInit => HeardInv
    BY DEF CadenceInit, Init, NewTracker, ZeroState, HeardInv
<1> QED
    BY <1>1, PaceInit, PaceStep, HeardStep, PTL DEF CadenceSpec

(***************************************************************************)
(* Between two observations of a key lie at most one stride per cycle that *)
(* missed it, one more, and the length of a cycle.                         *)
(***************************************************************************)
THEOREM KeysHeardInTime == CadenceSpec => []HeardInTime
<1>1. ASSUME PaceInv, HeardInv, NEW k \in Keys, states[k].lastObservedAt # Zero
      PROVE  now - states[k].lastObservedAt <= (missed[k] + 1) * Stride + MaxCycle
    <2> DEFINE L == states[k].lastObservedAt
               a == missed[k] * Stride
               b == (missed[k] + 1) * Stride
    <2>1. missed[k] \in Nat /\ now \in Nat /\ startedAt \in Nat /\ L \in Nat
        BY <1>1, KeyTypes
    <2>2. a \in Nat /\ b = a + Stride /\ Stride \in Nat
        BY <2>1, StrideType
    <2>3. IF Behind(k) THEN startedAt - L <= b ELSE startedAt - L <= a
        BY <1>1 DEF HeardInv
    <2>4. now <= startedAt + Stride /\ (Behind(k) => now <= startedAt + MaxCycle)
        BY <1>1 DEF PaceInv, Paced, Behind
    <2> HIDE DEF L, a, b
    <2>5. now - L <= b + MaxCycle
        BY <2>1, <2>2, <2>3, <2>4
    <2> QED
        BY <2>5 DEF L, b
<1>2. PaceInv /\ HeardInv => HeardInTime
    BY <1>1 DEF HeardInTime
<1> QED
    BY <1>2, HeardAlways, PTL
-----------------------------------------------------------------------------
(***************************************************************************)
(* What holds without interference is signalled (SignalledInTime).         *)
(***************************************************************************)
LEMMA SignalledStep ==
    ASSUME PaceInv, [CadenceNext]_cadenceVars, NEW k \in Keys, RunSignalled(k)
    PROVE  RunSignalled(k)'
<1>1. CASE states'[k] = states[k]
    BY <1>1 DEF RunSignalled
<1>2. CASE CycleObserves
    <2>1. PICK j \in left : RunSignalled(j)' /\ \A i \in Keys \ {j} : states'[i] = states[i]
        BY <1>2, ObservesEffect
    <2> QED
        BY <1>1, <2>1
<1>3. CASE FreshStart
    BY <1>3 DEF FreshStart, NewTracker, ZeroState, RunSignalled
<1>4. CASE UNCHANGED states
    BY <1>1, <1>4
<1> QED
    BY <1>2, <1>3, <1>4 DEF CadenceNext, Pass, Tick, CycleStarts, CycleReads, CycleMisses, CycleEnds,
                            Flip, Reset, Restart, cadenceVars, tracker

LEMMA SteadyStep ==
    ASSUME PaceInv, [CadenceNext]_cadenceVars, MaxGap = 0 \/ Wait <= MaxGap, NEW k \in Keys,
           k \in high => SteadyRun(k)
    PROVE  k \in high' => SteadyRun(k)'
<1> DEFINE L == states[k].lastObservedAt
           S == Stride
           W == Wait
           Since == states[k].above /\ states[k].firstAbove <= since[k] + W
           Steadily ==
             IF Behind(k)
             THEN /\ since[k] + S < startedAt => Since /\ L >= startedAt - S
                  /\ phase = "tell" /\ since[k] < startedAt => k \in seen
             ELSE since[k] < startedAt => Since /\ L >= startedAt
<1>1. k \in high => Steadily
    BY DEF SteadyRun, RunsSince
<1>2. Stride' = S /\ Wait' = W
    BY DEF Stride, Wait, Greater
<1>3. SUFFICES k \in high' => Steadily'
    BY <1>2 DEF SteadyRun, RunsSince
<1>4. /\ now \in Nat /\ startedAt \in Nat /\ startedAt <= now
      /\ since[k] \in Nat /\ since[k] <= now
      /\ L \in Nat \cup {-1}
      /\ states[k].above => states[k].firstAbove \in Nat /\ states[k].firstAbove <= now /\ L # -1
    BY KeyTypes
<1>5. S \in Nat /\ W = S + MaxCycle /\ now <= startedAt + S
      /\ (phase # "wait" => now <= startedAt + MaxCycle)
    BY StrideType DEF PaceInv, Paced, Wait
<1>6. /\ startedAt' \in Nat /\ now' \in Nat /\ startedAt' <= now'
      /\ since'[k] \in Nat
    <2>1. PaceInv'
        BY PaceStep
    <2> QED
        BY <2>1 DEF PaceInv, CadenceTypeOK, TypeOK
<1> HIDE DEF S, W
<1>7. ASSUME since'[k] >= startedAt'
      PROVE  Steadily'
    BY <1>5, <1>6, <1>7 DEF S
<1>8. ASSUME UNCHANGED <<states, startedAt, since, phase, left, seen, high>>
      PROVE  k \in high' => Steadily'
    BY <1>1, <1>8 DEF Behind, S, W
<1>9. CASE CycleStarts
    <2>1. /\ startedAt' = now /\ Behind(k)' /\ ~ Behind(k) /\ phase' = "read"
          /\ UNCHANGED <<states, since, high>>
        BY <1>9 DEF CycleStarts, tracker, Behind
    <2>2. ASSUME k \in high, since[k] + S < now
          PROVE  Since /\ L >= now - S
        BY <1>1, <1>4, <1>5, <2>1, <2>2
    <2> QED
        BY <2>1, <2>2 DEF S, W
<1>10. CASE CycleReads
    <2>1. PICK K \in SUBSET Keys : left' = K /\ Missed(Keys \ K)
        BY <1>10 DEF CycleReads
    <2>2. /\ Behind(k) /\ phase' = "tell" /\ seen' = high
          /\ UNCHANGED <<states, startedAt, high, now>>
        BY <1>10 DEF CycleReads, tracker, Behind
    <2>3. CASE k \in K
        <3>1. since'[k] = since[k] /\ Behind(k)'
            BY <2>1, <2>2, <2>3, MissedEffect DEF Behind
        <3> QED
            BY <1>1, <2>2, <3>1 DEF S, W
    <2>4. CASE k \notin K
        <3>1. since'[k] = now
            BY <2>1, <2>4, MissedEffect
        <3> QED
            BY <1>4, <1>7, <2>2, <3>1
    <2> QED
        BY <2>3, <2>4
<1>11. CASE CycleMisses
    <2>1. since'[k] = now /\ startedAt' = startedAt
        BY <1>11, MissedEffect DEF CycleMisses
    <2> QED
        BY <1>4, <1>7, <2>1
<1>12. CASE CycleObserves
    <2>1. PICK j \in left :
            /\ j \in seen => ObserveRunStart(j) \/ ObserveQuiet(j) \/ ObserveNotify(j)
            /\ j \in Keys /\ HeardOnce(j) /\ TypeInv
            /\ phase = "tell" /\ phase' = "tell"
            /\ startedAt' = startedAt /\ since' = since /\ seen' = seen /\ high' = high
            /\ left' = left \ {j}
            /\ states'[j].lastObservedAt = now
            /\ \A i \in Keys \ {j} : states'[i] = states[i]
        BY <1>12, ObservesEffect
    <2>2. CASE j # k
        <3>1. states'[k] = states[k] /\ (Behind(k)' <=> Behind(k))
            BY <2>1, <2>2 DEF Behind
        <3> QED
            BY <1>1, <2>1, <3>1 DEF S, W
    <2>3. CASE j = k
        <3>1. Behind(k) /\ ~ Behind(k)' /\ L' = now
            BY <2>1, <2>3 DEF Behind
        <3>2. SUFFICES ASSUME k \in high, since[k] < startedAt
                       PROVE  states'[k].above /\ states'[k].firstAbove <= since[k] + W
            BY <1>4, <2>1, <3>1 DEF W
        <3>3. k \in seen
            BY <1>1, <2>1, <3>1, <3>2
        <3>4. /\ states'[k].above
              /\ \/ states'[k].firstAbove = now /\ ~ (states[k].above /\ NoGap(k))
                 \/ states'[k].firstAbove = states[k].firstAbove /\ states[k].above
            BY <2>1, <2>3, <3>3, SeenEffect
        <3>5. now <= startedAt + MaxCycle
            BY <1>5, <2>1
        <3>6. CASE since[k] + S < startedAt
            <4>1. Since /\ L >= startedAt - S
                BY <1>1, <3>1, <3>2, <3>6
            <4>2. now - L <= W
                BY <1>4, <1>5, <3>5, <4>1
            <4>3. NoGap(k)
                BY <1>4, <1>5, <4>1, <4>2 DEF NoGap, W
            <4> QED
                BY <3>4, <4>1, <4>3
        <3>7. CASE ~ (since[k] + S < startedAt)
            <4>1. now <= since[k] + W
                BY <1>4, <1>5, <3>5, <3>7
            <4> QED
                BY <1>4, <1>5, <3>4, <4>1
        <3> QED
            BY <3>6, <3>7
    <2> QED
        BY <2>2, <2>3
<1>13. CASE CycleEnds
    <2>1. ~ Behind(k) /\ ~ Behind(k)' /\ UNCHANGED <<states, startedAt, since, high>>
        BY <1>13 DEF CycleEnds, tracker, Behind
    <2> QED
        BY <1>1, <2>1 DEF S, W
<1>14. ASSUME NEW j \in Keys, Flip(j)
       PROVE  k \in high' => Steadily'
    <2>1. UNCHANGED <<states, startedAt, phase, left, seen, now>>
        BY <1>14 DEF Flip, tracker, loop
    <2>2. CASE j = k
        <3>1. since'[k] = now
            BY <1>14, <2>2 DEF Flip, PaceInv, CadenceTypeOK
        <3> QED
            BY <1>4, <1>7, <2>1, <3>1
    <2>3. CASE j # k
        <3>1. since'[k] = since[k] /\ (k \in high' <=> k \in high)
            BY <1>14, <2>3 DEF Flip, PaceInv, CadenceTypeOK
        <3> QED
            BY <1>1, <2>1, <3>1 DEF Behind, S, W
    <2> QED
        BY <2>2, <2>3
<1>15. CASE Reset \/ Restart
    <2>1. since'[k] = now /\ now' = now
        BY <1>15 DEF Reset, Restart, FreshStart
    <2> QED
        BY <1>6, <1>7, <2>1
<1>16. CASE Pass \/ UNCHANGED cadenceVars
    BY <1>8, <1>16 DEF Pass, Tick, cadenceVars, tracker, loop
<1> QED
    BY <1>9, <1>10, <1>11, <1>12, <1>13, <1>14, <1>15, <1>16 DEF CadenceNext

LEMMA SteadyAlways == CadenceSpec => [](PaceInv /\ SteadyInv)
<1>1. CadenceInit => SteadyInv
    <2> SUFFICES ASSUME CadenceInit
                 PROVE  SteadyInv
        OBVIOUS
    <2>1. \A k \in Keys : RunSignalled(k)
        BY DEF CadenceInit, Init, NewTracker, ZeroState, RunSignalled
    <2>2. ASSUME NEW k \in high  PROVE SteadyRun(k)
        <3>1. since[k] = 0 /\ startedAt = 0 /\ Behind(k) /\ phase = "read"
            BY <2>2 DEF CadenceInit, Behind
        <3>2. ~ (since[k] + Stride < startedAt)
            BY <3>1, StrideType
        <3> QED
            BY <3>1, <3>2 DEF SteadyRun
    <2> QED
        BY <2>1, <2>2 DEF SteadyInv
<1>2. PaceInv /\ SteadyInv /\ [CadenceNext]_cadenceVars => SteadyInv'
    <2> SUFFICES ASSUME PaceInv, SteadyInv, [CadenceNext]_cadenceVars
                 PROVE  SteadyInv'
        OBVIOUS
    <2>1. \A k \in Keys : RunSignalled(k)'
        BY SignalledStep DEF SteadyInv
    <2>2. ASSUME MaxGap = 0 \/ Wait <= MaxGap, NEW k \in high'
          PROVE  SteadyRun(k)'
        <3>1. k \in Keys
            BY PaceStep DEF PaceInv, CadenceTypeOK
        <3> QED
            BY <2>2, <3>1, SteadyStep DEF SteadyInv
    <2>3. Wait' = Wait
        BY DEF Wait, Stride, Greater
    <2> QED
        BY <2>1, <2>2, <2>3 DEF SteadyInv
<1> QED
    BY <1>1, <1>2, PaceInit, PaceStep, PTL DEF CadenceSpec

(***************************************************************************)
(* A condition that holds for the required duration and two waits without  *)
(* interference has been signalled, and it is again as the cooldown allows *)
(* it, if a wait of the loop is no gap for the tracker.                    *)
(***************************************************************************)
THEOREM ConditionsSignalled == CadenceSpec => []SignalledInTime
<1>1. ASSUME PaceInv, SteadyInv, MaxGap = 0 \/ Wait <= MaxGap,
             NEW k \in Keys, Steady(k, Required[k] + 2 * Wait)
      PROVE  /\ states[k].lastNotifiedAt # Zero
             /\ now - states[k].lastNotifiedAt <= Cooldown + Wait
    <2> DEFINE L == states[k].lastObservedAt
               F == states[k].firstAbove
               N == states[k].lastNotifiedAt
               W == Wait
    <2>1. /\ now \in Nat /\ startedAt \in Nat /\ since[k] \in Nat /\ Required[k] \in Nat
          /\ L \in Nat \cup {-1} /\ N \in Nat \cup {-1}
          /\ states[k].above => F \in Nat
        BY <1>1, KeyTypes
    <2>2. W \in Nat /\ W = Stride + MaxCycle /\ Stride \in Nat
        BY StrideType DEF Wait
    <2>3. k \in high /\ now - since[k] > Required[k] + 2 * W
        BY <1>1 DEF Steady
    <2>4. SteadyRun(k) /\ RunSignalled(k)
        BY <1>1, <2>3 DEF SteadyInv
    <2>5. now <= startedAt + Stride /\ (Behind(k) => now <= startedAt + MaxCycle)
        BY <1>1 DEF PaceInv, Paced, Behind
    <2>6. states[k].above /\ F <= since[k] + W /\ now - L <= W
        <3>1. CASE Behind(k)
            <4>1. since[k] + Stride < startedAt
                <5> HIDE DEF W
                <5> QED BY <2>1, <2>2, <2>3, <2>5, <3>1
            <4>2. states[k].above /\ F <= since[k] + W /\ L >= startedAt - Stride
                BY <2>4, <3>1, <4>1 DEF SteadyRun, RunsSince
            <4> HIDE DEF W, L, F
            <4> QED
                BY <2>1, <2>2, <2>5, <3>1, <4>2
        <3>2. CASE ~ Behind(k)
            <4>1. since[k] < startedAt
                <5> HIDE DEF W
                <5> QED BY <2>1, <2>2, <2>3, <2>5
            <4>2. states[k].above /\ F <= since[k] + W /\ L >= startedAt
                BY <2>4, <3>2, <4>1 DEF SteadyRun, RunsSince
            <4> HIDE DEF W, L, F
            <4> QED
                BY <2>1, <2>2, <2>5, <4>2
        <3> QED
            BY <3>1, <3>2
    <2>7. L > F /\ L - F >= Required[k]
        <3> HIDE DEF W, L, F
        <3> QED BY <2>1, <2>2, <2>3, <2>6
    <2>8. N # Zero /\ L - N <= Cooldown
        BY <2>4, <2>6, <2>7 DEF RunSignalled
    <2> HIDE DEF W, L, F, N
    <2>9. now - N <= Cooldown + W
        BY <2>1, <2>2, <2>6, <2>8
    <2> QED
        BY <2>8, <2>9 DEF N, W
<1>2. PaceInv /\ SteadyInv => SignalledInTime
    <2> SUFFICES ASSUME PaceInv, SteadyInv, MaxGap = 0 \/ Stride + MaxCycle <= MaxGap, NEW k \in Keys,
                        Steady(k, Required[k] + 2 * (Stride + MaxCycle))
                 PROVE  /\ states[k].lastNotifiedAt # Zero
                        /\ now - states[k].lastNotifiedAt <= Cooldown + Stride + MaxCycle
        BY DEF SignalledInTime
    <2>1. Wait = Stride + MaxCycle /\ Cooldown + Wait = Cooldown + Stride + MaxCycle
        BY StrideType DEF Wait
    <2> QED
        BY <1>1, <2>1
<1> QED
    BY <1>2, SteadyAlways, PTL
-----------------------------------------------------------------------------
(***************************************************************************)
(* Nobody is alerted of what nobody looked at (NoAlertAfterBlindness).     *)
(***************************************************************************)
LEMMA AlignedStep ==
    ASSUME PaceInv, [CadenceNext]_cadenceVars, MaxCycle <= Interval, Aligned
    PROVE  Aligned'
<1>1. /\ now \in Nat /\ startedAt \in Nat /\ startedAt <= now /\ nextTick \in Nat
      /\ now < nextTick
    BY DEF PaceInv, CadenceTypeOK, TypeOK
<1>2. phase # "wait" => now <= startedAt + MaxCycle
    BY DEF PaceInv, Paced
<1>3. CASE Pass
    <2>1. now' = now + 1 /\ startedAt' = startedAt
        BY <1>3 DEF Pass, Tick
    <2>2. ~ ticked
        BY <1>1, <1>3 DEF Pass, Aligned
    <2> QED
        BY <1>1, <1>3, <2>1, <2>2 DEF Pass, PassDeliver, Aligned
<1>4. CASE CycleStarts
    BY <1>1, <1>4 DEF CycleStarts, Aligned
<1>5. CASE CycleReads \/ CycleMisses \/ CycleEnds
    BY <1>5 DEF CycleReads, CycleMisses, CycleEnds, Aligned
<1>6. CASE CycleObserves
    BY <1>6, ObservesEffect DEF Aligned
<1>7. CASE (\E k \in Keys : Flip(k)) \/ UNCHANGED cadenceVars
    BY <1>7 DEF Flip, cadenceVars, loop, Aligned
<1>8. CASE Reset
    BY <1>8 DEF Reset, FreshStart, loop, Aligned
<1>9. CASE Restart
    BY <1>9 DEF Restart, LoopStarts, Aligned
<1> QED
    BY <1>3, <1>4, <1>5, <1>6, <1>7, <1>8, <1>9 DEF CadenceNext

LEMMA BlindStep == PaceInv /\ BlindInv /\ [CadenceNext]_cadenceVars => BlindInv'
<1> SUFFICES ASSUME PaceInv, BlindInv, [CadenceNext]_cadenceVars, MaxCycle <= Interval
             PROVE  /\ Aligned'
                    /\ \A k \in Keys :
                        (states[k].lastObservedAt # Zero =>
                            IF Behind(k)
                            THEN startedAt - states[k].lastObservedAt
                                    >= (missed[k] + 1) * Interval - MaxCycle
                            ELSE startedAt - states[k].lastObservedAt
                                    >= missed[k] * Interval - MaxCycle)'
    BY DEF BlindInv
<1>0. Aligned /\ Aligned'
    BY AlignedStep DEF BlindInv
<1> SUFFICES ASSUME NEW k \in Keys
             PROVE  (states[k].lastObservedAt # Zero =>
                        IF Behind(k)
                        THEN startedAt - states[k].lastObservedAt
                                >= (missed[k] + 1) * Interval - MaxCycle
                        ELSE startedAt - states[k].lastObservedAt
                                >= missed[k] * Interval - MaxCycle)'
    BY <1>0
<1> DEFINE L == states[k].lastObservedAt
           P(m) == m * Interval
           Far(m) == L # Zero => startedAt - L >= P(m) - MaxCycle
<1>1. \A m \in Nat : P(m) \in Nat /\ P(m + 1) = P(m) + Interval
    OBVIOUS
<1>1a. P(0) = 0
    OBVIOUS
<1>2. IF Behind(k) THEN Far(missed[k] + 1) ELSE Far(missed[k])
    BY DEF BlindInv
<1>3. SUFFICES IF Behind(k)' THEN L' # Zero => startedAt' - L' >= P(missed'[k] + 1) - MaxCycle
               ELSE L' # Zero => startedAt' - L' >= P(missed'[k]) - MaxCycle
    OBVIOUS
<1>4. /\ now \in Nat /\ startedAt \in Nat /\ startedAt <= now /\ missed[k] \in Nat
      /\ L \in Nat \cup {-1}
    BY KeyTypes
<1> HIDE DEF P, L
<1>5. CASE Pass
    <2>1. L' = L /\ startedAt' = startedAt /\ missed' = missed /\ (Behind(k)' <=> Behind(k))
        BY <1>5 DEF Pass, Tick, Behind, L
    <2> QED
        BY <1>2, <2>1
<1>6. CASE CycleStarts
    <2>1. L' = L /\ startedAt' = now /\ missed' = missed /\ Behind(k)' /\ ~ Behind(k)
        BY <1>6 DEF CycleStarts, tracker, Behind, L
    <2>2. now = startedAt + Interval
        BY <1>0, <1>6 DEF CycleStarts, Aligned
    <2> QED
        BY <1>1, <1>2, <1>4, <2>1, <2>2
<1>7. CASE CycleReads
    <2>1. PICK K \in SUBSET Keys : left' = K /\ Missed(Keys \ K)
        BY <1>7 DEF CycleReads
    <2>2. /\ L' = L /\ startedAt' = startedAt /\ Behind(k)
          /\ Behind(k)' <=> k \in K
          /\ missed'[k] = IF k \in K THEN missed[k] ELSE missed[k] + 1
        BY <1>7, <2>1, MissedEffect DEF CycleReads, tracker, Behind, L
    <2> QED
        BY <1>2, <2>2
<1>8. CASE CycleMisses
    <2>1. /\ L' = L /\ startedAt' = startedAt /\ Behind(k) /\ ~ Behind(k)'
          /\ missed'[k] = missed[k] + 1
        BY <1>8, MissedEffect DEF CycleMisses, tracker, Behind, L
    <2> QED
        BY <1>2, <2>1
<1>9. CASE CycleObserves
    <2>1. PICK j \in left :
            /\ phase = "tell" /\ phase' = "tell"
            /\ startedAt' = startedAt /\ left' = left \ {j}
            /\ missed'[j] = 0 /\ \A i \in Keys \ {j} : missed'[i] = missed[i]
            /\ states'[j].lastObservedAt = now
            /\ \A i \in Keys \ {j} : states'[i] = states[i]
        BY <1>9, ObservesEffect
    <2>2. CASE j = k
        <3>1. L' = now /\ startedAt' = startedAt /\ missed'[k] = 0 /\ ~ Behind(k)'
            BY <2>1, <2>2 DEF Behind, L
        <3>2. now <= startedAt + MaxCycle
            BY <2>1 DEF PaceInv, Paced
        <3> QED
            BY <1>1a, <1>4, <3>1, <3>2
    <2>3. CASE j # k
        <3>1. L' = L /\ startedAt' = startedAt /\ missed'[k] = missed[k] /\ (Behind(k)' <=> Behind(k))
            BY <2>1, <2>3 DEF Behind, L
        <3> QED
            BY <1>2, <3>1
    <2> QED
        BY <2>2, <2>3
<1>10. CASE CycleEnds
    <2>1. L' = L /\ startedAt' = startedAt /\ missed' = missed /\ ~ Behind(k) /\ ~ Behind(k)'
        BY <1>10 DEF CycleEnds, tracker, Behind, L
    <2> QED
        BY <1>2, <2>1
<1>11. CASE (\E j \in Keys : Flip(j)) \/ UNCHANGED cadenceVars
    <2>1. L' = L /\ startedAt' = startedAt /\ missed' = missed /\ (Behind(k)' <=> Behind(k))
        BY <1>11 DEF Flip, cadenceVars, tracker, loop, Behind, L
    <2> QED
        BY <1>2, <2>1
<1>12. CASE Reset \/ Restart
    <2>1. L' = Zero
        BY <1>12 DEF Reset, Restart, FreshStart, NewTracker, ZeroState, L
    <2> QED
        BY <2>1
<1> QED
    BY <1>5, <1>6, <1>7, <1>8, <1>9, <1>10, <1>11, <1>12 DEF CadenceNext

LEMMA BlindAlways == CadenceSpec => [](PaceInv /\ BlindInv)
<1>1. CadenceInit => BlindInv
    BY DEF CadenceInit, Init, NewTracker, ZeroState, BlindInv, Aligned
<1> QED
    BY <1>1, PaceInit, PaceStep, BlindStep, PTL DEF CadenceSpec

LEMMA BlindIsQuiet ==
    ASSUME PaceInv, BlindInv, [CadenceNext]_cadenceVars, MaxGap > 0, MaxCycle <= Interval,
           NEW k \in Keys, Blind(k)
    PROVE  journal'[k] = journal[k]
<1>1. CASE CycleObserves
    <2>1. PICK j \in left : j \in Keys /\ HeardOnce(j) /\ TypeInv /\ Observe(j) /\ phase = "tell"
        BY <1>1, ObservesEffect
    <2>2. \/ j # k /\ journal'[k] = journal[k]
          \/ j = k /\ ((states[k].above /\ NoGap(k)) \/ journal'[k] = journal[k])
        BY <2>1, ObservedEffect
    <2>3. SUFFICES ASSUME j = k, states[k].above, NoGap(k)
                   PROVE  FALSE
        BY <2>2
    <2> DEFINE L == states[k].lastObservedAt
               D == (missed[k] + 1) * Interval
    <2>4. Behind(k) /\ L # Zero
        BY <2>1, <2>3 DEF Behind, HeardOnce
    <2>5. startedAt - L >= D - MaxCycle
        BY <2>4 DEF BlindInv
    <2>6. D > MaxGap + MaxCycle
        BY DEF Blind
    <2>7. now - L <= MaxGap
        BY <2>3 DEF NoGap
    <2>8. /\ now \in Nat /\ startedAt \in Nat /\ startedAt <= now /\ missed[k] \in Nat
          /\ L \in Nat \cup {-1}
        BY KeyTypes
    <2>9. D \in Nat
        BY <2>8
    <2> HIDE DEF L, D
    <2> QED
        BY <2>5, <2>6, <2>7, <2>8, <2>9
<1>2. CASE UNCHANGED journal
    BY <1>2
<1> QED
    BY <1>1, <1>2 DEF CadenceNext, Pass, Tick, CycleStarts, CycleReads, CycleMisses, CycleEnds,
                      Flip, Reset, Restart, FreshStart, cadenceVars, tracker

(***************************************************************************)
(* A key that so many cycles missed that more than maxGap lies between two *)
(* observations is not signalled by the second of them.                    *)
(***************************************************************************)
THEOREM BlindnessIsQuiet == CadenceSpec => NoAlertAfterBlindness
<1>1. PaceInv /\ BlindInv /\ [CadenceNext]_cadenceVars
        => [(MaxGap > 0 /\ MaxCycle <= Interval) =>
              \A k \in Keys : Blind(k) => journal'[k] = journal[k]]_cadenceVars
    BY BlindIsQuiet
<1> QED
    BY <1>1, BlindAlways, PTL DEF CadenceSpec, NoAlertAfterBlindness
=============================================================================
