------------------------------ MODULE Tracker ------------------------------
(***************************************************************************)
(* The sustained-condition tracker (internal/notifications/sustained.go)   *)
(* and the notifier it calls (notifier.go).                                *)
(*                                                                         *)
(* Observe holds Tracker.mu from before it reads the clock until it has    *)
(* notified, and so does Reset, so each is one action.  A value matters    *)
(* only through the rule's Comparator: an observation is the Boolean it    *)
(* returns.  The clock is Go's monotonic clock.  A key whose indicator has *)
(* no rule returns at once (lines 58-61) and changes nothing, so Keys holds*)
(* the keys with a rule.  The entry the code creates on the first          *)
(* observation of a key (lines 67-70) is the zero record, so a key that is *)
(* absent from the map is represented by the zero record.                  *)
(***************************************************************************)
EXTENDS Integers, Sequences

CONSTANTS
    Keys,       \* IndicatorKeys whose indicator has a rule
    Required,   \* IndicatorRule.RequiredDuration of the rule of each key
    Cooldown,   \* Tracker.cooldown
    MaxGap,     \* Tracker.maxGap; 0 disables the gap check
    MaxTime,    \* bound of the clock
    MaxObs      \* bound of the observations of one key between two fresh starts

ASSUME RequiredAssumption == Required \in [Keys -> Nat]
ASSUME DurationsAssumption == Cooldown \in Nat /\ MaxGap \in Nat
ASSUME BoundsAssumption == MaxTime \in Nat /\ MaxObs \in Nat

VARIABLES
    now,        \* what t.now() returns
    states,     \* Tracker.states
    journal,    \* per key, what the notifier emitted: count, last instant, last duration
    history     \* verification only: the observations since the last fresh start

vars == <<now, states, journal, history>>

Zero == -1      \* the zero time.Time; IsZero() is equality with it

TrackedState == [above : BOOLEAN, firstAbove : Nat \cup {Zero}, lastExceeds : BOOLEAN,
                 lastNotifiedAt : Nat \cup {Zero}, lastObservedAt : Nat \cup {Zero}]

ZeroState == [above |-> FALSE, firstAbove |-> Zero, lastExceeds |-> FALSE,
              lastNotifiedAt |-> Zero, lastObservedAt |-> Zero]

Emission == [count : Nat, at : Nat \cup {Zero}, sustained : Nat \cup {Zero}]

Signal == INSTANCE SustainedAlert

-----------------------------------------------------------------------------
NewTracker == [k \in Keys |-> ZeroState]

Init ==
    /\ now = 0
    /\ states = NewTracker
    /\ journal = [k \in Keys |-> [count |-> 0, at |-> Zero, sustained |-> Zero]]
    /\ history = [k \in Keys |-> << >>]

(***************************************************************************)
(* Lines 72-75: a silence longer than maxGap ends the run in progress.     *)
(***************************************************************************)
AfterGapAtLeast(s) ==
    IF s.above /\ MaxGap > 0 /\ s.lastObservedAt # Zero /\ now - s.lastObservedAt >= MaxGap
    THEN [s EXCEPT !.above = FALSE, !.firstAbove = Zero]
    ELSE s

AfterGapNever(s) == s

AfterGap(s) ==
    IF s.above /\ MaxGap > 0 /\ s.lastObservedAt # Zero /\ now - s.lastObservedAt > MaxGap
    THEN [s EXCEPT !.above = FALSE, !.firstAbove = Zero]
    ELSE s

(***************************************************************************)
(* The record on entry to the comparison: the gap was checked and the      *)
(* value and the instant were noted (lines 71-76).                         *)
(***************************************************************************)
Noted(k, e) == [AfterGap(states[k]) EXCEPT !.lastExceeds = e, !.lastObservedAt = now]

(***************************************************************************)
(* Lines 95-97: the last notification of the key is still too fresh.       *)
(***************************************************************************)
CoolingDownNever(s) == FALSE

CoolingDown(s) == s.lastNotifiedAt # Zero /\ now - s.lastNotifiedAt < Cooldown

Record(k, e, d) ==
    /\ Len(history[k]) < MaxObs
    /\ history' = [history EXCEPT
                     ![k] = Append(@, [at |-> now, exceeds |-> e, sustained |-> d])]

(***************************************************************************)
(* Lines 79-83: the value does not exceed the threshold.                   *)
(***************************************************************************)
ObserveBelow(k) ==
    /\ states' = [states EXCEPT ![k] =
                    [Noted(k, FALSE) EXCEPT !.above = FALSE, !.firstAbove = Zero]]
    /\ Record(k, FALSE, Signal!NoAlert)
    /\ UNCHANGED <<now, journal>>

(***************************************************************************)
(* Lines 85-89: the first exceeding value of a run.                        *)
(***************************************************************************)
ObserveRunStart(k) ==
    LET s == Noted(k, TRUE) IN
    /\ ~ s.above
    /\ states' = [states EXCEPT ![k] = [s EXCEPT !.above = TRUE, !.firstAbove = now]]
    /\ Record(k, TRUE, Signal!NoAlert)
    /\ UNCHANGED <<now, journal>>

(***************************************************************************)
(* Lines 91-97: the run continues, too short yet or cooling down.          *)
(***************************************************************************)
ObserveQuiet(k) ==
    LET s == Noted(k, TRUE) IN
    /\ s.above
    /\ now - s.firstAbove < Required[k] \/ CoolingDown(s)
    /\ states' = [states EXCEPT ![k] = s]
    /\ Record(k, TRUE, Signal!NoAlert)
    /\ UNCHANGED <<now, journal>>

(***************************************************************************)
(* SlogNotifier.Notify: one log line and three series of the key.          *)
(***************************************************************************)
Notify(k, d) ==
    journal' = [journal EXCEPT
                  ![k] = [count |-> @.count + 1, at |-> now, sustained |-> d]]

(***************************************************************************)
(* Lines 91-109: sustained long enough and not cooling down.               *)
(***************************************************************************)
ObserveNotify(k) ==
    LET s == Noted(k, TRUE)
        sustained == now - s.firstAbove
    IN  /\ s.above
        /\ sustained >= Required[k]
        /\ ~ CoolingDown(s)
        /\ states' = [states EXCEPT ![k] = [s EXCEPT !.lastNotifiedAt = now]]
        /\ Notify(k, sustained)
        /\ Record(k, TRUE, sustained)
        /\ UNCHANGED now

Observe(k) ==
    \/ ObserveBelow(k)
    \/ ObserveRunStart(k)
    \/ ObserveQuiet(k)
    \/ ObserveNotify(k)

(***************************************************************************)
(* A fresh start: POST /experiment/reset calls Reset, and a restarted      *)
(* process builds a NewTracker.  Both forget every state, lastNotifiedAt   *)
(* included.  What the notifier emitted before stays emitted.              *)
(***************************************************************************)
FreshStart ==
    /\ states' = NewTracker
    /\ history' = [k \in Keys |-> << >>]
    /\ UNCHANGED <<now, journal>>

Tick ==
    /\ now < MaxTime
    /\ now' = now + 1
    /\ UNCHANGED <<states, journal, history>>

Next ==
    \/ Tick
    \/ \E k \in Keys : Observe(k)
    \/ FreshStart

Spec == Init /\ [][Next]_vars

-----------------------------------------------------------------------------
(***************************************************************************)
(* Type invariant: the record of every key, the notifier's output and the  *)
(* recorded observations have the types of their Go declarations           *)
(* (sustained.go:22-28), an unset instant being Zero.                      *)
(***************************************************************************)
TypeOK ==
    /\ now \in Nat
    /\ states \in [Keys -> TrackedState]
    /\ journal \in [Keys -> Emission]
    /\ history \in [Keys -> Seq(Signal!Observation)]

(***************************************************************************)
(* The observations of a key were made in the order of the clock.          *)
(***************************************************************************)
Chronological(h) ==
    /\ \A j \in 1..Len(h) : h[j].at <= now
    /\ \A i, j \in 1..Len(h) : i <= j => h[i].at <= h[j].at

(***************************************************************************)
(* above/firstAbove summarise the run that ends the history.               *)
(***************************************************************************)
RunSummarised(s, h) ==
    /\ s.above <=> (Len(h) > 0 /\ h[Len(h)].exceeds)
    /\ s.above => \E i \in 1..Len(h) : Signal!StartsRun(h, i) /\ s.firstAbove = h[i].at
    /\ ~ s.above => s.firstAbove = Zero

(***************************************************************************)
(* lastNotifiedAt summarises the alerts of the history.                    *)
(***************************************************************************)
AlertsSummarised(s, h) ==
    /\ \A j \in 1..Len(h) : Signal!Alerted(h[j]) =>
           s.lastNotifiedAt # Zero /\ h[j].at <= s.lastNotifiedAt
    /\ s.lastNotifiedAt # Zero =>
           \E j \in 1..Len(h) : Signal!Alerted(h[j]) /\ h[j].at = s.lastNotifiedAt

LastSummarised(s, h) ==
    IF Len(h) = 0
    THEN s.lastObservedAt = Zero
    ELSE s.lastObservedAt = h[Len(h)].at /\ s.lastExceeds = h[Len(h)].exceeds

(***************************************************************************)
(* The five fields the code keeps per key determine what the whole history *)
(* of observations says: the run in progress and where it started, the     *)
(* last alert, the last observation.  Dips, silences, cooldowns and resets *)
(* in any order must leave them in agreement.                              *)
(***************************************************************************)
StateSummarisesHistory ==
    \A k \in Keys :
        /\ Chronological(history[k])
        /\ RunSummarised(states[k], history[k])
        /\ AlertsSummarised(states[k], history[k])
        /\ LastSummarised(states[k], history[k])

(***************************************************************************)
(* Every step of the tracker is a step of SustainedAlert: it notifies at   *)
(* an observation exactly when the history since the last fresh start says *)
(* that one is due (Observe, sustained.go:57-110), with the duration of    *)
(* the whole run.                                                          *)
(***************************************************************************)
ImplementsSustainedAlert == Signal!Spec

(***************************************************************************)
(* The signal latency README.md:20 defines, observed minus configured      *)
(* duration, is at most one MaxGap for an alert whose preceding            *)
(* observation was neither an alert nor held back by the cooldown: a run   *)
(* is not declared late because it was looked at late.                     *)
(***************************************************************************)
LatencyBounded ==
    \A k \in Keys : \A n \in 2..Len(history[k]) :
        LET h == history[k] IN
        (/\ MaxGap > 0
         /\ Signal!Alerted(h[n])
         /\ ~ Signal!Alerted(h[n-1])
         /\ \A j \in 1..(n-2) : Signal!Alerted(h[j]) => h[n-1].at - h[j].at >= Cooldown)
        => h[n].sustained <= Required[k] + MaxGap

Spaced(k, d) ==
    journal'[k].count > journal[k].count /\ journal[k].count > 0
        => journal'[k].at - journal[k].at >= d

Least(a, b) == IF a <= b THEN a ELSE b

(***************************************************************************)
(* Across resets and restarts, two notifications of one key are never      *)
(* closer than the shorter of Cooldown and RequiredDuration: a fresh start *)
(* forgets lastNotifiedAt but also firstAbove (sustained.go:125-129).      *)
(***************************************************************************)
AlertsSpaced == [][\A k \in Keys : Spaced(k, Least(Cooldown, Required[k]))]_vars
=============================================================================
