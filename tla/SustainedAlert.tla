--------------------------- MODULE SustainedAlert ---------------------------
(***************************************************************************)
(* What the notification tracker promises, stated over the whole history   *)
(* of observations instead of the five fields the code keeps per key.      *)
(*                                                                         *)
(* For every indicator key there is the sequence of observations made      *)
(* since the tracker last started from nothing.  An observation is the     *)
(* instant it was made, whether the value exceeded the threshold, and how  *)
(* long the condition had been sustained when it raised an alert           *)
(* (NoAlert when it raised none).  Whether an observation must raise an    *)
(* alert is decided by looking back over the history.  Module Tracker      *)
(* implements this with constant memory; TrackerProofs proves that it does *)
(* for all values of the constants.                                        *)
(***************************************************************************)
EXTENDS Integers, Sequences

CONSTANTS
    Keys,       \* indicator keys whose indicator has a rule
    Required,   \* RequiredDuration of the rule of each key
    Cooldown,   \* minimal distance of two alerts of one key
    MaxGap,     \* longest silence that does not break a run; 0 disables it
    MaxTime,    \* bound of the clock
    MaxObs      \* bound of the observations of one key between two resets

VARIABLES
    now,        \* the monotonic clock
    history     \* for each key, the observations since the last fresh start

NoAlert == -1

Observation == [at : Nat, exceeds : BOOLEAN, sustained : Nat \cup {NoAlert}]

Alerted(o) == o.sustained # NoAlert

(***************************************************************************)
(* Observations i..Len(h) form one run: each exceeds the threshold, and    *)
(* none is separated from the previous one by a silence longer than MaxGap.*)
(***************************************************************************)
Joined(h, j) == MaxGap > 0 => h[j].at - h[j-1].at <= MaxGap

Unbroken(h, i) ==
    /\ \A j \in i..Len(h) : h[j].exceeds
    /\ \A j \in (i+1)..Len(h) : Joined(h, j)

(***************************************************************************)
(* i is where the run that ends the history started.                       *)
(***************************************************************************)
StartsRun(h, i) ==
    /\ Unbroken(h, i)
    /\ i > 1 => ~ (h[i-1].exceeds /\ Joined(h, i))

(***************************************************************************)
(* The last observation of h must raise an alert: its run started at an    *)
(* earlier observation at least Required before, and every earlier alert   *)
(* is at least Cooldown old.                                               *)
(***************************************************************************)
Due(k, h) ==
    LET n == Len(h) IN
    /\ \E i \in 1..(n-1) : StartsRun(h, i) /\ h[n].at - h[i].at >= Required[k]
    /\ \A j \in 1..(n-1) : Alerted(h[j]) => h[n].at - h[j].at >= Cooldown

(***************************************************************************)
(* The last observation of h raises an alert exactly when one is due, and  *)
(* the duration it reports is that of the run.                             *)
(***************************************************************************)
Justified(k, h) ==
    LET n == Len(h) IN
    IF Due(k, h)
    THEN \E i \in 1..(n-1) : StartsRun(h, i) /\ h[n].sustained = h[n].at - h[i].at
    ELSE ~ Alerted(h[n])

-----------------------------------------------------------------------------
Init ==
    /\ now = 0
    /\ history = [k \in Keys |-> << >>]

Tick ==
    /\ now < MaxTime
    /\ now' = now + 1
    /\ UNCHANGED history

Observe(k) ==
    /\ Len(history[k]) < MaxObs
    /\ \E e \in BOOLEAN, d \in (0..now) \cup {NoAlert} :
         LET h == Append(history[k], [at |-> now, exceeds |-> e, sustained |-> d])
         IN  /\ Justified(k, h)
             /\ history' = [history EXCEPT ![k] = h]
    /\ UNCHANGED now

Forget ==
    /\ history' = [k \in Keys |-> << >>]
    /\ UNCHANGED now

Next ==
    \/ Tick
    \/ \E k \in Keys : Observe(k)
    \/ Forget

vars == <<now, history>>

Spec == Init /\ [][Next]_vars
=============================================================================
