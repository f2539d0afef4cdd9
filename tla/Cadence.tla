------------------------------ MODULE Cadence ------------------------------
(***************************************************************************)
(* The consolidator's loop (internal/consolidator/consolidator.go:43-61)   *)
(* driving the tracker, with the clock both of them read.  The loop runs a *)
(* cycle at once and then one per tick of a Go ticker.  The channel of a   *)
(* ticker holds one tick; a tick that finds it full is dropped.  A cycle   *)
(* takes time, may end without an observation (lines 83-109, 233-237), and *)
(* may miss a key whose workload is in no scrape of its window.            *)
(*                                                                         *)
(* Whether the tracker's maxGap (2 * ConsolidateInterval, cmd/main.go:108) *)
(* fits this pace is what the module is about.  The condition of a key is  *)
(* what a cycle would compute for it now; the environment changes it.      *)
(***************************************************************************)
EXTENDS Tracker

CONSTANTS
    Interval,   \* ConsolidateInterval
    MaxCycle,   \* bound of the time a cycle takes: how long PostgreSQL needs
    MaxFaults,  \* bound of the missed observations and restarts
    MaxFlips    \* bound of the changes of a condition

ASSUME IntervalAssumption == Interval \in Nat \ {0}
ASSUME MaxCycleAssumption == MaxCycle \in Nat
ASSUME CadenceBounds == MaxFaults \in Nat /\ MaxFlips \in Nat

VARIABLES
    nextTick,   \* when the ticker fires next
    ticked,     \* the channel of the ticker holds a tick
    phase,      \* of the loop: "wait", "read", "tell"
    startedAt,  \* when the current cycle started
    left,       \* keys that the cycle has to observe yet
    seen,       \* what the cycle computed: keys above the threshold
    high,       \* keys whose condition holds
    since,      \* verification only: since when the key's condition is what it is and
                \* nothing interfered
    missed,     \* verification only: cycles without the key since its last observation
    faults,
    flips

loop == <<nextTick, ticked, phase, startedAt, left, seen>>
tracker == <<states, journal, history>>
bounds == <<faults, flips>>
cadenceVars == <<now, tracker, loop, high, since, missed, bounds>>

-----------------------------------------------------------------------------
\* Start: the ticker is created, then the first cycle runs at once.
LoopStarts ==
    /\ nextTick' = now + Interval
    /\ ticked' = FALSE
    /\ phase' = "read"
    /\ startedAt' = now
    /\ left' = {}
    /\ seen' = {}

CadenceInit ==
    /\ Init
    /\ nextTick = Interval
    /\ ticked = FALSE
    /\ phase = "read"
    /\ startedAt = 0
    /\ left = {}
    /\ seen = {}
    /\ high \in SUBSET Keys
    /\ since = [k \in Keys |-> 0]
    /\ missed = [k \in Keys |-> 0]
    /\ faults = 0
    /\ flips = 0

\* The clock.  A goroutine with a tick to receive runs at once; a cycle ends in time.
PassDeliver ==
    IF now + 1 = nextTick
    THEN ticked' = TRUE /\ nextTick' = nextTick + Interval
    ELSE UNCHANGED <<ticked, nextTick>>

Pass ==
    /\ Tick
    /\ IF phase = "wait" THEN ~ ticked ELSE now < startedAt + MaxCycle
    /\ PassDeliver
    /\ UNCHANGED <<phase, startedAt, left, seen, high, since, missed, bounds>>

\* case <-ticker.C
CycleStarts ==
    /\ phase = "wait"
    /\ ticked
    /\ ticked' = FALSE
    /\ phase' = "read"
    /\ startedAt' = now
    /\ UNCHANGED <<now, tracker, nextTick, left, seen, high, since, missed, bounds>>

\* K was not observed: the tracker may have to start over with it.
Missed(K) ==
    /\ K # {} => faults < MaxFaults
    /\ faults' = faults + (IF K = {} THEN 0 ELSE 1)
    /\ missed' = [k \in Keys |-> missed[k] + (IF k \in K THEN 1 ELSE 0)]
    /\ since' = [k \in Keys |-> IF k \in K THEN now ELSE since[k]]

\* The reads and what is computed from them, for the keys that are in the window.
CycleReads ==
    /\ phase = "read"
    /\ \E K \in SUBSET Keys \ {{}} : left' = K /\ Missed(Keys \ K)
    /\ seen' = high
    /\ phase' = "tell"
    /\ UNCHANGED <<now, tracker, nextTick, ticked, startedAt, high, flips>>

\* An error, or nothing to consolidate: the cycle ends without a word to the tracker.
CycleMisses ==
    /\ phase = "read"
    /\ Missed(Keys)
    /\ phase' = "wait"
    /\ UNCHANGED <<now, tracker, nextTick, ticked, startedAt, left, seen, high, flips>>

\* tracker.Observe with the value of the key, after SaveConsolidation.
CycleObserves ==
    /\ phase = "tell"
    /\ \E k \in left :
         /\ IF k \in seen
            THEN ObserveRunStart(k) \/ ObserveQuiet(k) \/ ObserveNotify(k)
            ELSE ObserveBelow(k)
         /\ left' = left \ {k}
         /\ missed' = [missed EXCEPT ![k] = 0]
    /\ UNCHANGED <<nextTick, ticked, phase, startedAt, seen, high, since, bounds>>

\* A loop that sleeps for the interval after each cycle instead of using a ticker.
CycleEndsAndSleeps ==
    /\ phase = "tell"
    /\ left = {}
    /\ phase' = "wait"
    /\ ticked' = FALSE
    /\ nextTick' = now + Interval
    /\ UNCHANGED <<now, tracker, startedAt, left, seen, high, since, missed, bounds>>

CycleEnds ==
    /\ phase = "tell"
    /\ left = {}
    /\ phase' = "wait"
    /\ UNCHANGED <<now, tracker, nextTick, ticked, startedAt, left, seen, high, since, missed,
                   bounds>>

-----------------------------------------------------------------------------
\* The condition of a key begins or ends.
Flip(k) ==
    /\ flips < MaxFlips
    /\ flips' = flips + 1
    /\ high' = (high \ {k}) \cup ({k} \ high)
    /\ since' = [since EXCEPT ![k] = now]
    /\ UNCHANGED <<now, tracker, loop, missed, faults>>

\* The reset endpoint, at any moment of a cycle.
Reset ==
    /\ FreshStart
    /\ since' = [k \in Keys |-> now]
    /\ UNCHANGED <<loop, high, missed, bounds>>

\* The process is replaced by a new one.
Restart ==
    /\ faults < MaxFaults
    /\ faults' = faults + 1
    /\ FreshStart
    /\ LoopStarts
    /\ since' = [k \in Keys |-> now]
    /\ missed' = [k \in Keys |-> 0]
    /\ UNCHANGED <<high, flips>>

CadenceNext ==
    \/ Pass
    \/ CycleStarts
    \/ CycleReads
    \/ CycleMisses
    \/ CycleObserves
    \/ CycleEnds
    \/ \E k \in Keys : Flip(k)
    \/ Reset
    \/ Restart

CadenceSpec == CadenceInit /\ [][CadenceNext]_cadenceVars

-----------------------------------------------------------------------------
(***************************************************************************)
(* Type invariant.                                                         *)
(***************************************************************************)
CadenceTypeOK ==
    /\ TypeOK
    /\ nextTick \in Nat /\ now < nextTick /\ nextTick <= now + Interval
    /\ ticked \in BOOLEAN
    /\ phase \in {"wait", "read", "tell"}
    /\ startedAt \in 0..now
    /\ left \subseteq Keys /\ seen \subseteq Keys /\ high \subseteq Keys
    /\ since \in [Keys -> Nat] /\ missed \in [Keys -> Nat]
    /\ faults \in 0..MaxFaults /\ flips \in 0..MaxFlips

Greater(a, b) == IF a >= b THEN a ELSE b

\* Two cycles start at most this far apart, however long they take.
Stride == Greater(Interval, MaxCycle)

(***************************************************************************)
(* The tracker hears of a key again within one stride per missed cycle,    *)
(* one more, and the length of a cycle: the ticker drops ticks but never   *)
(* lets the loop fall behind (consolidator.go:46-60).                      *)
(***************************************************************************)
HeardInTime ==
    \A k \in Keys :
        states[k].lastObservedAt # Zero
            => now - states[k].lastObservedAt <= (missed[k] + 1) * Stride + MaxCycle

Steady(k, d) == k \in high /\ now - since[k] > d

(***************************************************************************)
(* A condition that holds without interference is signalled: the required  *)
(* duration and two waits of the loop after it began there has been a      *)
(* notification, and it is repeated as the cooldown allows.  This needs    *)
(* that a wait of the loop is no gap for the tracker, which is so for      *)
(* maxGap = 2 * ConsolidateInterval as long as a cycle takes no longer     *)
(* than the interval (cmd/main.go:108).                                    *)
(***************************************************************************)
SignalledInTime ==
    (MaxGap = 0 \/ Stride + MaxCycle <= MaxGap) =>
    \A k \in Keys :
        Steady(k, Required[k] + 2 * (Stride + MaxCycle))
            => /\ states[k].lastNotifiedAt # Zero
               /\ now - states[k].lastNotifiedAt <= Cooldown + Stride + MaxCycle

(***************************************************************************)
(* What maxGap is there for: the tracker does not count as sustained what  *)
(* nobody looked at.  A key that was missed by so many cycles that more    *)
(* than maxGap lies between its observations is not signalled when it is   *)
(* seen again (sustained.go:72-75).  With maxGap = 2 * ConsolidateInterval *)
(* and cycles shorter than the interval two misses are enough, with cycles *)
(* as long as the interval three.                                          *)
(***************************************************************************)
Blind(k) == missed[k] > 0 /\ (missed[k] + 1) * Interval > MaxGap + MaxCycle

NoAlertAfterBlindness ==
    [][(MaxGap > 0 /\ MaxCycle <= Interval) =>
       \A k \in Keys : Blind(k) => journal'[k] = journal[k]]_cadenceVars
=============================================================================
