------------------------------- MODULE Details -------------------------------
(***************************************************************************)
(* GET /api/v1/workloads/details (internal/handlers/workload_details.go).  *)
(* The answer has two parts, found in two ways: the current values, from   *)
(* a calculation whose queries select pods by a regular expression and     *)
(* whose items are filtered once more, and the history, from one statement *)
(* that selects pods with LIKE.  Meanwhile time passes, consolidations are *)
(* saved and the history may be erased.                                    *)
(*                                                                         *)
(* Namespace and container are compared for equality everywhere: the       *)
(* module follows the items and the rows of one container.  A name is a    *)
(* sequence of character codes.  A query parameter is <<>> if it is        *)
(* absent; one that does not parse is <<Bad>>.                             *)
(***************************************************************************)
EXTENDS Integers, FiniteSets, SequencesExt

CONSTANTS
    Pods,           \* names of pods
    AskedPods,      \* the parameter pod
    AskedDates,     \* the parameters [period, start, end]
    AskedLimits,    \* the parameter limit
    DefaultLimit,
    MaxLimit,
    MaxTime         \* bound of the clock

Percent == 37
Underscore == 95
Backslash == 92
Bad == -1
None == <<>>

\* A number in the query, or none.
Params == {None} \cup [1..1 -> Int]

\* Kubernetes admits letters, digits, "-" and "." in the name of a pod.
ASSUME PodsAssumption ==
    /\ IsFiniteSet(Pods) /\ Pods \subseteq Seq(Nat)
    /\ \A p \in Pods : p # None /\ {Percent, Underscore} \cap Range(p) = {}
\* A backslash escapes in LIKE what comes after it: such parameters are left out.
ASSUME AskedAssumption ==
    /\ AskedPods \subseteq Seq(Nat)
    /\ \A p \in AskedPods : Backslash \notin Range(p)
    /\ AskedDates \subseteq [period : Params, start : Params, end : Params]
    /\ AskedLimits \subseteq Params
ASSUME LimitsAssumption == MaxLimit \in Nat /\ DefaultLimit \in 1..MaxLimit
ASSUME TimeAssumption == MaxTime \in Nat

VARIABLES
    now,
    history,        \* set of [at, pod], the rows of the container
    pc,
    asked,          \* [pod, dates, limit]
    items,          \* pods of calcRes.Items
    current,        \* the pod whose values are shown, or None
    bounds,         \* startTime and endTime
    points          \* the rows that are shown

request == <<asked, items, current, bounds, points>>
vars == <<now, history, pc, request>>
-----------------------------------------------------------------------------
\* Whether a name matches a pattern: cut[j] of its characters match the first j characters of
\* the pattern.  Percent stands for any text, a character of Single for any one.
Matches(name, pattern, Single) ==
    \E cut \in [0..Len(pattern) -> 0..Len(name)] :
        /\ cut[0] = 0 /\ cut[Len(pattern)] = Len(name)
        /\ \A j \in DOMAIN pattern :
              \/ pattern[j] = Percent /\ cut[j - 1] <= cut[j]
              \/ /\ pattern[j] # Percent
                 /\ cut[j] = cut[j - 1] + 1
                 /\ pattern[j] = name[cut[j]] \/ pattern[j] \in Single

\* labelMatchers and GetLastWorkloadSnapshots both make a prefix of what has no wildcard.
PodPattern(pod) == IF Percent \in Range(pod) THEN pod ELSE Append(pod, Percent)

\* labelMatchers: regexp.QuoteMeta leaves nothing special but the wildcard.
LiveSelects(name, pod) == pod = None \/ Matches(name, PodPattern(pod), {})

LikeSelectsAsGiven(name, pod) == pod = None \/ Matches(name, pod, {Underscore})

\* w.pod LIKE $3
LikeSelects(name, pod) == pod = None \/ Matches(name, PodPattern(pod), {Underscore})

BeforeWildcard(pod) ==
    IF Percent \in Range(pod)
    THEN SubSeq(pod, 1, (CHOOSE i \in DOMAIN pod :
                            pod[i] = Percent /\ \A j \in 1..(i - 1) : pod[j] # Percent) - 1)
    ELSE pod

\* podPrefixMatch
PodPrefixMatch(actual, requested) == IsPrefix(BeforeWildcard(requested), actual)

\* The order of Go's strings, in which unionKeys sorts.
Precedes(a, b) ==
    \/ IsStrictPrefix(a, b)
    \/ \E i \in DOMAIN a \cap DOMAIN b : a[i] < b[i] /\ \A j \in 1..(i - 1) : a[j] = b[j]

Fitting(S, pod) == {p \in S : PodPrefixMatch(p, pod)}

LastOf(S, pod) ==
    IF Fitting(S, pod) = {} THEN None
    ELSE CHOOSE p \in Fitting(S, pod) : \A q \in Fitting(S, pod) : p = q \/ Precedes(q, p)

\* The loop over the items, up to its break.
FirstOf(S, pod) ==
    IF Fitting(S, pod) = {} THEN None
    ELSE CHOOSE p \in Fitting(S, pod) : \A q \in Fitting(S, pod) : p = q \/ Precedes(p, q)

-----------------------------------------------------------------------------
Malformed(d) ==
    IF d.period # None THEN d.period = <<Bad>> ELSE <<Bad>> \in {d.start, d.end}

\* ParseDateFilters: a period takes the place of the other two, and ends now.
ParseDateFilters(d) ==
    IF d.period # None THEN [start |-> <<now - d.period[1]>>, end |-> <<now>>]
    ELSE [start |-> d.start,
          end |-> IF d.start # None /\ d.end = None THEN <<now>> ELSE d.end]

InBounds(r) ==
    /\ bounds.start # None => r.at >= bounds.start[1]
    /\ bounds.end # None => r.at <= bounds.end[1]

Dated == bounds.start # None \/ bounds.end # None

Smaller(a, b) == IF a <= b THEN a ELSE b

NoLimit == 0
LimitIgnoringDates ==
    IF asked.limit # None /\ asked.limit[1] > 0 THEN Smaller(asked.limit[1], MaxLimit)
    ELSE DefaultLimit

\* The default limit is for requests without dates; what does not parse is ignored.
Limit == IF Dated /\ asked.limit = None THEN NoLimit ELSE LimitIgnoringDates

\* ORDER BY consolidated_at DESC LIMIT: of rows of the same instant, any.
NewestRows(R) ==
    IF Limit = NoLimit THEN {R}
    ELSE {S \in SUBSET R : /\ Cardinality(S) = Smaller(Limit, Cardinality(R))
                           /\ \A s \in S, r \in R \ S : s.at >= r.at}

-----------------------------------------------------------------------------
NothingAsked == [pod |-> None, dates |-> [period |-> None, start |-> None, end |-> None],
                 limit |-> None]
NoBounds == [start |-> None, end |-> None]

Init ==
    /\ now = 0 /\ history = {}
    /\ pc = "idle"
    /\ asked = NothingAsked
    /\ items = {} /\ current = None /\ bounds = NoBounds /\ points = {}

\* An answer is compared with the history that it was read from: what comes after it is of
\* no interest.
Pending == pc # "answered"

Tick ==
    /\ Pending
    /\ now < MaxTime
    /\ now' = now + 1
    /\ UNCHANGED <<history, pc, request>>

\* SaveConsolidation, of a cycle that began at some instant since the last one; the
\* container is in the pods of S.
Save ==
    /\ Pending
    /\ \E t \in 0..now, S \in SUBSET Pods :
        /\ \A r \in history : r.at < t
        /\ history' = history \cup {[at |-> t, pod |-> p] : p \in S}
    /\ UNCHANGED <<now, pc, request>>

\* TruncateData
Erase ==
    /\ Pending
    /\ history' = {}
    /\ UNCHANGED <<now, pc, request>>

Ask ==
    /\ pc \in {"idle", "answered", "rejected", "failed"}
    /\ pc' = "calculate"
    /\ asked' \in [pod : AskedPods, dates : AskedDates, limit : AskedLimits]
    /\ items' = {} /\ current' = None /\ bounds' = NoBounds /\ points' = {}
    /\ UNCHANGED <<now, history>>

\* An error is logged, and there are no current values.
CalculationFails ==
    /\ pc = "calculate"
    /\ pc' = "dates"
    /\ UNCHANGED <<now, history, request>>

Calculates ==
    /\ pc = "calculate"
    /\ items' \in SUBSET {p \in Pods : LiveSelects(p, asked.pod)}
    /\ current' = FirstOf(items', asked.pod)
    /\ pc' = "dates"
    /\ UNCHANGED <<now, history, asked, bounds, points>>

ParsesDates ==
    /\ pc = "dates"
    /\ IF Malformed(asked.dates)
       THEN pc' = "rejected" /\ UNCHANGED bounds
       ELSE pc' = "history" /\ bounds' = ParseDateFilters(asked.dates)
    /\ UNCHANGED <<now, history, asked, items, current, points>>

\* GetLastWorkloadSnapshots, one statement, and the answer.
ReadsHistory ==
    /\ pc = "history"
    /\ points' \in NewestRows({r \in history : LikeSelects(r.pod, asked.pod) /\ InBounds(r)})
    /\ pc' = "answered"
    /\ UNCHANGED <<now, history, asked, items, current, bounds>>

ReadFails ==
    /\ pc = "history"
    /\ pc' = "failed"
    /\ UNCHANGED <<now, history, request>>

Next ==
    \/ Tick
    \/ Save
    \/ Erase
    \/ Ask
    \/ CalculationFails
    \/ Calculates
    \/ ParsesDates
    \/ ReadsHistory
    \/ ReadFails

Spec == Init /\ [][Next]_vars
-----------------------------------------------------------------------------
(***************************************************************************)
(* Type invariant.                                                         *)
(***************************************************************************)
Rows == [at : 0..MaxTime, pod : Pods]

TypeOK ==
    /\ now \in 0..MaxTime /\ history \subseteq Rows
    /\ pc \in {"idle", "calculate", "dates", "history", "answered", "rejected", "failed"}
    /\ asked \in [pod : AskedPods \cup {None},
                  dates : AskedDates \cup {NothingAsked.dates}, limit : AskedLimits \cup {None}]
    /\ items \subseteq Pods /\ current \in items \cup {None}
    /\ points \subseteq history

(***************************************************************************)
(* A request that spells out a pod is answered with the values of that     *)
(* pod, although its name is taken for a prefix: the items are sorted      *)
(* (calculations.go:257-279) and the loop stops at the first match.  And   *)
(* whatever the queries select, the second filter                          *)
(* (workload_details.go:259-268) accepts.                                  *)
(***************************************************************************)
ExactPodFirst ==
    /\ asked.pod \in items => current = asked.pod
    /\ items # {} => current # None

\* The row is left out because there are enough that are not older.
CutOff(r) ==
    /\ Limit # NoLimit
    /\ Cardinality(points) = Limit
    /\ \A q \in points : r.at <= q.at

(***************************************************************************)
(* The two parts of an answer are about the same workload: the history     *)
(* has every row of the pod whose current values are shown, up to the      *)
(* dates and the limit, and no row of a pod that the live part would not   *)
(* select.  The latter not if the parameter has an underscore, for which   *)
(* LIKE takes any character.                                               *)
(***************************************************************************)
PartsAgree ==
    pc = "answered" =>
        /\ \A r \in history \ points : r.pod = current /\ InBounds(r) => CutOff(r)
        /\ Underscore \notin Range(asked.pod) =>
              \A r \in points : LiveSelects(r.pod, asked.pod)

(***************************************************************************)
(* Whoever names a period or dates, and no limit, sees the whole of it     *)
(* (workload_details_test.go:80-111); everyone else the newest rows, at    *)
(* most 1000 and, if nothing was named, at most 10.  A period is as long   *)
(* as it says and ends while the request is served.                        *)
(***************************************************************************)
NewestRowsShown ==
    pc = "answered" =>
        /\ \A r \in history \ points :
              LikeSelects(r.pod, asked.pod) /\ InBounds(r) =>
                CutOff(r) /\ ~ (Dated /\ asked.limit = None)
        /\ Cardinality(points) > MaxLimit => Dated /\ asked.limit = None
        /\ asked = [NothingAsked EXCEPT !.pod = asked.pod] => Cardinality(points) <= DefaultLimit
        /\ asked.dates.period # None =>
              \A r, q \in points : r.at - q.at <= asked.dates.period[1]
=============================================================================
