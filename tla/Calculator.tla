----------------------------- MODULE Calculator -----------------------------
(***************************************************************************)
(* Calculator.Calculate (internal/metrics/calculations.go): six queries in *)
(* six goroutines, then the answers are indexed by workload, and usage     *)
(* that Prometheus reports for a pod without naming a container is divided *)
(* among the pod's containers.  The division ranges over a Go map while it *)
(* inserts into and deletes from that map: the order is arbitrary, and     *)
(* what is inserted may be visited or not.                                 *)
(*                                                                         *)
(* A caller may ask for one container.  Then the queries select it, and    *)
(* the samples without a container are not among the answers.              *)
(*                                                                         *)
(* The module follows one resource; the other one is merged in the same    *)
(* way, after it and apart from it.  Values are multiples of a unit that   *)
(* makes every division exact.                                             *)
(***************************************************************************)
EXTENDS Naturals, FiniteSets, Functions

CONSTANTS
    WorkloadKeys,   \* set of <<pod, container>>
    Usages,         \* values of a usage sample
    Requests,       \* values of a request sample
    Limits,         \* values of a limit sample
    Queries,        \* names of the queries
    Asked,          \* containers that QueryParams may name, or NoContainer
    Hidden          \* names that match the observability filter

NoContainer == ""

\* Filter.IsObservability
IsObservability(k) == k[1] \in Hidden \/ k[2] \in Hidden

Pods == {w[1] : w \in WorkloadKeys}
Containers(p) == {w \in WorkloadKeys : w[1] = p /\ ~ IsObservability(w)}

ASSUME WorkloadKeysAssumption ==
    IsFiniteSet(WorkloadKeys) /\ \A w \in WorkloadKeys : w[2] # NoContainer
ASSUME HiddenAssumption == NoContainer \notin Hidden
ASSUME ValuesAssumption == Usages \cup Requests \cup Limits \subseteq Nat

\* The unit is as fine as a share can get.
ASSUME UnitAssumption ==
    \A p \in Pods : \A C \in SUBSET Containers(p), V \in {Requests, Limits} :
        \A W \in [C -> V \ {0}], u \in Usages :
            \A c \in C : (u * W[c]) % SumFunction(W) = 0

VARIABLES
    phase,
    filter,         \* QueryParams.Container
    results,        \* per query: "running", "answered" or "failed"
    use, req, lim,  \* useMap, reqMap, limMap
    todo,           \* keys that the range may still yield
    world           \* verification only: all the samples there are, as maps

maps == <<use, req, lim>>
calculatorVars == <<phase, filter, results, maps, todo, world>>

PodTotal(p) == <<p, NoContainer>>
Keys == WorkloadKeys \cup {PodTotal(w[1]) : w \in WorkloadKeys}
Empty == [k \in {} |-> 0]

\* The zero value of a Go map for an absent key.
At(m, k) == IF k \in DOMAIN m THEN m[k] ELSE 0

CalculatorInit ==
    /\ phase = "query"
    /\ filter \in Asked
    /\ results = [q \in Queries |-> "running"]
    /\ use = Empty /\ req = Empty /\ lim = Empty
    /\ todo = {}
    /\ world = [use |-> Empty, req |-> Empty, lim |-> Empty]

-----------------------------------------------------------------------------
\* A goroutine of parallelInstant stores its result under the mutex.
QueryEnds(q) ==
    /\ phase = "query"
    /\ results[q] = "running"
    /\ \E r \in {"answered", "failed"} : results' = [results EXCEPT ![q] = r]
    /\ UNCHANGED <<phase, filter, maps, todo, world>>

\* wg.Wait
AllEnded == \A q \in Queries : results[q] # "running"
NoneFailed == \A q \in Queries : results[q] # "failed"

\* The first error in the order of the names is returned, and nothing else.
Fail ==
    /\ phase = "query"
    /\ AllEnded
    /\ ~ NoneFailed
    /\ phase' = "failed"
    /\ UNCHANGED <<filter, results, maps, todo, world>>

QueriedContainerOnlyForRequests(k) == filter = NoContainer \/ k[2] \in {filter, NoContainer}

\* The container matcher of every query.
Queried(k) == filter = NoContainer \/ k[2] = filter

\* indexByWorkload, of what a query selects.
Indexed(m) == Restrict(m, {k \in DOMAIN m : Queried(k) /\ ~ IsObservability(k)})

RangeOverRequests == todo' = DOMAIN req'

RangeOverUsage == todo' = DOMAIN use'

Index ==
    /\ phase = "query"
    /\ AllEnded
    /\ NoneFailed
    /\ \E U \in SUBSET Keys, R, L \in SUBSET WorkloadKeys :
         \E u \in [U -> Usages], r \in [R -> Requests], l \in [L -> Limits] :
            world' = [use |-> u, req |-> r, lim |-> l]
    /\ use' = Indexed(world'.use) /\ req' = Indexed(world'.req) /\ lim' = Indexed(world'.lim)
    /\ RangeOverUsage
    /\ phase' = "merge"
    /\ UNCHANGED <<filter, results>>

-----------------------------------------------------------------------------
Weighted(p, src) == {w \in DOMAIN src : w[1] = p /\ w[2] # NoContainer /\ src[w] > 0}

\* gather: the requests of the pod, or its limits if it has no request.
Weights(p) ==
    IF Weighted(p, req) # {} THEN Restrict(req, Weighted(p, req))
                             ELSE Restrict(lim, Weighted(p, lim))

Share(val, w, W) == (val * W[w]) \div SumFunction(W)

DivideToEach(k, W) ==
    [c \in (DOMAIN use \ {k}) \cup DOMAIN W |->
        At(use, c) + (IF c \in DOMAIN W THEN use[k] ELSE 0)]

\* The candidates are given their shares, the pod's own key is deleted.
Divide(k, W) ==
    [c \in (DOMAIN use \ {k}) \cup DOMAIN W |->
        At(use, c) + (IF c \in DOMAIN W THEN Share(use[k], c, W) ELSE 0)]

\* One iteration of mergeUsageProportional.
Visit(k) ==
    LET W == Weights(k[1]) IN
    /\ phase = "merge"
    /\ k \in todo
    /\ IF k[2] # NoContainer \/ DOMAIN W = {}
       THEN UNCHANGED use /\ todo' = todo \ {k}
       ELSE /\ use' = Divide(k, W)
            /\ \E S \in SUBSET (DOMAIN W \ DOMAIN use) : todo' = (todo \ {k}) \cup S
    /\ UNCHANGED <<phase, filter, results, req, lim, world>>

\* The items, one for each key of a request or of a usage, and the totals.
Answer ==
    /\ phase = "merge"
    /\ todo = {}
    /\ phase' = "done"
    /\ UNCHANGED <<filter, results, maps, todo, world>>

CalculatorNext ==
    \/ \E q \in Queries : QueryEnds(q)
    \/ Fail
    \/ Index
    \/ \E k \in Keys : Visit(k)
    \/ Answer

CalculatorSpec == CalculatorInit /\ [][CalculatorNext]_calculatorVars
-----------------------------------------------------------------------------
Items == DOMAIN req \cup DOMAIN use
UsageOf(m, p) == SumFunctionOnSet(m, {k \in DOMAIN m : k[1] = p})

(***************************************************************************)
(* Type invariant.                                                         *)
(***************************************************************************)
CalculatorTypeOK ==
    /\ phase \in {"query", "failed", "merge", "done"}
    /\ filter \in Asked
    /\ results \in [Queries -> {"running", "answered", "failed"}]
    /\ DOMAIN use \subseteq Keys /\ DOMAIN world.use \subseteq Keys
    /\ DOMAIN req \subseteq WorkloadKeys /\ DOMAIN lim \subseteq WorkloadKeys
    /\ \A k \in DOMAIN use : use[k] \in Nat
    /\ todo \subseteq DOMAIN use

(***************************************************************************)
(* At every moment of the merge a pod's usage is what Prometheus reported  *)
(* for it, neither lost nor counted twice (calculations.go:213-217:        *)
(* "Avoids the previous bug of duplicating the value to every matching     *)
(* container").                                                            *)
(***************************************************************************)
UsageConserved ==
    \A p \in Pods : UsageOf(use, p) = UsageOf(Indexed(world.use), p)

HasRequest(p) == \E w \in Containers(p) : At(world.req, w) > 0
Entitlement(w) == IF HasRequest(w[1]) THEN At(world.req, w) ELSE At(world.lim, w)
Entitled(p) == SumFunction([w \in Containers(p) |-> Entitlement(w)])

\* Own usage and the share of the pod's unattributed usage.
Attributed(w) ==
    At(world.use, w)
      + (IF Entitled(w[1]) = 0 THEN 0
         ELSE (At(world.use, PodTotal(w[1])) * Entitlement(w)) \div Entitled(w[1]))

Shown == UNION {Containers(p) : p \in Pods \ Hidden}

(***************************************************************************)
(* The result stands on the answers to all the queries, in whatever order  *)
(* they came, and does not depend on the order of the map: each container  *)
(* has its own usage and its share, in proportion to the requests of the   *)
(* pod or, if there are none, to its limits; usage stays with the pod only *)
(* if it has neither; and each container that was given usage is an item.  *)
(* Nothing that is hidden is an item, or is given a share.                 *)
(***************************************************************************)
OrderIrrelevant ==
    phase = "done" /\ filter = NoContainer =>
        /\ \A q \in Queries : results[q] = "answered"
        /\ \A w \in Shown : At(use, w) = Attributed(w)
        /\ \A p \in Pods \ Hidden :
             PodTotal(p) \in DOMAIN use
                 <=> PodTotal(p) \in DOMAIN world.use /\ Entitled(p) = 0
        /\ {w \in Shown : Attributed(w) > 0} \subseteq Items
        /\ Items \subseteq Shown \cup {PodTotal(p) : p \in Pods \ Hidden}

(***************************************************************************)
(* Whoever asks for one container (indicators.go:75, and always            *)
(* workload_details.go:131) is never told of more usage than the scraper   *)
(* stores for it, and of as much unless its pod has usage that no          *)
(* container is named for; and of nothing but that container.              *)
(***************************************************************************)
AskedIsPartOfAll ==
    phase = "done" /\ filter # NoContainer =>
        /\ \A w \in Items : w \in Shown /\ w[2] = filter
        /\ \A w \in {v \in Shown : v[2] = filter} :
             /\ At(req, w) = At(world.req, w)
             /\ At(use, w) <= Attributed(w)
             /\ At(world.use, PodTotal(w[1])) = 0 => At(use, w) = Attributed(w)
=============================================================================
