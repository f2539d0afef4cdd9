----------------------------- MODULE Indicators -----------------------------
(***************************************************************************)
(* GET /api/v1/indicators (internal/handlers/indicators.go): a calculation *)
(* and one page of its items.  The page is asked for before and matters    *)
(* only after the calculation, so it is chosen there.                      *)
(***************************************************************************)
EXTENDS Calculator, Paging

CONSTANT PageQueries    \* the parameters page, pageSize and limit of a request

Params == {<<>>} \cup {<<n>> : n \in 0..MaxInt}

ASSUME PageQueriesAssumption ==
    PageQueries \subseteq [page : Params, pageSize : Params, limit : Params]

\* An int can count the items and one page more.
ASSUME KeysAssumption == Cardinality(Keys) + MaxPageSize <= MaxInt

VARIABLE response

NoResponse == [status |-> 0]

indicatorsVars == <<calculatorVars, response>>

IndicatorsInit == CalculatorInit /\ response = NoResponse

Calculates == CalculatorNext /\ UNCHANGED response

\* What the calculation needed is garbage.
EndsWith(r) ==
    /\ response = NoResponse
    /\ response' = r
    /\ use' = Empty /\ req' = Empty /\ lim' = Empty
    /\ world' = [use |-> Empty, req |-> Empty, lim |-> Empty]
    /\ UNCHANGED <<phase, filter, results, todo>>

BadGateway == phase = "failed" /\ EndsWith([status |-> 502])

Responds(q) ==
    LET n == Cardinality(Items)
        page == PageOf(q)
        size == PageSizeOf(q)
    IN  /\ phase = "done"
        /\ EndsWith([status |-> 200, query |-> q, totalItems |-> n,
                     content |-> Slice(n, page, size),
                     hasNext |-> page < TotalPages(n, size), hasPrevious |-> page > 1])

IndicatorsNext ==
    \/ Calculates
    \/ BadGateway
    \/ \E q \in PageQueries : Responds(q)

IndicatorsSpec == IndicatorsInit /\ [][IndicatorsNext]_indicatorsVars
-----------------------------------------------------------------------------
\* The page on which the i-th item belongs.
PageOfItem(i, size) == (i + size - 1) \div size

(***************************************************************************)
(* Whatever numbers a request names, the slice stays within the items      *)
(* (indicators.go:95-108) and within a page; and unless the product        *)
(* overflows, the page shows exactly the items that belong on it, so that  *)
(* the pages share the items out, and a next page is announced if and only *)
(* if there is an item for it.                                             *)
(***************************************************************************)
PageIsRight ==
    response # NoResponse /\ response.status = 200 =>
        LET page == PageOf(response.query)
            size == PageSizeOf(response.query)
            shown == response.content
            n == response.totalItems
        IN  /\ 0 <= shown.from /\ shown.from <= shown.to /\ shown.to <= n
            /\ shown.to - shown.from <= MaxPageSize
            /\ (page - 1) * size <= MaxInt =>
                 \A i \in 1..n :
                    i \in (shown.from + 1)..shown.to <=> PageOfItem(i, size) = page
            /\ response.hasNext <=> \E i \in 1..n : PageOfItem(i, size) > page
=============================================================================
