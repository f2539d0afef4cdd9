------------------------------- MODULE Paging -------------------------------
(***************************************************************************)
(* The page arithmetic of the indicators and the consolidated endpoints    *)
(* (internal/handlers).  A query parameter is <<>> if it is absent and     *)
(* <<0>> if strconv.Atoi refuses it or it is not positive.  Go's int wraps *)
(* around; it has IntSize values here.                                     *)
(***************************************************************************)
EXTENDS Integers

CONSTANTS
    DefaultPageSize,
    MaxPageSize,
    IntSize

ASSUME PagingAssumption ==
    /\ IntSize \in Nat
    /\ MaxPageSize \in Nat \ {0}
    /\ DefaultPageSize \in 1..MaxPageSize

MaxInt == IntSize \div 2 - 1

Wrap(x) == ((x + IntSize \div 2) % IntSize) - IntSize \div 2

Least(a, b) == IF a <= b THEN a ELSE b

Positive(param) == param # <<>> /\ param[1] > 0

\* clampPagination
PageOf(q) == IF Positive(q.page) THEN q.page[1] ELSE 1

PageSizeOf(q) ==
    LET asked == IF q.pageSize # <<>> THEN q.pageSize ELSE q.limit
    IN  Least(IF Positive(asked) THEN asked[1] ELSE DefaultPageSize, MaxPageSize)

TotalPagesRoundedDown(n, size) == n \div size

TotalPages(n, size) == IF n > 0 THEN (n + size - 1) \div size ELSE 0

\* In an int of half as many bits: with IntSize = 16, of four values.
OffsetOfHalfTheWidth(page, size) ==
    LET values == IntSize \div 4
    IN  (((page - 1) * size + values \div 2) % values) - values \div 2

Offset(page, size) == Wrap((page - 1) * size)

SliceFromOffset(n, page, size) ==
    LET start == Offset(page, size)
    IN  IF start < n THEN [from |-> start, to |-> Least(start + size, n)] ELSE [from |-> 0, to |-> 0]

\* The items from one index up to, but without, another one.
Slice(n, page, size) ==
    LET start == IF Offset(page, size) < 0 THEN 0 ELSE Offset(page, size)
        end == Wrap(start + size)
    IN  IF start < n THEN [from |-> start, to |-> Least(end, n)] ELSE [from |-> 0, to |-> 0]
=============================================================================
