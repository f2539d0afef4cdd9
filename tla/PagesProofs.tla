---------------------------- MODULE PagesProofs ----------------------------
(***************************************************************************)
(* Proofs of the properties of Pages, for any size of the pages, any       *)
(* number of reports and any filter.                                       *)
(***************************************************************************)
EXTENDS Pages, FiniteSetTheorems, TLAPS

(***************************************************************************)
(* The number of i in a set of numbers, the greatest first.                *)
(***************************************************************************)
Number(S, i) == Cardinality({j \in S : j >= i})

\* The greatest has the number 1, and who is smaller a greater number.
LEMMA NumberFacts ==
    ASSUME NEW S \in SUBSET Nat, IsFiniteSet(S)
    PROVE  /\ Cardinality(S) \in Nat
           /\ \A i \in S : Number(S, i) \in 1..Cardinality(S)
           /\ \A i, j \in S : i < j => Number(S, j) < Number(S, i)
<1> DEFINE Up(i) == {j \in S : j >= i}
<1>1. Cardinality(S) \in Nat
    BY FS_CardinalityType
<1>2. \A i \in S : IsFiniteSet(Up(i)) /\ Cardinality(Up(i)) \in Nat
                   /\ Cardinality(Up(i)) <= Cardinality(S)
    BY FS_Subset, FS_CardinalityType
<1>3. ASSUME NEW i \in S
      PROVE  Number(S, i) \in 1..Cardinality(S)
    <2>1. i \in Up(i)
        OBVIOUS
    <2>2. Cardinality(Up(i)) # 0
        BY <1>2, <2>1, FS_EmptySet
    <2> QED
        BY <1>1, <1>2, <2>2 DEF Number
<1>4. ASSUME NEW i \in S, NEW j \in S, i < j
      PROVE  Number(S, j) < Number(S, i)
    <2>. i \in Nat /\ j \in Nat /\ \A k \in S : k \in Nat
        OBVIOUS
    <2>1. (\A k \in S : k >= j => k >= i) /\ i >= i /\ ~ (i >= j)
        BY <1>4
    <2>2. Up(j) \subseteq Up(i) /\ i \in Up(i) /\ i \notin Up(j)
        BY <2>1
    <2> DEFINE A == Up(i)
               B == Up(j)
    <2>3. /\ B \in SUBSET A /\ B # A /\ IsFiniteSet(A) /\ Cardinality(A) \in Nat
          /\ Cardinality(B) \in Nat /\ Number(S, i) = Cardinality(A) /\ Number(S, j) = Cardinality(B)
        BY <1>2, <2>2 DEF Number
    <2> HIDE DEF A, B
    <2>4. Cardinality(B) <= Cardinality(A) /\ Cardinality(B) # Cardinality(A)
        BY <2>3, FS_Subset
    <2> QED
        BY <2>3, <2>4
<1> QED
    BY <1>1, <1>3, <1>4

\* The numbers are those from 1 to the size of the set, each once.
LEMMA NumbersAreAll ==
    ASSUME NEW S \in SUBSET Nat, IsFiniteSet(S)
    PROVE  [i \in S |-> Number(S, i)] \in Bijection(S, 1..Cardinality(S))
<1> DEFINE c == Cardinality(S)
           f == [i \in S |-> Number(S, i)]
<1>1. c \in Nat /\ \A i \in S : Number(S, i) \in 1..c
    BY NumberFacts
<1>2. ASSUME NEW i \in S, NEW j \in S, i # j
      PROVE  Number(S, i) # Number(S, j)
    <2>1. i \in Nat /\ j \in Nat /\ Number(S, i) \in Nat /\ Number(S, j) \in Nat
        BY <1>1
    <2>2. i < j \/ j < i
        BY <1>2, <2>1
    <2> QED
        BY <2>1, <2>2, NumberFacts
<1>3. f \in Injection(S, 1..c)
    BY <1>1, <1>2 DEF Injection, IsInjective
<1>4. IsFiniteSet(1..c) /\ Cardinality(1..c) = c
    BY <1>1, FS_Interval
<1> HIDE DEF f
<1>5. f \in Surjection(S, 1..c)
    BY <1>3, <1>4, FS_Injection
<1> QED
    BY <1>3, <1>5 DEF Bijection, f

\* As many have a number between two bounds as there are numbers between them.
LEMMA Counted ==
    ASSUME NEW S \in SUBSET Nat, IsFiniteSet(S), NEW a \in Nat, NEW b \in Nat,
           b <= Cardinality(S)
    PROVE  /\ IsFiniteSet({i \in S : Number(S, i) \in (a + 1)..b})
           /\ Cardinality({i \in S : Number(S, i) \in (a + 1)..b}) = IF a <= b THEN b - a ELSE 0
<1> DEFINE c == Cardinality(S)
           f == [i \in S |-> Number(S, i)]
           T == {i \in S : Number(S, i) \in (a + 1)..b}
           g == [i \in T |-> Number(S, i)]
<1>1. f \in Bijection(S, 1..c) /\ c \in Nat
    BY NumbersAreAll, NumberFacts
<1>2. \A i, j \in S : Number(S, i) = Number(S, j) => i = j
    BY <1>1 DEF Bijection, Injection, IsInjective
<1>3. \A n \in 1..c : \E i \in S : Number(S, i) = n
    BY <1>1 DEF Bijection, Surjection
<1>4. g \in Bijection(T, (a + 1)..b)
    <2>1. g \in Injection(T, (a + 1)..b)
        BY <1>2 DEF Injection, IsInjective
    <2>2. ASSUME NEW n \in (a + 1)..b
          PROVE  \E i \in T : g[i] = n
        <3>1. n \in 1..c
            BY <1>1
        <3>2. PICK i \in S : Number(S, i) = n
            BY <1>3, <3>1
        <3>3. i \in T /\ g[i] = n
            BY <3>2
        <3> QED
            BY <3>3
    <2>3. g \in [T -> (a + 1)..b]
        OBVIOUS
    <2> HIDE DEF g, T
    <2>4. g \in Surjection(T, (a + 1)..b)
        BY <2>2, <2>3 DEF Surjection
    <2> QED
        BY <2>1, <2>4 DEF Bijection
<1>5. IsFiniteSet(T)
    BY FS_Subset
<1>6. Cardinality(T) = Cardinality((a + 1)..b)
    BY <1>4, <1>5, FS_Bijection DEF ExistsBijection
<1>7. Cardinality((a + 1)..b) = IF a + 1 > b THEN 0 ELSE b - (a + 1) + 1
    BY FS_Interval
<1> HIDE DEF T
<1>8. Cardinality(T) = IF a <= b THEN b - a ELSE 0
    BY <1>6, <1>7
<1> QED
    BY <1>5, <1>8 DEF T

\* Numbers only grow when nothing that is greater is taken away.
LEMMA NumbersGrow ==
    ASSUME NEW S \in SUBSET Nat, NEW T \in SUBSET Nat, IsFiniteSet(T), NEW i \in Nat,
           \A j \in S : j >= i => j \in T
    PROVE  Number(S, i) \in Nat /\ Number(T, i) \in Nat /\ Number(S, i) <= Number(T, i)
<1>1. {j \in S : j >= i} \subseteq {j \in T : j >= i} /\ {j \in T : j >= i} \subseteq T
    OBVIOUS
<1>2. IsFiniteSet({j \in T : j >= i})
    BY <1>1, FS_Subset
<1>3. /\ IsFiniteSet({j \in S : j >= i})
      /\ Cardinality({j \in S : j >= i}) <= Cardinality({j \in T : j >= i})
    BY <1>1, <1>2, FS_Subset
<1> QED
    BY <1>2, <1>3, FS_CardinalityType DEF Number

\* No more have a number between two bounds than there are numbers between them.
LEMMA CountedAtMost ==
    ASSUME NEW S \in SUBSET Nat, IsFiniteSet(S), NEW a \in Nat, NEW n \in Nat
    PROVE  /\ IsFiniteSet({i \in S : Number(S, i) \in (a + 1)..(a + n)})
           /\ Cardinality({i \in S : Number(S, i) \in (a + 1)..(a + n)}) \in 0..n
<1> DEFINE c == Cardinality(S)
           b == IF a + n <= c THEN a + n ELSE c
           T == {i \in S : Number(S, i) \in (a + 1)..(a + n)}
           U == {i \in S : Number(S, i) \in (a + 1)..b}
<1>1. c \in Nat /\ \A i \in S : Number(S, i) \in 1..c
    BY NumberFacts
<1> HIDE DEF c
<1>2. b \in Nat /\ b <= c /\ b <= a + n
    BY <1>1
<1>3. T = U
    <2>1. \A k \in 1..c : k \in (a + 1)..(a + n) <=> k \in (a + 1)..b
        BY <1>1
    <2> HIDE DEF b
    <2>2. \A i \in S : Number(S, i) \in (a + 1)..(a + n) <=> Number(S, i) \in (a + 1)..b
        BY <1>1, <2>1
    <2> QED
        BY <2>2
<1> HIDE DEF b
<1>4. IsFiniteSet(U) /\ Cardinality(U) = IF a <= b THEN b - a ELSE 0
    BY <1>1, <1>2, Counted DEF c
<1> HIDE DEF T, U
<1>5. Cardinality(T) \in 0..n
    BY <1>2, <1>3, <1>4
<1> QED
    BY <1>3, <1>4, <1>5 DEF T

\* A union is at most as large as its parts together.
LEMMA UnionAtMost ==
    ASSUME NEW S, IsFiniteSet(S), NEW T, IsFiniteSet(T)
    PROVE  /\ IsFiniteSet(S \cup T)
           /\ Cardinality(S \cup T) \in 0..(Cardinality(S) + Cardinality(T))
           /\ S \cap T = {} => Cardinality(S \cup T) = Cardinality(S) + Cardinality(T)
<1>1. /\ IsFiniteSet(S \cup T) /\ IsFiniteSet(S \cap T)
      /\ Cardinality(S \cup T) = Cardinality(S) + Cardinality(T) - Cardinality(S \cap T)
    BY FS_Union, FS_Intersection
<1>2. /\ Cardinality(S) \in Nat /\ Cardinality(T) \in Nat /\ Cardinality(S \cup T) \in Nat
      /\ Cardinality(S \cap T) \in Nat /\ (S \cap T = {} => Cardinality(S \cap T) = 0)
    BY <1>1, FS_CardinalityType, FS_EmptySet
<1> DEFINE s == Cardinality(S)
           t == Cardinality(T)
           u == Cardinality(S \cup T)
           n == Cardinality(S \cap T)
<1> SUFFICES /\ u \in 0..(s + t)
             /\ S \cap T = {} => u = s + t
    BY <1>1
<1>3. /\ s \in Nat /\ t \in Nat /\ u \in Nat /\ n \in Nat /\ u = s + t - n
      /\ S \cap T = {} => n = 0
    BY <1>1, <1>2
<1> HIDE DEF s, t, u, n
<1> QED
    BY <1>3

\* What X adds to the numbers of W, it pushes over an edge at most once each.
LEMMA Pushed ==
    ASSUME NEW N \in SUBSET Nat, IsFiniteSet(N),
           NEW M \in SUBSET Nat, IsFiniteSet(M),
           NEW X \in SUBSET Nat, IsFiniteSet(X),
           NEW W \in SUBSET N, NEW d \in Nat,
           \A i \in W : \A j \in M : j >= i => j \in N \cup X,
           NEW V \in SUBSET N, \A i \in W : Number(N, i) > d => i \in V,
           NEW VM, \A i \in VM : i \in W /\ Number(M, i) > d
    PROVE  Cardinality(VM) <= Cardinality(V) + Cardinality(X)
<1> DEFINE x == Cardinality(X)
           a == IF x <= d THEN d - x ELSE 0
           B == {i \in N : Number(N, i) \in (a + 1)..(a + x)}
<1>1. x \in Nat
    BY FS_CardinalityType
<1>2. ASSUME NEW i \in W, Number(M, i) > d
      PROVE  i \in V \/ i \in B
    <2> DEFINE UN == {j \in N : j >= i}
               UM == {j \in M : j >= i}
    <2>1. i \in Nat /\ i \in N
        OBVIOUS
    <2>2. IsFiniteSet(UN) /\ IsFiniteSet(UM)
        BY FS_Subset
    <2>3. UM \subseteq UN \cup X
        OBVIOUS
    <2> HIDE DEF UN, UM
    <2>4. IsFiniteSet(UN \cup X) /\ Cardinality(UN \cup X) <= Cardinality(UN) + x
        <3>1. IsFiniteSet(UN \cup X) /\ Cardinality(UN \cup X) \in 0..(Cardinality(UN) + x)
            BY <2>2, UnionAtMost
        <3>2. Cardinality(UN) \in Nat
            BY <2>2, FS_CardinalityType
        <3> HIDE DEF x
        <3> QED
            BY <3>1, <3>2, <1>1
    <2>5. Cardinality(UM) <= Cardinality(UN \cup X)
        BY <2>3, <2>4, FS_Subset
    <2>6. /\ Cardinality(UM) \in Nat /\ Cardinality(UN) \in Nat /\ Cardinality(UN \cup X) \in Nat
          /\ Cardinality(UM) = Number(M, i) /\ Cardinality(UN) = Number(N, i)
        BY <2>2, <2>4, FS_CardinalityType DEF Number, UN, UM
    <2>7. Number(N, i) \in Nat /\ Number(N, i) >= 1 /\ Number(M, i) \in Nat
        BY <2>1, <2>6, NumberFacts
    <2>8. Number(M, i) <= Number(N, i) + x
        <3> DEFINE p == Cardinality(UM)
                   q == Cardinality(UN)
                   r == Cardinality(UN \cup X)
        <3>1. p \in Nat /\ q \in Nat /\ r \in Nat /\ p <= r /\ r <= q + x
              /\ p = Number(M, i) /\ q = Number(N, i)
            BY <2>4, <2>5, <2>6
        <3> HIDE DEF p, q, r, x
        <3> QED
            BY <3>1, <1>1
    <2>9. Number(N, i) > d \/ Number(N, i) \in (a + 1)..(a + x)
        <3> DEFINE p == Number(M, i)
                   q == Number(N, i)
        <3>1. p \in Nat /\ q \in Nat /\ q >= 1 /\ p <= q + x /\ p > d
            BY <2>7, <2>8, <1>2
        <3> HIDE DEF p, q, x
        <3>2. q > d \/ q \in (a + 1)..(a + x)
            BY <3>1, <1>1
        <3> QED
            BY <3>2 DEF p, q
    <2> QED
        BY <2>1, <2>9
<1>3. VM \subseteq V \cup B
    BY <1>2
<1>4. a \in Nat
    BY <1>1
<1> HIDE DEF a
<1>5. IsFiniteSet(B) /\ Cardinality(B) \in 0..x
    BY <1>1, <1>4, CountedAtMost
<1>6. IsFiniteSet(V)
    BY FS_Subset
<1> HIDE DEF B
<1>7. IsFiniteSet(V \cup B) /\ Cardinality(V \cup B) <= Cardinality(V) + Cardinality(B)
    BY <1>5, <1>6, UnionAtMost, FS_CardinalityType
<1>8. IsFiniteSet(VM) /\ Cardinality(VM) <= Cardinality(V \cup B)
    BY <1>3, <1>7, FS_Subset
<1>9. /\ Cardinality(VM) \in Nat /\ Cardinality(V) \in Nat /\ Cardinality(B) \in Nat
      /\ Cardinality(V \cup B) \in Nat
    BY <1>5, <1>6, <1>7, <1>8, FS_CardinalityType
<1> DEFINE vm == Cardinality(VM)
           v == Cardinality(V)
           u == Cardinality(V \cup B)
           k == Cardinality(B)
<1>10. vm \in Nat /\ v \in Nat /\ u \in Nat /\ k \in Nat /\ vm <= u /\ u <= v + k /\ k <= x
    BY <1>5, <1>7, <1>8, <1>9
<1> HIDE DEF vm, v, u, k, x
<1>11. vm <= v + x
    BY <1>1, <1>10
<1> QED
    BY <1>11 DEF vm, v, x

-----------------------------------------------------------------------------
(***************************************************************************)
(* The inductive invariant.                                                *)
(***************************************************************************)
Ids == IdsOf(reports)
Admitted == IdsOf(InRange)

\* An identity that is still open is greater than all that are saved.
StoreInv ==
    /\ usedIds \in [snapshots : Nat, reports : 0..MaxIds]
    /\ openIds \in [snapshots : SUBSET Nat, reports : SUBSET Nat]
    /\ reports \subseteq [id : 1..MaxIds, items : SUBSET Workloads]
    /\ IsFiniteSet(reports)
    /\ reports \subseteq saved
    /\ \A r \in reports : r.id <= usedIds.reports
    /\ \A r, q \in reports : r.id = q.id => r = q
    /\ openIds.reports \subseteq {usedIds.reports}
    /\ \A i \in openIds.reports : i \in 1..MaxIds /\ \A r \in reports : r.id < i

\* What a handler holds at each of its places.
RequestInv ==
    /\ PagesTypeOK
    /\ moving \in BOOLEAN
    /\ ~ moving => since = 1
    /\ pc # "items" => rows = {}
    /\ pc \in {"idle", "select"} => content = {}
    /\ IsFiniteSet(content)

\* Rows that are gone were erased.
RowsInv ==
    /\ RowsWhole
    /\ erased \/ rows \subseteq Ids

\* How many pages the walk has selected, or skipped, and whether the next offset overflows.
Selections == IF pc \in {"items", "answered"} THEN page ELSE page - 1
Overflows == (page - 1) * PageSize > MaxInt

\* What the walk has shown is there, and in front of the end of the filter.
ShownInv ==
    /\ ~ erased => \A i \in 1..MaxIds : seen[i] > 0 => i \in Ids /\ i <= until
    /\ Overflows /\ pc \in {"count", "select"} => \A i \in 1..MaxIds : seen[i] = 0

\* What the walk has shown and saves have pushed behind its place.
Behind == {i \in Admitted : seen[i] > 0 /\ Number(Admitted, i) > Selections * PageSize}

\* What the next page of a moving walk will admit.
Coming == IF moving THEN {i \in Ids : i > until} ELSE {}

\* Every repetition, past or still to come, is due to a save of its own.
RepeatsInv ==
    /\ IsFiniteSet(Repeats)
    /\ ~ erased =>
          IF Overflows
          THEN Repeats = {}
          ELSE Cardinality(Repeats) + Cardinality(Behind) + Cardinality(Coming) <= saves

\* What the walk has not shown yet is behind its place.
MissesInv ==
    /\ at # {} => ~ Overflows
    /\ ~ erased => \A i \in at :
          i >= since /\ seen[i] = 0 => i \in Admitted /\ Number(Admitted, i) > Selections * PageSize
    /\ pc \in {"select", "items", "answered"} /\ ~ erased => total + late = Cardinality(Admitted)

\* Of what was counted, this is left to the page and those after it.
Rest(n) == IF n > (page - 1) * PageSize THEN n - (page - 1) * PageSize ELSE 0

\* A page is filled from what was counted, and from what was saved since.
Shown == rows \cup IdsOf(content)

FillInv ==
    pc = "items" /\ ~ erased /\ ~ Overflows =>
        Cardinality(Shown) \in Least(PageSize, Rest(total))..Least(PageSize, Rest(total + late))

PagesInv ==
    /\ StoreInv
    /\ RequestInv
    /\ RowsInv
    /\ ShownInv
    /\ RepeatsInv
    /\ MissesInv
    /\ FillInv
    /\ WalkWithoutHoles

\* What the filter admits is a finite set of numbers, one for each report.
LEMMA StoreFacts ==
    ASSUME StoreInv
    PROVE  /\ Ids \subseteq 1..MaxIds /\ IsFiniteSet(Ids)
           /\ Admitted = {i \in Ids : i \in since..until}
           /\ Admitted \in SUBSET Nat /\ IsFiniteSet(Admitted)
           /\ Cardinality(InRange) = Cardinality(Admitted) /\ Cardinality(Admitted) \in 0..MaxIds
<1>1. Ids \subseteq 1..MaxIds
    BY DEF StoreInv, Ids, IdsOf
<1>2. IsFiniteSet(1..MaxIds) /\ Cardinality(1..MaxIds) = MaxIds /\ MaxIds \in Nat
    BY FS_Interval, MaxIdsAssumption
<1>3. IsFiniteSet(Ids)
    BY <1>1, <1>2, FS_Subset
<1>4. Admitted = {i \in Ids : i \in since..until}
    BY DEF Admitted, Ids, IdsOf, InRange
<1>5. Admitted \subseteq Ids /\ Admitted \subseteq 1..MaxIds /\ Admitted \in SUBSET Nat
    <2>1. \A i \in Admitted : i \in Ids
        BY <1>4
    <2>2. \A i \in Admitted : i \in 1..MaxIds
        BY <1>1, <2>1
    <2>3. \A i \in 1..MaxIds : i \in Nat
        BY <1>2
    <2> QED
        BY <2>1, <2>2, <2>3
<1>6. IsFiniteSet(Admitted) /\ Cardinality(Admitted) <= MaxIds
    BY <1>2, <1>5, FS_Subset
<1>7. Cardinality(Admitted) \in Nat
    BY <1>6, FS_CardinalityType
<1>8. IsFiniteSet(InRange)
    BY FS_Subset DEF StoreInv, InRange
<1> DEFINE f == [r \in InRange |-> r.id]
<1>9. f \in Bijection(InRange, Admitted)
    <2>1. f \in [InRange -> Admitted]
        BY DEF Admitted, IdsOf
    <2>2. \A r, q \in InRange : f[r] = f[q] => r = q
        BY DEF StoreInv, InRange
    <2>3. \A i \in Admitted : \E r \in InRange : f[r] = i
        BY DEF Admitted, IdsOf
    <2> HIDE DEF f
    <2> QED
        BY <2>1, <2>2, <2>3 DEF Bijection, Injection, Surjection, IsInjective
<1>10. Cardinality(InRange) = Cardinality(Admitted)
    BY <1>8, <1>9, FS_Bijection DEF ExistsBijection
<1> QED
    BY <1>1, <1>2, <1>3, <1>4, <1>5, <1>6, <1>7, <1>10

(***************************************************************************)
(* The environment changes nothing that the request sees, erases           *)
(* everything, or saves one report that is newer than all others.          *)
(***************************************************************************)
NothingNew == reports' = reports /\ saves' = saves /\ late' = late /\ erased' = erased

Saved(x, m) ==
    /\ \A r \in reports : r.id < x
    /\ reports' = reports \cup {[id |-> x, items |-> m]}
    /\ saves' = saves + (IF moving \/ x <= until THEN 1 ELSE 0)
    /\ late' = late + (IF x \in since..until THEN 1 ELSE 0)
    /\ erased' = erased

AllErased == reports' = {} /\ reports # {} /\ erased' = TRUE /\ saves' = saves /\ late' = late

LEMMA EnvironmentSteps ==
    ASSUME PagesInv, Environment
    PROVE  /\ StoreInv'
           /\ NothingNew \/ AllErased \/ \E x \in 1..MaxIds, m \in SUBSET Workloads : Saved(x, m)
<1> DEFINE new == reports' \ reports
           counted == {r \in new : moving \/ r.id <= until}
           inRange == {r \in new : r.id \in since..until}
<1>1. /\ StoreInv
      /\ erased \in BOOLEAN /\ saves \in Nat /\ late \in Nat
    BY DEF PagesInv, RequestInv, PagesTypeOK
<1>2. /\ saves' = saves + Cardinality(counted)
      /\ late' = late + Cardinality(inRange)
      /\ erased' = (erased \/ (reports # {} /\ reports' = {}))
      /\ saved' = saved \cup reports'
    BY DEF Environment
<1>3. reports' \subseteq reports => saves' = saves /\ late' = late
    <2> SUFFICES ASSUME reports' \subseteq reports
                 PROVE  saves' = saves /\ late' = late
        OBVIOUS
    <2>1. counted = {} /\ inRange = {}
        OBVIOUS
    <2> HIDE DEF counted, inRange
    <2> QED
        BY <1>1, <1>2, <2>1, FS_EmptySet
<1>4. reports' = reports => NothingNew
    BY <1>1, <1>2, <1>3 DEF NothingNew
<1>5. MaxIds \in Nat
    BY MaxIdsAssumption
<1>6. CASE openIds.reports = {} /\ usedIds.reports < MaxIds /\ TakeReportId
    <2>1. /\ reports' = reports
          /\ usedIds' = [usedIds EXCEPT !.reports = @ + 1]
          /\ openIds' = [openIds EXCEPT !.reports = {usedIds.reports + 1}]
        BY <1>6 DEF TakeReportId
    <2>2. /\ usedIds' \in [snapshots : Nat, reports : 0..MaxIds]
          /\ usedIds'.reports = usedIds.reports + 1 /\ usedIds.reports \in Nat
          /\ usedIds.reports + 1 \in 1..MaxIds
          /\ openIds' \in [snapshots : SUBSET Nat, reports : SUBSET Nat]
          /\ openIds'.reports = {usedIds.reports + 1}
        BY <1>1, <1>5, <1>6, <2>1 DEF StoreInv
    <2>3. \A r \in reports : r.id <= usedIds.reports /\ r.id \in Nat
        BY <1>1 DEF StoreInv
    <2>4. StoreInv'
        BY <1>1, <1>2, <2>1, <2>2, <2>3 DEF StoreInv
    <2> QED
        BY <1>4, <2>1, <2>4
<1>7. CASE GiveUp
    <2>1. /\ reports' = reports /\ usedIds' = usedIds
          /\ openIds' \in [snapshots : SUBSET openIds.snapshots, reports : SUBSET openIds.reports]
        BY <1>7 DEF GiveUp
    <2>2. /\ openIds' \in [snapshots : SUBSET Nat, reports : SUBSET Nat]
          /\ openIds'.reports \subseteq openIds.reports
        BY <1>1, <2>1 DEF StoreInv
    <2>3. StoreInv'
        BY <1>1, <1>2, <2>1, <2>2 DEF StoreInv
    <2> QED
        BY <1>4, <2>1, <2>3
<1>8. CASE AddReport
    <2>1. PICK x \in openIds.reports, m \in SUBSET Workloads :
              /\ reports' = reports \cup {[id |-> x, items |-> m]}
              /\ openIds' = [openIds EXCEPT !.reports = @ \ {x}]
              /\ usedIds' = usedIds
        BY <1>8 DEF AddReport
    <2> DEFINE r == [id |-> x, items |-> m]
    <2>2. /\ x \in 1..MaxIds /\ \A q \in reports : q.id < x /\ q.id \in Nat
          /\ x = usedIds.reports
        BY <1>1 DEF StoreInv
    <2>3. r \notin reports
        BY <2>2
    <2>4. new = {r}
        BY <2>1, <2>3
    <2>5. /\ openIds' \in [snapshots : SUBSET Nat, reports : SUBSET Nat]
          /\ openIds'.reports = {}
        BY <1>1, <2>1, <2>2 DEF StoreInv
    <2>6. r \in [id : 1..MaxIds, items : SUBSET Workloads] /\ r.id = x
        BY <2>2
    <2> HIDE DEF r
    <2>7. StoreInv'
        <3>1. IsFiniteSet(reports')
            BY <1>1, <2>1, FS_AddElement DEF StoreInv
        <3>2. reports' = reports \cup {r} /\ reports' \subseteq saved'
            BY <1>2, <2>1 DEF r
        <3>3. \A q \in reports' : q.id <= usedIds'.reports
            BY <2>1, <2>2, <2>6, <3>2
        <3>4. \A p, q \in reports' : p.id = q.id => p = q
            BY <1>1, <2>2, <2>6, <3>2 DEF StoreInv
        <3> QED
            BY <1>1, <2>1, <2>5, <2>6, <3>1, <3>2, <3>3, <3>4 DEF StoreInv
    <2>8. Cardinality(counted) = IF moving \/ x <= until THEN 1 ELSE 0
        <3>1. counted = IF moving \/ x <= until THEN {r} ELSE {}
            BY <2>4, <2>6
        <3> QED
            BY <3>1, FS_Singleton, FS_EmptySet
    <2>9. Cardinality(inRange) = IF x \in since..until THEN 1 ELSE 0
        <3>1. inRange = IF x \in since..until THEN {r} ELSE {}
            BY <2>4, <2>6
        <3> QED
            BY <3>1, FS_Singleton, FS_EmptySet
    <2>10. reports' # {}
        BY <2>1
    <2>11. Saved(x, m)
        BY <1>1, <1>2, <2>1, <2>2, <2>8, <2>9, <2>10 DEF Saved
    <2> QED
        BY <2>2, <2>7, <2>11
<1>9. CASE Erase
    <2>1. reports' = {} /\ usedIds' = usedIds /\ openIds' = openIds
        BY <1>9 DEF Erase
    <2>2. StoreInv'
        BY <1>1, <2>1, FS_EmptySet DEF StoreInv
    <2>3. reports = {} => NothingNew
        BY <1>4, <2>1
    <2>4. reports # {} => AllErased
        BY <1>2, <1>3, <2>1 DEF AllErased
    <2> QED
        BY <2>2, <2>3, <2>4
<1> QED
    BY <1>6, <1>7, <1>8, <1>9 DEF Environment

-----------------------------------------------------------------------------
(***************************************************************************)
(* The arithmetic of the pages.                                            *)
(***************************************************************************)
LEMMA Quotient ==
    ASSUME NEW a \in Nat, NEW b \in Nat \ {0}
    PROVE  a \div b \in Nat /\ b * (a \div b) <= a /\ a < b * (a \div b) + b
OBVIOUS

\* What is smaller than the modulus is its own remainder.
LEMMA Remainder ==
    ASSUME NEW a \in Nat, NEW b \in Nat, a < b
    PROVE  a % b = a
OBVIOUS

\* Multiplication is monotonic: what the solver needs of it.
LEMMA Products ==
    ASSUME NEW a \in Nat, NEW b \in Nat, NEW c \in Nat
    PROVE  /\ a * c \in Nat /\ a * c = c * a /\ (a + 1) * c = a * c + c
           /\ a <= b => a * c <= b * c
OBVIOUS

\* What the assumptions say of the sizes, in one place.
LEMMA SizeFacts ==
    /\ PageSize \in Nat \ {0} /\ MaxIds \in Nat /\ MaxInt \in Nat /\ MaxIds <= MaxInt
    /\ MaxInt = IntSize \div 2 - 1 /\ IntSize \div 2 \in Nat /\ IntSize \in Nat
    /\ 2 * (IntSize \div 2) <= IntSize
<1>1. IntSize \in Nat /\ IntSize \div 2 \in Nat /\ 2 * (IntSize \div 2) <= IntSize
    BY PagingAssumption
<1>2. MaxInt = IntSize \div 2 - 1
    BY DEF MaxInt
<1> QED
    BY <1>1, <1>2, PagingAssumption, PageSizeAssumption, MaxIdsAssumption

\* There is a next page exactly if the total goes beyond this one.
LEMMA NextPageExists ==
    ASSUME NEW n \in Nat, NEW p \in Nat \ {0}
    PROVE  p < TotalPages(n, PageSize) <=> p * PageSize < n
<1> DEFINE b == PageSize
           q == (n + b - 1) \div b
<1>1. b \in Nat \ {0} /\ n + b - 1 \in Nat
    BY SizeFacts
<1>2. q \in Nat /\ b * q <= n + b - 1 /\ n + b - 1 < b * q + b
    <2> DEFINE a == n + b - 1
    <2> HIDE DEF a, b
    <2>1. a \div b \in Nat /\ b * (a \div b) <= a /\ a < b * (a \div b) + b
        BY <1>1, Quotient DEF a
    <2> QED
        BY <2>1 DEF a
<1>3. p * b \in Nat
    BY <1>1, Products
<1>4. TotalPages(n, PageSize) = IF n > 0 THEN q ELSE 0
    BY DEF TotalPages
<1> HIDE DEF b, q
<1>5. ASSUME p < q
      PROVE  p * b < n
    <2>1. (p + 1) * b <= q * b /\ (p + 1) * b = p * b + b /\ q * b = b * q /\ q * b \in Nat
        BY <1>1, <1>2, <1>5, Products
    <2> DEFINE x == p * b
               y == b * q
    <2>2. x \in Nat /\ y \in Nat /\ x + b <= y /\ y <= n + b - 1
        BY <1>2, <1>3, <2>1
    <2> HIDE DEF x, y
    <2>3. x < n
        BY <1>1, <2>2
    <2> QED
        BY <2>3 DEF x
<1>6. ASSUME q <= p
      PROVE  n <= p * b
    <2>1. q * b <= p * b /\ q * b = b * q /\ q * b \in Nat
        BY <1>1, <1>2, <1>6, Products
    <2> DEFINE x == p * b
               y == b * q
    <2>2. x \in Nat /\ y \in Nat /\ y <= x /\ n + b - 1 < y + b
        BY <1>2, <1>3, <2>1
    <2> HIDE DEF x, y
    <2>3. n <= x
        BY <1>1, <2>2
    <2> QED
        BY <2>3 DEF x
<1> DEFINE x == p * b
<1>7. x \in Nat /\ (p < q => x < n) /\ (q <= p => n <= x)
    BY <1>3, <1>5, <1>6
<1> HIDE DEF x
<1>8. p < TotalPages(n, PageSize) <=> x < n
    BY <1>2, <1>4, <1>7
<1> QED
    BY <1>8 DEF x, b

\* An offset that an int can hold is what it should be.
LEMMA OffsetFits ==
    ASSUME NEW p \in Nat \ {0}, (p - 1) * PageSize <= MaxInt
    PROVE  /\ (p - 1) * PageSize \in Nat
           /\ Offset(p, PageSize) = (p - 1) * PageSize
           /\ p * PageSize = (p - 1) * PageSize + PageSize
<1> DEFINE x == (p - 1) * PageSize
           h == IntSize \div 2
<1>1. x \in Nat /\ p * PageSize = x + PageSize
    <2>1. p - 1 \in Nat /\ (p - 1) + 1 = p /\ PageSize \in Nat
        BY SizeFacts
    <2> QED
        BY <2>1, Products
<1>2. x <= MaxInt /\ h \in Nat /\ MaxInt = h - 1 /\ 2 * h <= IntSize /\ IntSize \in Nat
    BY SizeFacts
<1>3. Offset(p, PageSize) = ((x + h) % IntSize) - h
    BY DEF Offset, Wrap
<1> HIDE DEF x, h
<1>4. x + h \in Nat /\ x + h < IntSize
    BY <1>1, <1>2
<1>5. (x + h) % IntSize = x + h
    BY <1>2, <1>4, Remainder
<1>6. Offset(p, PageSize) = x
    BY <1>1, <1>2, <1>3, <1>5
<1> QED
    BY <1>1, <1>6 DEF x

\* Whatever the offset, a page is no longer than its size.
LEMMA SelectedFacts ==
    ASSUME StoreInv, NEW offset \in Nat
    PROVE  /\ Selected(offset, PageSize) =
                 {i \in Admitted : Number(Admitted, i) \in (offset + 1)..(offset + PageSize)}
           /\ IsFiniteSet(Selected(offset, PageSize))
           /\ Cardinality(Selected(offset, PageSize)) \in 0..PageSize
<1>1. Selected(offset, PageSize) =
          {i \in Admitted : Number(Admitted, i) \in (offset + 1)..(offset + PageSize)}
    BY DEF Selected, RowNumber, Number, Admitted
<1>2. Admitted \in SUBSET Nat /\ IsFiniteSet(Admitted) /\ PageSize \in Nat
    BY StoreFacts, SizeFacts
<1> QED
    BY <1>1, <1>2, CountedAtMost

-----------------------------------------------------------------------------
\* The filter and the reports determine what is admitted.
LEMMA SameAdmitted ==
    ASSUME reports' = reports, filter' = filter
    PROVE  Ids' = Ids /\ Admitted' = Admitted
BY DEF Ids, Admitted, InRange, IdsOf, filter

\* A saved report is the newest, and admitted if it is in the period.
LEMMA AdmittedAfterSave ==
    ASSUME StoreInv, filter' = filter, NEW x \in 1..MaxIds, NEW m, Saved(x, m)
    PROVE  /\ Ids' = Ids \cup {x}
           /\ \A i \in Ids : i < x
           /\ x \notin Ids
           /\ Admitted' = IF x \in since..until THEN Admitted \cup {x} ELSE Admitted
<1>1. since' = since /\ until' = until
    BY DEF filter
<1>2. reports' = reports \cup {[id |-> x, items |-> m]} /\ \A r \in reports : r.id < x
    BY DEF Saved
<1>3. Ids' = Ids \cup {x}
    <2> DEFINE n == [id |-> x, items |-> m]
    <2>1. n.id = x /\ reports' = reports \cup {n}
        BY <1>2
    <2> HIDE DEF n
    <2>2. \A i : i \in Ids' <=> i \in Ids \/ i = x
        BY <2>1 DEF Ids, IdsOf
    <2> QED
        BY <2>2
<1>4. \A i \in Ids : i < x
    BY <1>2 DEF Ids, IdsOf
<1>5. x \notin Ids
    BY <1>4, StoreFacts, SizeFacts
<1>6. Admitted = {i \in Ids : i \in since..until} /\ Admitted' = {i \in Ids' : i \in since..until}
    BY <1>1 DEF Admitted, Ids, IdsOf, InRange
<1> QED
    BY <1>3, <1>4, <1>5, <1>6

\* The environment leaves the request alone.
LEMMA EnvironmentFrame ==
    ASSUME Environment
    PROVE  /\ UNCHANGED <<request, at, seen, pc, page, total, rows, content, moving, since, until>>
           /\ filter' = filter
BY DEF Environment, request, filter

\* The request leaves the store alone.
LEMMA StoreSteps ==
    ASSUME PagesInv, [PagesNext]_pagesVars
    PROVE  StoreInv'
<1>1. CASE Environment
    BY <1>1, EnvironmentSteps
<1>2. ASSUME UNCHANGED <<vars, saved>>
      PROVE  StoreInv'
    BY <1>2 DEF PagesInv, StoreInv, vars
<1>3. CASE FirstPage \/ AnyPage \/ NextPage \/ Count \/ Select \/ LoadItems \/ Answer \/ Stop
    BY <1>2, <1>3 DEF FirstPage, AnyPage, Asks, NextPage, Count, Select, LoadItems, Answer, Stop, ghosts
<1>4. CASE UNCHANGED pagesVars
    BY <1>2, <1>4 DEF pagesVars, ghosts
<1> QED
    BY <1>1, <1>3, <1>4 DEF PagesNext

\* What a request can name as the ends of its filter.
LEMMA FilterSteps ==
    ASSUME StoreInv, since \in 1..(MaxIds + 1), until \in 0..MaxIds
    PROVE  /\ FilterIsEnd => moving' = FALSE /\ since' = 1 /\ until' \in 0..MaxIds
           /\ \A first \in 1..(MaxIds + 1), last \in 0..MaxIds : PeriodAfter(first, last) =>
                 /\ moving' = TRUE /\ since' \in first..(MaxIds + 1) /\ until' \in last..MaxIds
                 /\ until' >= usedIds.reports
<1>1. usedIds.reports \in 0..MaxIds /\ MaxIds \in Nat
    BY SizeFacts DEF StoreInv
<1>2. FilterIsEnd => moving' = FALSE /\ since' = 1 /\ until' \in 0..MaxIds
    BY <1>1 DEF FilterIsEnd
<1>3. ASSUME NEW first \in 1..(MaxIds + 1), NEW last \in 0..MaxIds, PeriodAfter(first, last)
      PROVE  /\ moving' = TRUE /\ since' \in first..(MaxIds + 1) /\ until' \in last..MaxIds
             /\ until' >= usedIds.reports
    <2>1. /\ moving' = TRUE /\ since' \in first..(usedIds.reports + 1) /\ until' >= last
          /\ until' = usedIds.reports \/ (until' = usedIds.reports + 1 /\ usedIds.reports < MaxIds)
        BY <1>3 DEF PeriodAfter, NextMayHaveBegun
    <2> QED
        BY <1>1, <2>1
<1> QED
    BY <1>2, <1>3

LEMMA RequestSteps ==
    ASSUME PagesInv, [PagesNext]_pagesVars
    PROVE  RequestInv'
<1>1. /\ StoreInv /\ RequestInv /\ MaxIds \in Nat /\ PageSize \in Nat \ {0}
    BY SizeFacts DEF PagesInv
<1>2. /\ pc \in {"idle", "count", "select", "items", "answered"}
      /\ since \in 1..(MaxIds + 1) /\ until \in 0..MaxIds /\ page \in Nat \ {0}
      /\ total \in 0..MaxIds /\ rows \subseteq 1..MaxIds
      /\ content \subseteq [id : 1..MaxIds, items : SUBSET Workloads]
      /\ Cardinality(rows) + Cardinality(content) <= PageSize
      /\ seen \in [1..MaxIds -> Nat] /\ saves \in Nat /\ late \in 0..saves
      /\ at \subseteq 1..MaxIds /\ erased \in BOOLEAN
      /\ moving \in BOOLEAN /\ (~ moving => since = 1)
      /\ (pc # "items" => rows = {}) /\ (pc \in {"idle", "select"} => content = {})
      /\ IsFiniteSet(content)
    BY <1>1 DEF RequestInv, PagesTypeOK
<1>3. CASE Environment
    <2>1. UNCHANGED <<at, seen, pc, page, total, rows, content, moving, since, until>>
        BY <1>3, EnvironmentFrame
    <2>2. saves' \in Nat /\ late' \in 0..saves' /\ erased' \in BOOLEAN
        <3>1. CASE NothingNew
            BY <1>2, <3>1 DEF NothingNew
        <3>2. CASE AllErased
            BY <1>2, <3>2 DEF AllErased
        <3>3. ASSUME NEW x \in 1..MaxIds, NEW m \in SUBSET Workloads, Saved(x, m)
              PROVE  saves' \in Nat /\ late' \in 0..saves' /\ erased' \in BOOLEAN
            BY <1>2, <3>3 DEF Saved
        <3> QED
            BY <1>3, <3>1, <3>2, <3>3, EnvironmentSteps
    <2> QED
        BY <1>2, <2>1, <2>2 DEF RequestInv, PagesTypeOK
<1>4. ASSUME Asks
      PROVE  /\ pc' = "count" /\ rows' = rows /\ content' = content /\ total' = total /\ pc = "idle"
             /\ since' \in 1..(MaxIds + 1) /\ until' \in 0..MaxIds
             /\ moving' \in BOOLEAN /\ (~ moving' => since' = 1)
             /\ seen' \in [1..MaxIds -> Nat] /\ saves' = 0 /\ late' = 0 /\ erased' = FALSE
    <2>1. /\ FilterIsEnd \/ PeriodAfter(1, 0)
          /\ pc' = "count" /\ rows' = rows /\ content' = content /\ total' = total /\ pc = "idle"
          /\ seen' \in [1..MaxIds -> Nat] /\ saves' = 0 /\ late' = 0 /\ erased' = FALSE
        BY <1>4 DEF Asks
    <2>2. 1 \in 1..(MaxIds + 1) /\ 0 \in 0..MaxIds
        BY <1>1
    <2>3. /\ since' \in 1..(MaxIds + 1) /\ until' \in 0..MaxIds
          /\ moving' \in BOOLEAN /\ (~ moving' => since' = 1)
        BY <1>1, <1>2, <2>1, <2>2, FilterSteps
    <2> QED
        BY <2>1, <2>3
<1>5. CASE FirstPage
    <2>1. page' = 1 /\ at' \subseteq Ids
        BY <1>5 DEF FirstPage, Ids, IdsOf
    <2>2. at' \subseteq 1..MaxIds /\ page' \in Nat \ {0}
        BY <1>1, <2>1, StoreFacts
    <2>3. Asks
        BY <1>5 DEF FirstPage
    <2>4. saves' \in Nat /\ late' \in 0..saves' /\ erased' \in BOOLEAN
        BY <1>4, <2>3
    <2> QED
        BY <1>2, <1>4, <2>2, <2>3, <2>4 DEF RequestInv, PagesTypeOK
<1>6. CASE AnyPage
    <2>1. page' \in Nat \ {0} /\ at' \subseteq 1..MaxIds
        BY <1>6, SizeFacts DEF AnyPage
    <2>2. Asks
        BY <1>6 DEF AnyPage
    <2>3. saves' \in Nat /\ late' \in 0..saves' /\ erased' \in BOOLEAN
        BY <1>4, <2>2
    <2> QED
        BY <1>2, <1>4, <2>1, <2>2, <2>3 DEF RequestInv, PagesTypeOK
<1>7. CASE NextPage
    <2>1. /\ pc = "answered" /\ pc' = "count" /\ page' = page + 1
          /\ UNCHANGED <<total, rows, content, at, seen, saves, late, erased>>
          /\ IF moving THEN PeriodAfter(since, until) ELSE UNCHANGED <<moving, since, until>>
        BY <1>7 DEF NextPage, ghosts, filter
    <2>2. /\ moving' = moving /\ since' \in since..(MaxIds + 1) /\ until' \in until..MaxIds
          /\ ~ moving => since' = since
        <3>1. CASE moving
            BY <1>1, <1>2, <2>1, <3>1, FilterSteps
        <3>2. CASE ~ moving
            BY <1>1, <1>2, <2>1, <3>2
        <3> QED
            BY <3>1, <3>2
    <2>3. since' \in 1..(MaxIds + 1) /\ until' \in 0..MaxIds
        BY <1>2, <2>2
    <2> QED
        BY <1>2, <2>1, <2>2, <2>3 DEF RequestInv, PagesTypeOK
<1>8. CASE Count
    <2>1. /\ pc' = "select" /\ content' = {} /\ late' = 0 /\ total' = Cardinality(InRange) /\ pc = "count"
          /\ UNCHANGED <<moving, since, until, page, rows, at, seen, saves, erased>>
        BY <1>8 DEF Count, filter
    <2>2. total' \in 0..MaxIds
        BY <1>1, <2>1, StoreFacts
    <2>3. rows' = {} /\ Cardinality({}) = 0 /\ IsFiniteSet({})
        BY <1>2, <2>1, FS_EmptySet
    <2> QED
        BY <1>1, <1>2, <2>1, <2>2, <2>3 DEF RequestInv, PagesTypeOK
<1>9. CASE Select
    <2>1. /\ pc' = "items" /\ pc = "select"
          /\ UNCHANGED <<moving, since, until, page, total, content, at, saves, late, erased>>
          /\ rows' = Selected(Offset(page, PageSize), PageSize) /\ Offset(page, PageSize) >= 0
          /\ seen' = [i \in 1..MaxIds |-> seen[i] + (IF i \in rows' THEN 1 ELSE 0)]
        BY <1>9 DEF Select, filter
    <2>2. Offset(page, PageSize) \in Nat
        <3>1. (page - 1) * PageSize \in Int /\ IntSize \div 2 \in Int
            <4>1. page - 1 \in Nat /\ PageSize \in Nat
                BY <1>1, <1>2
            <4> QED
                BY <4>1, Products, SizeFacts
        <3> DEFINE x == (page - 1) * PageSize
                   h == IntSize \div 2
        <3>2. Offset(page, PageSize) = ((x + h) % IntSize) - h
            BY DEF Offset, Wrap
        <3>3. IntSize \in Nat \ {0}
            BY SizeFacts
        <3> HIDE DEF x, h
        <3>4. (x + h) % IntSize \in Int
            BY <3>1, <3>3 DEF x, h
        <3> QED
            BY <2>1, <3>1, <3>2, <3>4 DEF h
    <2>3. /\ rows' \subseteq Admitted /\ Cardinality(rows') \in 0..PageSize
        BY <1>1, <2>1, <2>2, SelectedFacts
    <2>4. rows' \subseteq 1..MaxIds
        BY <1>1, <2>3, StoreFacts
    <2>5. content' = {} /\ Cardinality({}) = 0 /\ IsFiniteSet({})
        BY <1>2, <2>1, FS_EmptySet
    <2>6. seen' \in [1..MaxIds -> Nat]
        BY <1>2, <2>1
    <2>7. Cardinality(rows') + Cardinality(content') <= PageSize
        BY <1>1, <2>3, <2>5
    <2> QED
        BY <1>2, <2>1, <2>4, <2>5, <2>6, <2>7 DEF RequestInv, PagesTypeOK
<1>10. CASE LoadItems
    <2>1. PICK i \in rows : /\ content' = content \cup {[id |-> i, items |-> ItemsOf(i)]}
                            /\ rows' = rows \ {i}
        BY <1>10 DEF LoadItems
    <2>2. /\ pc = "items"
          /\ UNCHANGED <<moving, since, until, pc, page, total, at, seen, saves, late, erased>>
        BY <1>10 DEF LoadItems, ghosts, filter
    <2>3. ItemsOf(i) \in SUBSET Workloads
        BY <1>1 DEF ItemsOf, StoreInv
    <2>4. /\ content' \subseteq [id : 1..MaxIds, items : SUBSET Workloads] /\ rows' \subseteq 1..MaxIds
        BY <1>2, <2>1, <2>3
    <2>5. Cardinality(rows') + Cardinality(content') <= PageSize /\ IsFiniteSet(content')
        <3>1. IsFiniteSet(rows) /\ i \in rows
            <4>1. IsFiniteSet(1..MaxIds) /\ rows \subseteq 1..MaxIds
                BY <1>1, <1>2, FS_Interval
            <4> QED
                BY <4>1, FS_Subset
        <3> DEFINE c == [id |-> i, items |-> ItemsOf(i)]
        <3>2. content' = content \cup {c} /\ rows' = rows \ {i}
            BY <2>1
        <3> HIDE DEF c
        <3>3. Cardinality(rows \ {i}) = Cardinality(rows) - 1 /\ Cardinality(rows) \in Nat
            BY <3>1, FS_RemoveElement, FS_CardinalityType
        <3>4. /\ IsFiniteSet(content \cup {c}) /\ Cardinality(content) \in Nat
              /\ Cardinality(content \cup {c}) \in {Cardinality(content), Cardinality(content) + 1}
            BY <1>2, FS_AddElement, FS_CardinalityType
        <3> QED
            BY <1>1, <1>2, <3>2, <3>3, <3>4
    <2> QED
        BY <1>2, <2>1, <2>2, <2>4, <2>5 DEF RequestInv, PagesTypeOK
<1>11. CASE Answer
    <2>1. /\ pc' = "answered" /\ rows' = {} /\ pc = "items"
          /\ UNCHANGED <<moving, since, until, page, total, content, at, seen, saves, late, erased>>
        BY <1>11 DEF Answer, ghosts, filter
    <2>2. Cardinality(rows') + Cardinality(content') <= PageSize
        <3>1. IsFiniteSet(1..MaxIds) /\ rows \subseteq 1..MaxIds
            BY <1>1, <1>2, FS_Interval
        <3>2. Cardinality(rows) \in Nat /\ Cardinality(content) \in Nat /\ Cardinality({}) = 0
            BY <1>2, <3>1, FS_Subset, FS_CardinalityType, FS_EmptySet
        <3> QED
            BY <1>1, <1>2, <2>1, <3>2
    <2> QED
        BY <1>2, <2>1, <2>2 DEF RequestInv, PagesTypeOK
<1>12. CASE Stop
    <2>1. /\ pc' = "idle" /\ moving' = FALSE /\ since' = 1 /\ until' = 0 /\ page' = 1 /\ total' = 0
          /\ rows' = {} /\ content' = {} /\ at' = {} /\ seen' = [i \in 1..MaxIds |-> 0]
          /\ saves' = 0 /\ late' = 0 /\ erased' = FALSE
        BY <1>12 DEF Stop
    <2>2. Cardinality(rows') + Cardinality(content') <= PageSize /\ IsFiniteSet(content')
        BY <1>1, <2>1, FS_EmptySet
    <2>3. since' \in 1..(MaxIds + 1) /\ until' \in 0..MaxIds /\ page' \in Nat \ {0} /\ total' \in 0..MaxIds
        BY <1>1, <2>1
    <2>4. seen' \in [1..MaxIds -> Nat] /\ saves' \in Nat /\ late' \in 0..saves'
        BY <1>1, <2>1
    <2> QED
        BY <2>1, <2>2, <2>3, <2>4 DEF RequestInv, PagesTypeOK
<1>13. CASE UNCHANGED pagesVars
    BY <1>2, <1>13 DEF RequestInv, PagesTypeOK, pagesVars, request, filter, ghosts
<1> QED
    BY <1>3, <1>5, <1>6, <1>7, <1>8, <1>9, <1>10, <1>11, <1>12, <1>13 DEF PagesNext

LEMMA RowsSteps ==
    ASSUME PagesInv, [PagesNext]_pagesVars
    PROVE  RowsInv'
<1>1. /\ StoreInv /\ RowsWhole /\ (erased \/ rows \subseteq Ids) /\ erased \in BOOLEAN
      /\ (pc # "items" => rows = {}) /\ (pc \in {"idle", "select"} => content = {})
    BY DEF PagesInv, RequestInv, PagesTypeOK, RowsInv
<1>2. ASSUME UNCHANGED <<vars, saved, rows, content, erased>>
      PROVE  RowsInv'
    BY <1>1, <1>2 DEF RowsInv, RowsWhole, Ids, IdsOf, vars
<1>3. CASE Environment
    <2>1. rows' = rows /\ content' = content
        BY <1>3, EnvironmentFrame
    <2>2. saved \subseteq saved'
        BY <1>3 DEF Environment
    <2>3. CASE NothingNew
        BY <1>1, <2>1, <2>2, <2>3 DEF NothingNew, RowsInv, RowsWhole, Ids, IdsOf
    <2>4. CASE AllErased
        BY <1>1, <2>1, <2>2, <2>4 DEF AllErased, RowsInv, RowsWhole
    <2>5. ASSUME NEW x \in 1..MaxIds, NEW m \in SUBSET Workloads, Saved(x, m)
          PROVE  RowsInv'
        <3>1. Ids \subseteq Ids'
            BY <1>1, <1>3, <2>5, AdmittedAfterSave, EnvironmentFrame
        <3> QED
            BY <1>1, <2>1, <2>2, <2>5, <3>1 DEF Saved, RowsInv, RowsWhole
    <2> QED
        BY <1>3, <2>3, <2>4, <2>5, EnvironmentSteps
<1>4. CASE FirstPage \/ AnyPage
    BY <1>1, <1>4 DEF FirstPage, AnyPage, Asks, RowsInv, RowsWhole
<1>5. CASE NextPage
    BY <1>2, <1>5 DEF NextPage, ghosts
<1>6. CASE Count
    BY <1>1, <1>6 DEF Count, RowsInv, RowsWhole
<1>7. CASE Select
    <2>1. /\ rows' = Selected(Offset(page, PageSize), PageSize) /\ content' = {}
          /\ UNCHANGED <<reports, erased, saved>>
        BY <1>1, <1>7 DEF Select, vars
    <2>2. rows' \subseteq Ids'
        BY <2>1 DEF Selected, InRange, IdsOf, Ids
    <2> QED
        BY <2>1, <2>2 DEF RowsInv, RowsWhole
<1>8. CASE LoadItems
    <2>1. PICK i \in rows : /\ content' = content \cup {[id |-> i, items |-> ItemsOf(i)]}
                            /\ rows' = rows \ {i}
        BY <1>8 DEF LoadItems
    <2>2. UNCHANGED <<reports, saved, erased>>
        BY <1>8 DEF LoadItems, ghosts, vars
    <2> DEFINE c == [id |-> i, items |-> ItemsOf(i)]
    <2>3. c \in saved \/ (erased /\ c.items = {})
        <3>1. CASE i \in Ids
            <4>1. PICK r \in reports : r.id = i
                BY <3>1 DEF Ids, IdsOf
            <4>2. ItemsOf(i) = r.items
                <5>1. {q \in reports : q.id = i} = {r}
                    BY <1>1, <4>1 DEF StoreInv
                <5> QED
                    BY <5>1 DEF ItemsOf
            <4>3. r \in [id : 1..MaxIds, items : SUBSET Workloads] /\ r \in saved
                BY <1>1 DEF StoreInv
            <4>4. c = r
                BY <4>1, <4>2, <4>3
            <4> QED
                BY <4>3, <4>4
        <3>2. CASE i \notin Ids
            <4>1. {q \in reports : q.id = i} = {}
                BY <3>2 DEF Ids, IdsOf
            <4>2. c.items = {}
                BY <4>1 DEF ItemsOf
            <4> QED
                BY <1>1, <3>2, <4>2
        <3> QED
            BY <3>1, <3>2
    <2>4. content' = content \cup {c}
        BY <2>1
    <2> HIDE DEF c
    <2>5. RowsWhole'
        BY <1>1, <2>2, <2>3, <2>4 DEF RowsWhole
    <2>6. (erased \/ rows \subseteq Ids)'
        BY <1>1, <2>1, <2>2 DEF Ids, IdsOf
    <2> QED
        BY <2>5, <2>6 DEF RowsInv
<1>9. CASE Answer \/ Stop
    <2>1. rows' = {} /\ saved' = saved /\ (content' = {} \/ UNCHANGED <<content, erased>>)
        BY <1>9 DEF Answer, Stop, ghosts
    <2> QED
        BY <1>1, <2>1 DEF RowsInv, RowsWhole
<1>10. CASE UNCHANGED pagesVars
    BY <1>2, <1>10 DEF pagesVars, request, ghosts
<1> QED
    BY <1>3, <1>4, <1>5, <1>6, <1>7, <1>8, <1>9, <1>10 DEF PagesNext

\* The next page is one that exists, so its offset fits; the filter only moves forward.
LEMMA NextPageFacts ==
    ASSUME PagesInv, NextPage
    PROVE  /\ page * PageSize < total
           /\ ~ Overflows /\ ~ Overflows'
           /\ Selections = page /\ Selections' = page
           /\ Ids' = Ids /\ moving' = moving
           /\ since' \in since..(MaxIds + 1) /\ until' \in until..MaxIds
           /\ ~ moving => since' = since /\ until' = until
           /\ moving => until' >= usedIds.reports
           /\ pc' = "count"
<1>1. /\ pc = "answered" /\ page < TotalPages(total, PageSize) /\ pc' = "count" /\ page' = page + 1
      /\ IF moving THEN PeriodAfter(since, until) ELSE UNCHANGED <<moving, since, until>>
      /\ UNCHANGED <<reports, usedIds>>
    BY DEF NextPage, HasNext, filter, vars
<1>2. /\ StoreInv /\ page \in Nat \ {0} /\ total \in 0..MaxIds /\ moving \in BOOLEAN
      /\ since \in 1..(MaxIds + 1) /\ until \in 0..MaxIds
    BY DEF PagesInv, RequestInv, PagesTypeOK
<1>3. PageSize \in Nat \ {0} /\ MaxIds \in Nat /\ MaxInt \in Nat /\ MaxIds <= MaxInt
    BY SizeFacts
<1>4. page * PageSize < total
    BY <1>1, <1>2, <1>3, NextPageExists
<1>5. ~ Overflows /\ ~ Overflows'
    <2>1. /\ (page - 1) * PageSize \in Nat /\ page * PageSize = (page - 1) * PageSize + PageSize
        <3>1. page - 1 \in Nat /\ (page - 1) + 1 = page
            BY <1>2
        <3> QED
            BY <1>3, <3>1, Products
    <2> DEFINE x == (page - 1) * PageSize
               y == page * PageSize
    <2>2. x \in Nat /\ y = x + PageSize /\ y < total
        BY <1>4, <2>1
    <2>3. page' - 1 = page
        BY <1>1, <1>2
    <2>4. (Overflows <=> x > MaxInt) /\ (Overflows' <=> y > MaxInt)
        BY <2>3 DEF Overflows
    <2> HIDE DEF x, y
    <2> QED
        BY <1>2, <1>3, <2>2, <2>4
<1>6. Selections = page /\ Selections' = page
    BY <1>1, <1>2 DEF Selections
<1>7. Ids' = Ids
    BY <1>1 DEF Ids, IdsOf
<1>8. CASE moving
    BY <1>1, <1>2, <1>4, <1>5, <1>6, <1>7, <1>8, FilterSteps
<1>9. CASE ~ moving
    BY <1>1, <1>2, <1>3, <1>4, <1>5, <1>6, <1>7, <1>9
<1> QED
    BY <1>8, <1>9

\* What the SELECT shows.
LEMMA SelectFacts ==
    ASSUME PagesInv, Select
    PROVE  /\ rows' \subseteq Admitted
           /\ Ids' = Ids /\ Admitted' = Admitted
           /\ seen' \in [1..MaxIds -> Nat]
           /\ \A i \in 1..MaxIds : seen'[i] = IF i \in rows' THEN seen[i] + 1 ELSE seen[i]
           /\ pc = "select" /\ pc' = "items" /\ content' = {}
           /\ UNCHANGED <<page, total, at, saves, late, erased, moving, since, until>>
           /\ Selections = page - 1 /\ Selections' = page
           /\ ~ Overflows =>
                 /\ (page - 1) * PageSize \in Nat
                 /\ page * PageSize = (page - 1) * PageSize + PageSize
                 /\ rows' = {i \in Admitted :
                       Number(Admitted, i) \in ((page - 1) * PageSize + 1)..(page * PageSize)}
<1>1. /\ pc = "select" /\ pc' = "items"
      /\ rows' = Selected(Offset(page, PageSize), PageSize)
      /\ seen' = [i \in 1..MaxIds |-> seen[i] + (IF i \in rows' THEN 1 ELSE 0)]
      /\ UNCHANGED <<reports, filter, content, page, total, at, saves, late, erased, moving, since, until>>
    BY DEF Select, filter, vars
<1>2. /\ StoreInv /\ page \in Nat \ {0} /\ seen \in [1..MaxIds -> Nat] /\ content = {}
    BY <1>1 DEF PagesInv, RequestInv, PagesTypeOK
<1>3. rows' \subseteq Admitted
    BY <1>1 DEF Selected, Admitted
<1>4. Ids' = Ids /\ Admitted' = Admitted
    BY <1>1, SameAdmitted
<1>5. /\ seen' \in [1..MaxIds -> Nat]
      /\ \A i \in 1..MaxIds : seen'[i] = IF i \in rows' THEN seen[i] + 1 ELSE seen[i]
    BY <1>1, <1>2
<1>6. Selections = page - 1 /\ Selections' = page
    BY <1>1 DEF Selections
<1>7. ASSUME ~ Overflows
      PROVE  /\ (page - 1) * PageSize \in Nat
             /\ page * PageSize = (page - 1) * PageSize + PageSize
             /\ rows' = {i \in Admitted :
                   Number(Admitted, i) \in ((page - 1) * PageSize + 1)..(page * PageSize)}
    <2>1. (page - 1) * PageSize \in Nat /\ (page - 1) * PageSize <= MaxInt
        <3>1. (page - 1) * PageSize \in Nat
            BY <1>2, SizeFacts, Products
        <3> DEFINE x == (page - 1) * PageSize
        <3>2. x \in Nat /\ ~ (x > MaxInt) /\ MaxInt \in Nat
            BY <1>7, <3>1, SizeFacts DEF Overflows
        <3> HIDE DEF x
        <3>3. x <= MaxInt
            BY <3>2
        <3> QED
            BY <3>1, <3>3 DEF x
    <2>2. /\ Offset(page, PageSize) = (page - 1) * PageSize
          /\ page * PageSize = (page - 1) * PageSize + PageSize
        BY <1>2, <2>1, OffsetFits
    <2>3. rows' = {i \in Admitted :
             Number(Admitted, i) \in ((page - 1) * PageSize + 1)..((page - 1) * PageSize + PageSize)}
        BY <1>1, <1>2, <2>1, <2>2, SelectedFacts
    <2> QED
        BY <2>1, <2>2, <2>3
<1> QED
    BY <1>1, <1>2, <1>3, <1>4, <1>5, <1>6, <1>7

LEMMA ShownSteps ==
    ASSUME PagesInv, [PagesNext]_pagesVars
    PROVE  ShownInv'
<1>1. /\ StoreInv /\ ShownInv /\ erased \in BOOLEAN /\ MaxIds \in Nat /\ until \in 0..MaxIds
      /\ seen \in [1..MaxIds -> Nat] /\ page \in Nat \ {0}
    BY SizeFacts DEF PagesInv, RequestInv, PagesTypeOK
<1>2. ASSUME UNCHANGED <<erased, reports, seen, until, page>>, pc' = pc \/ (pc = "count" /\ pc' = "select")
                \/ pc' \notin {"count", "select"}
      PROVE  ShownInv'
    BY <1>1, <1>2 DEF ShownInv, Ids, IdsOf, Overflows
<1>3. CASE Environment
    <2>1. UNCHANGED <<seen, until, page, pc>> /\ filter' = filter
        BY <1>3, EnvironmentFrame
    <2>2. CASE NothingNew
        BY <1>2, <2>1, <2>2 DEF NothingNew
    <2>3. CASE AllErased
        BY <1>1, <2>1, <2>3 DEF AllErased, ShownInv, Overflows
    <2>4. ASSUME NEW x \in 1..MaxIds, NEW m \in SUBSET Workloads, Saved(x, m)
          PROVE  ShownInv'
        <3>1. Ids \subseteq Ids' /\ erased' = erased
            BY <1>1, <2>1, <2>4, AdmittedAfterSave DEF Saved
        <3> QED
            BY <1>1, <2>1, <3>1 DEF ShownInv, Overflows
    <2> QED
        BY <1>3, <2>2, <2>3, <2>4, EnvironmentSteps
<1>4. CASE FirstPage \/ AnyPage \/ Stop
    <2>1. seen' = [i \in 1..MaxIds |-> 0]
        BY <1>4 DEF FirstPage, AnyPage, Asks, Stop
    <2>2. \A i \in 1..MaxIds : seen'[i] = 0
        BY <2>1
    <2> QED
        BY <2>2 DEF ShownInv
<1>5. CASE NextPage
    <2>1. /\ ~ Overflows' /\ Ids' = Ids /\ until' \in until..MaxIds /\ UNCHANGED <<seen, erased>>
        BY <1>5, NextPageFacts DEF NextPage, ghosts
    <2>2. \A i \in 1..MaxIds : i <= until => i <= until'
        BY <1>1, <2>1
    <2> QED
        BY <1>1, <2>1, <2>2 DEF ShownInv
<1>6. CASE Count \/ LoadItems \/ Answer
    BY <1>2, <1>6 DEF Count, LoadItems, Answer, vars, filter, ghosts
<1>7. CASE Select
    <2>1. /\ rows' \subseteq Admitted /\ Ids' = Ids /\ UNCHANGED <<until, erased>> /\ pc' = "items"
          /\ \A i \in 1..MaxIds : seen'[i] = IF i \in rows' THEN seen[i] + 1 ELSE seen[i]
        BY <1>7, SelectFacts
    <2>2. \A i \in Admitted : i \in Ids /\ i <= until
        BY <1>1, StoreFacts
    <2> QED
        BY <1>1, <2>1, <2>2 DEF ShownInv
<1>8. CASE UNCHANGED pagesVars
    BY <1>2, <1>8 DEF pagesVars, vars, request, filter, ghosts
<1> QED
    BY <1>3, <1>4, <1>5, <1>6, <1>7, <1>8 DEF PagesNext

\* The sets that RepeatsInv counts are finite.
LEMMA BoundFacts ==
    ASSUME StoreInv
    PROVE  /\ Behind \subseteq Admitted /\ IsFiniteSet(Behind) /\ Cardinality(Behind) \in Nat
           /\ Coming \in SUBSET Nat /\ IsFiniteSet(Coming) /\ Cardinality(Coming) \in Nat
<1>1. Behind \subseteq Admitted /\ Coming \subseteq Ids
    BY DEF Behind, Coming
<1>2. IsFiniteSet(Admitted) /\ IsFiniteSet(Ids) /\ Ids \subseteq 1..MaxIds
    BY StoreFacts
<1>3. \A i \in 1..MaxIds : i \in Nat
    BY SizeFacts
<1>4. Coming \in SUBSET Nat
    BY <1>1, <1>2, <1>3
<1> QED
    BY <1>1, <1>2, <1>4, FS_Subset, FS_CardinalityType

LEMMA SelectionsFacts ==
    ASSUME page \in Nat \ {0}
    PROVE  Selections \in Nat /\ Selections * PageSize \in Nat
<1>1. Selections \in Nat
    BY DEF Selections
<1> QED
    BY <1>1, SizeFacts, Products

\* Nothing is repeated when nothing is shown.
LEMMA NothingShown ==
    ASSUME seen' = [i \in 1..MaxIds |-> 0]
    PROVE  /\ Repeats' = {} /\ IsFiniteSet(Repeats')
           /\ StoreInv' => Behind' = {}
<1>1. \A i \in 1..MaxIds : seen'[i] = 0
    OBVIOUS
<1>2. Repeats' = {}
    BY <1>1 DEF Repeats
<1>3. StoreInv' => \A i \in Admitted' : i \in 1..MaxIds
    <2> SUFFICES ASSUME StoreInv' PROVE \A i \in Admitted' : i \in 1..MaxIds
        OBVIOUS
    <2> QED
        BY DEF StoreInv, Admitted, InRange, IdsOf
<1>4. StoreInv' => Behind' = {}
    BY <1>1, <1>3 DEF Behind
<1> QED
    BY <1>2, <1>4, FS_EmptySet

\* What a page repeats was behind it before, and is no longer.
LEMMA RepeatsSelect ==
    ASSUME PagesInv, Select
    PROVE  RepeatsInv'
<1>1. /\ StoreInv /\ RepeatsInv /\ ShownInv /\ erased \in BOOLEAN /\ page \in Nat \ {0}
      /\ seen \in [1..MaxIds -> Nat] /\ saves \in Nat
    BY DEF PagesInv, RequestInv, PagesTypeOK
<1>2. /\ rows' \subseteq Admitted /\ Ids' = Ids /\ Admitted' = Admitted
      /\ \A i \in 1..MaxIds : seen'[i] = IF i \in rows' THEN seen[i] + 1 ELSE seen[i]
      /\ pc = "select"
      /\ UNCHANGED <<page, saves, erased, moving, since, until>>
      /\ Selections = page - 1 /\ Selections' = page
      /\ seen' \in [1..MaxIds -> Nat]
    BY SelectFacts
<1>3. \A i \in Admitted : i \in 1..MaxIds
    BY <1>1, StoreFacts
<1>4. (Overflows' <=> Overflows) /\ Coming' = Coming
    BY <1>2 DEF Overflows, Coming
<1> DEFINE Again == {i \in rows' : seen[i] > 0}
           New == {<<i, seen[i] + 1>> : i \in Again}
<1>5. IsFiniteSet(Again)
    <2>1. Again \subseteq Admitted
        BY <1>2
    <2> QED
        BY <1>1, <2>1, StoreFacts, FS_Subset
<1>6. IsFiniteSet(New) /\ Cardinality(New) <= Cardinality(Again)
    <2> DEFINE f == [i \in Again |-> <<i, seen[i] + 1>>]
    <2>1. f \in Surjection(Again, New)
        BY DEF Surjection
    <2> HIDE DEF f
    <2> QED
        BY <1>5, <2>1, FS_Surjection
<1>7. Repeats' \subseteq Repeats \cup New
    <2> SUFFICES ASSUME NEW i \in 1..MaxIds, NEW k \in 2..seen'[i]
                 PROVE  <<i, k>> \in Repeats \cup New
        BY DEF Repeats
    <2>1. seen[i] \in Nat /\ seen'[i] \in Nat /\ k \in Nat /\ k >= 2 /\ k <= seen'[i]
        BY <1>1, <1>2
    <2>2. CASE k <= seen[i]
        <3>1. k \in 2..seen[i]
            BY <2>1, <2>2
        <3> QED
            BY <3>1 DEF Repeats
    <2>3. CASE ~ (k <= seen[i])
        <3>1. i \in rows' /\ k = seen[i] + 1 /\ seen[i] > 0
            BY <1>2, <2>1, <2>3
        <3> QED
            BY <3>1
    <2> QED
        BY <2>2, <2>3
<1>8. IsFiniteSet(Repeats)
    BY <1>1 DEF RepeatsInv
<1> HIDE DEF New
<1>9. IsFiniteSet(Repeats') /\ Cardinality(Repeats') <= Cardinality(Repeats) + Cardinality(Again)
    <2>1. IsFiniteSet(Repeats \cup New) /\ Cardinality(Repeats \cup New) \in 0..(Cardinality(Repeats) + Cardinality(New))
        BY <1>6, <1>8, UnionAtMost
    <2>2. IsFiniteSet(Repeats') /\ Cardinality(Repeats') <= Cardinality(Repeats \cup New)
        BY <1>7, <2>1, FS_Subset
    <2>3. /\ Cardinality(Repeats) \in Nat /\ Cardinality(New) \in Nat /\ Cardinality(Again) \in Nat
          /\ Cardinality(Repeats') \in Nat
        BY <1>5, <1>6, <1>8, <2>2, FS_CardinalityType
    <2> HIDE DEF Again
    <2> QED
        BY <1>6, <2>1, <2>2, <2>3
<1>10. CASE erased
    BY <1>2, <1>9, <1>10 DEF RepeatsInv
<1>11. CASE ~ erased /\ Overflows
    <2>1. \A i \in 1..MaxIds : seen[i] = 0
        BY <1>1, <1>2, <1>11 DEF ShownInv
    <2>2. Again = {}
        BY <1>2, <1>3, <2>1
    <2>3. New = {}
        BY <2>2 DEF New
    <2>4. Repeats = {}
        BY <1>1, <1>11 DEF RepeatsInv
    <2>5. Repeats' = {}
        BY <1>7, <2>3, <2>4
    <2> QED
        BY <1>2, <1>4, <1>9, <1>11, <2>5 DEF RepeatsInv
<1>12. CASE ~ erased /\ ~ Overflows
    <2>1. /\ (page - 1) * PageSize \in Nat
          /\ page * PageSize = (page - 1) * PageSize + PageSize
          /\ rows' = {i \in Admitted :
                Number(Admitted, i) \in ((page - 1) * PageSize + 1)..(page * PageSize)}
        BY <1>12, SelectFacts
    <2>2. \A i \in Admitted : Number(Admitted, i) \in Nat /\ seen[i] \in Nat
        <3>1. \A i \in Admitted : Number(Admitted, i) \in 1..Cardinality(Admitted)
            BY <1>1, StoreFacts, NumberFacts
        <3> QED
            BY <1>1, <1>3, <3>1
    <2>3. Behind = {i \in Admitted : seen[i] > 0 /\ Number(Admitted, i) > (page - 1) * PageSize}
        BY <1>2 DEF Behind
    <2>4. Behind' = {i \in Admitted : seen'[i] > 0 /\ Number(Admitted, i) > page * PageSize}
        BY <1>2 DEF Behind
    <2>5. PageSize \in Nat
        BY SizeFacts
    <2> DEFINE x == (page - 1) * PageSize
               y == page * PageSize
    <2>6. x \in Nat /\ y = x + PageSize
        BY <2>1
    <2>7. /\ rows' = {i \in Admitted : Number(Admitted, i) \in (x + 1)..y}
          /\ Behind = {i \in Admitted : seen[i] > 0 /\ Number(Admitted, i) > x}
          /\ Behind' = {i \in Admitted : seen'[i] > 0 /\ Number(Admitted, i) > y}
        BY <2>1, <2>3, <2>4
    <2> HIDE DEF x, y
    <2>8. \A i \in Again : i \in Behind /\ i \notin Behind'
        BY <2>2, <2>5, <2>6, <2>7
    <2>9. \A i \in Behind' : i \in Behind
        BY <1>2, <1>3, <2>2, <2>5, <2>6, <2>7
    <2>10. IsFiniteSet(Behind) /\ Cardinality(Behind) \in Nat /\ Cardinality(Coming) \in Nat
        BY <1>1, BoundFacts
    <2>11. IsFiniteSet(Behind') /\ Behind' \cap Again = {} /\ (Behind' \cup Again) \subseteq Behind
        BY <2>8, <2>9, <2>10, FS_Subset
    <2> HIDE DEF Again
    <2>12. Cardinality(Behind' \cup Again) = Cardinality(Behind') + Cardinality(Again)
        BY <1>5, <2>11, UnionAtMost
    <2>13. Cardinality(Behind' \cup Again) <= Cardinality(Behind)
        BY <2>10, <2>11, FS_Subset
    <2>14. /\ Cardinality(Behind') \in Nat /\ Cardinality(Again) \in Nat /\ Cardinality(Repeats) \in Nat
           /\ Cardinality(Repeats') \in Nat
        BY <1>5, <1>8, <1>9, <2>11, FS_CardinalityType
    <2>15. Cardinality(Repeats) + Cardinality(Behind) + Cardinality(Coming) <= saves
        BY <1>1, <1>12 DEF RepeatsInv
    <2>16. Cardinality(Repeats') + Cardinality(Behind') + Cardinality(Coming) <= saves
        BY <1>1, <1>9, <2>10, <2>12, <2>13, <2>14, <2>15
    <2>17. Cardinality(Repeats') + Cardinality(Behind') + Cardinality(Coming') <= saves'
        BY <1>2, <1>4, <2>16
    <2> QED
        BY <1>4, <1>9, <1>12, <2>17 DEF RepeatsInv
<1> QED
    BY <1>1, <1>10, <1>11, <1>12

\* A save pushes one report over the edge, or one out of the filter, and is counted.
LEMMA RepeatsSave ==
    ASSUME PagesInv, Environment, NEW x \in 1..MaxIds, NEW m \in SUBSET Workloads, Saved(x, m)
    PROVE  RepeatsInv'
<1>1. /\ StoreInv /\ RepeatsInv /\ ShownInv /\ page \in Nat \ {0} /\ erased \in BOOLEAN
      /\ moving \in BOOLEAN /\ (~ moving => since = 1) /\ since \in 1..(MaxIds + 1) /\ until \in 0..MaxIds
      /\ seen \in [1..MaxIds -> Nat] /\ saves \in Nat /\ MaxIds \in Nat
    BY SizeFacts DEF PagesInv, RequestInv, PagesTypeOK
<1>2. UNCHANGED <<seen, pc, page, moving, since, until>> /\ filter' = filter
    BY EnvironmentFrame
<1>3. StoreInv' /\ x \in Nat
    BY <1>1, EnvironmentSteps
<1>4. /\ Ids' = Ids \cup {x} /\ x \notin Ids
      /\ Admitted' = IF x \in since..until THEN Admitted \cup {x} ELSE Admitted
      /\ erased' = erased
      /\ saves' = saves + (IF moving \/ x <= until THEN 1 ELSE 0)
    BY <1>1, <1>2, AdmittedAfterSave DEF Saved
<1>5. Repeats' = Repeats /\ (Overflows' <=> Overflows) /\ Selections' = Selections
    BY <1>2 DEF Repeats, Overflows, Selections
<1>6. IsFiniteSet(Repeats')
    BY <1>1, <1>5 DEF RepeatsInv
<1>7. CASE erased \/ Overflows
    BY <1>1, <1>4, <1>5, <1>6, <1>7 DEF RepeatsInv
<1>8. CASE ~ erased /\ ~ Overflows
    <2>1. /\ Cardinality(Repeats) + Cardinality(Behind) + Cardinality(Coming) <= saves
          /\ Cardinality(Repeats) \in Nat
          /\ IsFiniteSet(Behind) /\ Cardinality(Behind) \in Nat
          /\ IsFiniteSet(Coming) /\ Cardinality(Coming) \in Nat
          /\ Cardinality(Behind') \in Nat /\ Cardinality(Coming') \in Nat
        <3>1. /\ IsFiniteSet(Repeats)
              /\ Cardinality(Repeats) + Cardinality(Behind) + Cardinality(Coming) <= saves
            BY <1>1, <1>8 DEF RepeatsInv
        <3>2. IsFiniteSet(Ids')
            BY <1>1, <1>4, StoreFacts, FS_AddElement
        <3>3. Behind' \subseteq Ids' /\ Coming' \subseteq Ids'
            BY DEF Behind, Coming, Admitted, InRange, IdsOf, Ids
        <3>4. Cardinality(Behind') \in Nat /\ Cardinality(Coming') \in Nat
            BY <3>2, <3>3, FS_Subset, FS_CardinalityType
        <3> QED
            BY <1>1, <3>1, <3>4, BoundFacts, FS_CardinalityType
    <2>2. \A i \in Admitted' : seen[i] > 0 => i \in Admitted
        <3>1. \A i \in Admitted : i \in 1..MaxIds
            BY <1>1, StoreFacts
        <3>2. ~ (seen[x] > 0)
            BY <1>1, <1>4, <1>8 DEF ShownInv
        <3> QED
            BY <1>4, <3>1, <3>2
    <2>3. CASE x \in since..until
        <3> DEFINE W == {i \in Admitted : seen[i] > 0}
                   d == Selections * PageSize
                   M == Admitted'
        <3>1. /\ Admitted \in SUBSET Nat /\ IsFiniteSet(Admitted)
              /\ M \in SUBSET Nat /\ IsFiniteSet(M)
              /\ M = Admitted \cup {x}
              /\ {x} \in SUBSET Nat /\ IsFiniteSet({x}) /\ Cardinality({x}) = 1
              /\ d \in Nat /\ W \in SUBSET Admitted
            <4>1. Admitted \in SUBSET Nat /\ IsFiniteSet(Admitted)
                BY <1>1, StoreFacts
            <4>2. M = Admitted \cup {x}
                BY <1>4, <2>3
            <4>3. M \in SUBSET Nat /\ IsFiniteSet(M)
                BY <1>3, <4>1, <4>2, FS_AddElement
            <4> QED
                BY <1>1, <1>3, <4>1, <4>2, <4>3, FS_Singleton, SelectionsFacts
        <3>2. Behind = {i \in W : Number(Admitted, i) > d}
            BY DEF Behind
        <3>3. Behind' = {i \in M : seen[i] > 0 /\ Number(M, i) > d}
            BY <1>2, <1>5 DEF Behind
        <3>4. /\ \A i \in Behind' : i \in W /\ Number(M, i) > d
              /\ Behind \in SUBSET Admitted
            BY <2>2, <3>2, <3>3
        <3> DEFINE X == {x}
        <3>5. \A i \in W : \A j \in M : j >= i => j \in Admitted \cup X
            BY <3>1
        <3>6. Cardinality(Behind') <= Cardinality(Behind) + 1
            <4>1. X \in SUBSET Nat /\ IsFiniteSet(X) /\ Cardinality(X) = 1
                BY <3>1
            <4>2. \A i \in W : Number(Admitted, i) > d => i \in Behind
                BY <3>2
            <4> HIDE DEF W, d, M, X
            <4>3. Cardinality(Behind') <= Cardinality(Behind) + Cardinality(X)
                BY <3>1, <3>4, <3>5, <4>1, <4>2, Pushed
            <4> QED
                BY <4>1, <4>3
        <3>7. Coming' = Coming
            <4>1. ~ (x > until)
                BY <1>1, <1>3, <2>3
            <4> QED
                BY <1>2, <1>4, <4>1 DEF Coming
        <3>8. saves' = saves + 1
            BY <1>1, <1>3, <1>4, <2>3
        <3>9. Cardinality(Repeats') + Cardinality(Behind') + Cardinality(Coming') <= saves'
            BY <1>1, <1>5, <2>1, <3>6, <3>7, <3>8
        <3> QED
            BY <1>5, <1>6, <1>8, <3>9 DEF RepeatsInv
    <2>4. CASE x \notin since..until
        <3>1. Behind' = Behind
            BY <1>2, <1>4, <1>5, <2>4 DEF Behind
        <3>2. CASE moving
            <4>1. Coming' = Coming \/ Coming' = Coming \cup {x}
                BY <1>2, <1>4, <3>2 DEF Coming
            <4>2. Cardinality(Coming') <= Cardinality(Coming) + 1
                <5>1. CASE Coming' = Coming
                    BY <2>1, <5>1
                <5>2. CASE Coming' = Coming \cup {x}
                    <6>1. Cardinality(Coming \cup {x}) \in {Cardinality(Coming), Cardinality(Coming) + 1}
                        BY <2>1, FS_AddElement
                    <6> QED
                        BY <2>1, <5>2, <6>1
                <5> QED
                    BY <4>1, <5>1, <5>2
            <4>3. saves' = saves + 1
                BY <1>4, <3>2
            <4>4. Cardinality(Repeats') + Cardinality(Behind') + Cardinality(Coming') <= saves'
                BY <1>1, <1>5, <2>1, <3>1, <4>2, <4>3
            <4> QED
                BY <1>5, <1>6, <1>8, <4>4 DEF RepeatsInv
        <3>3. CASE ~ moving
            <4>1. Coming' = Coming
                BY <1>2, <3>3 DEF Coming
            <4>2. saves' >= saves
                BY <1>1, <1>4
            <4>3. Cardinality(Repeats') + Cardinality(Behind') + Cardinality(Coming') <= saves'
                <5> DEFINE r == Cardinality(Repeats)
                           b == Cardinality(Behind)
                           c == Cardinality(Coming)
                <5>1. r \in Nat /\ b \in Nat /\ c \in Nat /\ r + b + c <= saves
                    BY <2>1
                <5> HIDE DEF r, b, c
                <5>2. saves' \in Int /\ r + b + c <= saves'
                    BY <1>1, <1>4, <4>2, <5>1
                <5> QED
                    BY <1>5, <3>1, <4>1, <5>2 DEF r, b, c
            <4> QED
                BY <1>5, <1>6, <1>8, <4>3 DEF RepeatsInv
        <3> QED
            BY <3>2, <3>3
    <2> QED
        BY <2>3, <2>4
<1> QED
    BY <1>1, <1>7, <1>8

\* When the period moves on, what comes into it pushes as many over the edge.
LEMMA RepeatsNextPage ==
    ASSUME PagesInv, NextPage
    PROVE  RepeatsInv'
<1>1. /\ StoreInv /\ RepeatsInv /\ ShownInv /\ page \in Nat \ {0} /\ erased \in BOOLEAN
      /\ moving \in BOOLEAN /\ since \in 1..(MaxIds + 1) /\ until \in 0..MaxIds
      /\ seen \in [1..MaxIds -> Nat] /\ saves \in Nat /\ MaxIds \in Nat
    BY SizeFacts DEF PagesInv, RequestInv, PagesTypeOK
<1>2. /\ ~ Overflows /\ ~ Overflows'
      /\ Selections = page /\ Selections' = page
      /\ Ids' = Ids /\ moving' = moving
      /\ since' \in since..(MaxIds + 1) /\ until' \in until..MaxIds
      /\ ~ moving => since' = since /\ until' = until
      /\ moving => until' >= usedIds.reports
    BY NextPageFacts
<1>3. UNCHANGED <<seen, saves, erased>> /\ reports' = reports
    BY DEF NextPage, ghosts, vars
<1>4. Repeats' = Repeats /\ IsFiniteSet(Repeats')
    BY <1>1, <1>3 DEF Repeats, RepeatsInv
<1>6. Coming' = {}
    <2>1. \A i \in Ids : i \in 1..MaxIds /\ i <= usedIds.reports
        BY <1>1 DEF StoreInv, Ids, IdsOf
    <2>2. usedIds.reports \in Nat
        BY <1>1 DEF StoreInv
    <2>3. moving => \A i \in Ids' : ~ (i > until')
        BY <1>1, <1>2, <2>1, <2>2
    <2> QED
        BY <1>2, <2>3 DEF Coming
<1>7. CASE erased
    BY <1>3, <1>4, <1>7 DEF RepeatsInv
<1>8. CASE ~ erased
    <2>1. /\ Cardinality(Repeats) + Cardinality(Behind) + Cardinality(Coming) <= saves
          /\ Cardinality(Repeats) \in Nat
          /\ IsFiniteSet(Behind) /\ Cardinality(Behind) \in Nat
          /\ Coming \in SUBSET Nat /\ IsFiniteSet(Coming) /\ Cardinality(Coming) \in Nat
          /\ Cardinality(Behind') \in Nat
        <3>1. /\ IsFiniteSet(Repeats)
              /\ Cardinality(Repeats) + Cardinality(Behind) + Cardinality(Coming) <= saves
            BY <1>1, <1>2, <1>8 DEF RepeatsInv
        <3>2. IsFiniteSet(Ids')
            BY <1>1, <1>2, StoreFacts
        <3>3. Behind' \subseteq Ids'
            BY DEF Behind, Admitted, InRange, IdsOf, Ids
        <3>4. Cardinality(Behind') \in Nat
            BY <3>2, <3>3, FS_Subset, FS_CardinalityType
        <3> QED
            BY <1>1, <3>1, <3>4, BoundFacts, FS_CardinalityType
    <2>2. /\ Admitted = {i \in Ids : i \in since..until}
          /\ Admitted' = {i \in Ids : i \in since'..until'}
        <3>1. Admitted = {i \in Ids : i \in since..until}
            BY <1>1, StoreFacts
        <3>2. Admitted' = {i \in Ids' : i \in since'..until'}
            BY DEF Admitted, Ids, InRange, IdsOf
        <3> QED
            BY <1>2, <3>1, <3>2
    <2>3. \A i \in Ids : i \in 1..MaxIds /\ i \in Nat
        <3>1. Ids \subseteq 1..MaxIds
            BY <1>1, StoreFacts
        <3> QED
            BY <1>1, <3>1
    <2>4. since \in Nat /\ until \in Nat /\ since' \in Nat /\ until' \in Nat /\ since <= since' /\ until <= until'
        BY <1>1, <1>2
    <2>5. \A i \in Admitted' : seen[i] > 0 => i \in Admitted
        BY <1>1, <1>8, <2>2, <2>3, <2>4 DEF ShownInv
    <2> DEFINE W == {i \in Admitted : seen[i] > 0}
               d == page * PageSize
               M == Admitted'
    <2>6. \A i \in W : \A j \in M : j >= i => j \in Admitted \cup Coming
        <3> SUFFICES ASSUME NEW i \in W, NEW j \in M, j >= i
                     PROVE  j \in Admitted \/ j \in Coming
            OBVIOUS
        <3>1. i \in Nat /\ j \in Nat /\ j \in Ids /\ since <= i /\ j <= until'
            BY <2>2, <2>3, <2>4
        <3>2. since <= j
            BY <2>4, <3>1
        <3>3. CASE j <= until
            BY <2>2, <2>4, <3>1, <3>2, <3>3
        <3>4. CASE j > until
            BY <1>2, <2>4, <3>1, <3>4 DEF Coming
        <3> QED
            BY <2>4, <3>1, <3>3, <3>4
    <2>7. /\ Admitted \in SUBSET Nat /\ IsFiniteSet(Admitted)
          /\ M \in SUBSET Nat /\ IsFiniteSet(M)
          /\ d \in Nat /\ W \in SUBSET Admitted
        <3>1. Admitted \in SUBSET Nat /\ IsFiniteSet(Admitted) /\ IsFiniteSet(Ids)
            BY <1>1, StoreFacts
        <3>2. M \subseteq Ids /\ M \in SUBSET Nat
            BY <2>2, <2>3
        <3>3. IsFiniteSet(M)
            BY <3>1, <3>2, FS_Subset
        <3>4. d \in Nat
            BY <1>1, SizeFacts, Products
        <3> QED
            BY <3>1, <3>2, <3>3, <3>4
    <2>8. Behind = {i \in W : Number(Admitted, i) > d}
        BY <1>2 DEF Behind
    <2>9. /\ \A i \in Behind' : i \in W /\ Number(M, i) > d
          /\ Behind \in SUBSET Admitted
        <3>1. Behind' = {i \in M : seen[i] > 0 /\ Number(M, i) > d}
            BY <1>2, <1>3 DEF Behind
        <3> QED
            BY <2>5, <2>8, <3>1
    <2>10. Cardinality(Behind') <= Cardinality(Behind) + Cardinality(Coming)
        <3>1. \A i \in W : Number(Admitted, i) > d => i \in Behind
            BY <2>8
        <3> HIDE DEF W, d, M
        <3> QED
            BY <2>1, <2>6, <2>7, <2>9, <3>1, Pushed
    <2>11. Cardinality(Coming') = 0
        BY <1>6, FS_EmptySet
    <2>12. Cardinality(Repeats') + Cardinality(Behind') + Cardinality(Coming') <= saves'
        BY <1>1, <1>3, <1>4, <2>1, <2>10, <2>11
    <2> QED
        BY <1>2, <1>4, <2>12 DEF RepeatsInv
<1> QED
    BY <1>1, <1>7, <1>8

LEMMA RepeatsSteps ==
    ASSUME PagesInv, [PagesNext]_pagesVars
    PROVE  RepeatsInv'
<1>1. StoreInv /\ RepeatsInv /\ StoreInv'
    BY StoreSteps DEF PagesInv
<1>2. ASSUME UNCHANGED <<reports, filter, seen, page, saves, erased>>, Selections' = Selections
      PROVE  RepeatsInv'
    <2>1. Ids' = Ids /\ Admitted' = Admitted
        BY <1>2, SameAdmitted
    <2>2. Repeats' = Repeats /\ Behind' = Behind /\ Coming' = Coming /\ (Overflows' <=> Overflows)
        BY <1>2, <2>1 DEF Repeats, Behind, Coming, Overflows, filter
    <2> QED
        BY <1>1, <1>2, <2>2 DEF RepeatsInv
<1>3. CASE Environment
    <2>1. UNCHANGED <<filter, seen, page, pc>>
        BY <1>3, EnvironmentFrame
    <2>2. Selections' = Selections
        BY <2>1 DEF Selections
    <2>3. CASE NothingNew
        BY <1>2, <2>1, <2>2, <2>3 DEF NothingNew
    <2>4. CASE AllErased
        BY <1>1, <2>1, <2>4 DEF AllErased, RepeatsInv, Repeats
    <2> QED
        BY <1>3, <2>3, <2>4, EnvironmentSteps, RepeatsSave
<1>4. CASE FirstPage \/ AnyPage \/ Stop
    <2>1. /\ seen' = [i \in 1..MaxIds |-> 0] /\ saves' = 0 /\ UNCHANGED <<reports, usedIds>>
          /\ moving' = FALSE \/ PeriodAfter(1, 0)
        BY <1>4 DEF FirstPage, AnyPage, Asks, Stop, FilterIsEnd, vars
    <2>2. Repeats' = {} /\ IsFiniteSet(Repeats') /\ Behind' = {}
        BY <1>1, <2>1, NothingShown
    <2>3. Coming' = {}
        <3>1. Ids' = Ids
            BY <2>1 DEF Ids, IdsOf
        <3>2. \A i \in Ids : i \in 1..MaxIds /\ i <= usedIds.reports
            BY <1>1 DEF StoreInv, Ids, IdsOf
        <3>3. usedIds.reports \in Nat /\ MaxIds \in Nat
            BY <1>1, SizeFacts DEF StoreInv
        <3>4. ASSUME PeriodAfter(1, 0)
              PROVE  until' \in Nat /\ until' >= usedIds.reports
            <4>1. since \in 1..(MaxIds + 1) /\ until \in 0..MaxIds
                BY DEF PagesInv, RequestInv, PagesTypeOK
            <4>2. 1 \in 1..(MaxIds + 1) /\ 0 \in 0..MaxIds
                BY <3>3
            <4>3. until' \in 0..MaxIds /\ until' >= usedIds.reports
                BY <1>1, <3>4, <4>1, <4>2, FilterSteps
            <4> QED
                BY <3>3, <4>3
        <3>5. moving' => \A i \in Ids' : ~ (i > until')
            BY <2>1, <3>1, <3>2, <3>3, <3>4
        <3> QED
            BY <3>5 DEF Coming
    <2>4. Cardinality({}) = 0
        BY FS_EmptySet
    <2> QED
        BY <2>1, <2>2, <2>3, <2>4 DEF RepeatsInv
<1>5. CASE NextPage
    BY <1>5, RepeatsNextPage
<1>6. CASE Count \/ LoadItems \/ Answer
    <2>1. UNCHANGED <<reports, filter, seen, page, saves, erased>>
        BY <1>6 DEF Count, LoadItems, Answer, vars, ghosts
    <2>2. Selections' = Selections
        BY <1>6, <2>1 DEF Count, LoadItems, Answer, Selections
    <2> QED
        BY <1>2, <2>1, <2>2
<1>7. CASE Select
    BY <1>7, RepeatsSelect
<1>8. CASE UNCHANGED pagesVars
    <2>1. UNCHANGED <<reports, filter, seen, page, saves, erased, pc>>
        BY <1>8 DEF pagesVars, vars, request, ghosts
    <2> QED
        BY <1>2, <2>1 DEF Selections
<1> QED
    BY <1>3, <1>4, <1>5, <1>6, <1>7, <1>8 DEF PagesNext

\* A save leaves what the filter admits where it is, or moves it to the back.
LEMMA SavesPushBack ==
    ASSUME StoreInv, filter' = filter, NEW x \in 1..MaxIds, NEW m, Saved(x, m)
    PROVE  /\ \A i \in Admitted :
                 /\ i \in Admitted' /\ Number(Admitted, i) \in Nat /\ Number(Admitted', i) \in Nat
                 /\ Number(Admitted, i) <= Number(Admitted', i)
           /\ Cardinality(Admitted') =
                 IF x \in since..until THEN Cardinality(Admitted) + 1 ELSE Cardinality(Admitted)
<1>1. /\ Admitted' = IF x \in since..until THEN Admitted \cup {x} ELSE Admitted
      /\ x \notin Admitted
    BY AdmittedAfterSave, StoreFacts
<1>2. Admitted \in SUBSET Nat /\ IsFiniteSet(Admitted) /\ x \in Nat
    BY StoreFacts, SizeFacts
<1>3. Admitted' \in SUBSET Nat /\ IsFiniteSet(Admitted') /\ Admitted \subseteq Admitted'
    <2>1. CASE x \in since..until
        BY <1>1, <1>2, <2>1, FS_AddElement
    <2>2. CASE x \notin since..until
        BY <1>1, <1>2, <2>2
    <2> QED
        BY <2>1, <2>2
<1>4. ASSUME NEW i \in Admitted
      PROVE  /\ i \in Admitted' /\ Number(Admitted, i) \in Nat /\ Number(Admitted', i) \in Nat
             /\ Number(Admitted, i) <= Number(Admitted', i)
    <2>1. i \in Nat /\ \A j \in Admitted : j >= i => j \in Admitted'
        BY <1>2, <1>3
    <2> QED
        BY <1>2, <1>3, <2>1, NumbersGrow
<1>5. Cardinality(Admitted') =
          IF x \in since..until THEN Cardinality(Admitted) + 1 ELSE Cardinality(Admitted)
    <2>1. Cardinality(Admitted \cup {x}) = Cardinality(Admitted) + 1
        BY <1>1, <1>2, FS_AddElement
    <2> QED
        BY <1>1, <2>1
<1> QED
    BY <1>4, <1>5

\* A save pushes what was not shown yet further back, never to the front.
LEMMA MissesSave ==
    ASSUME PagesInv, Environment, NEW x \in 1..MaxIds, NEW m \in SUBSET Workloads, Saved(x, m)
    PROVE  MissesInv'
<1>1. /\ StoreInv /\ MissesInv /\ page \in Nat \ {0} /\ late \in Nat
      /\ Cardinality(Admitted) \in Nat /\ total \in Nat
    BY StoreFacts, SizeFacts DEF PagesInv, RequestInv, PagesTypeOK
<1>2. /\ UNCHANGED <<at, seen, pc, page, total, moving, since, until>> /\ filter' = filter
      /\ erased' = erased /\ late' = late + (IF x \in since..until THEN 1 ELSE 0)
    BY EnvironmentFrame DEF Saved
<1>3. /\ \A i \in Admitted :
            /\ i \in Admitted' /\ Number(Admitted, i) \in Nat /\ Number(Admitted', i) \in Nat
            /\ Number(Admitted, i) <= Number(Admitted', i)
      /\ Cardinality(Admitted') =
            IF x \in since..until THEN Cardinality(Admitted) + 1 ELSE Cardinality(Admitted)
    BY <1>1, <1>2, SavesPushBack
<1>4. Selections' = Selections /\ (Overflows' <=> Overflows)
    BY <1>2 DEF Selections, Overflows
<1> DEFINE d == Selections * PageSize
<1>5. d \in Nat
    BY <1>1, SelectionsFacts
<1>6. ASSUME ~ erased, NEW i \in at, i >= since, seen[i] = 0
      PROVE  i \in Admitted' /\ Number(Admitted', i) > d
    <2>1. i \in Admitted /\ Number(Admitted, i) > d
        BY <1>1, <1>6 DEF MissesInv
    <2> HIDE DEF d
    <2> QED
        BY <1>3, <1>5, <2>1
<1>7. pc \in {"select", "items", "answered"} /\ ~ erased => total + late' = Cardinality(Admitted')
    BY <1>1, <1>2, <1>3 DEF MissesInv
<1> QED
    BY <1>1, <1>2, <1>4, <1>6, <1>7 DEF MissesInv

LEMMA MissesSteps ==
    ASSUME PagesInv, [PagesNext]_pagesVars
    PROVE  MissesInv'
<1>1. /\ StoreInv /\ MissesInv /\ page \in Nat \ {0} /\ PageSize \in Nat \ {0} /\ MaxInt \in Nat
      /\ MaxIds \in Nat /\ since \in 1..(MaxIds + 1) /\ until \in 0..MaxIds
      /\ seen \in [1..MaxIds -> Nat] /\ at \subseteq 1..MaxIds
    BY SizeFacts DEF PagesInv, RequestInv, PagesTypeOK
<1>2. ASSUME UNCHANGED <<reports, filter, seen, at, page, total, late, erased>>, Selections' = Selections,
             pc' \in {"select", "items", "answered"} => pc \in {"select", "items", "answered"}
      PROVE  MissesInv'
    <2>1. Admitted' = Admitted
        BY <1>2, SameAdmitted
    <2> QED
        BY <1>1, <1>2, <2>1 DEF MissesInv, Overflows, filter
<1>3. CASE Environment
    <2>1. UNCHANGED <<filter, since, seen, at, page, total, pc>>
        BY <1>3, EnvironmentFrame
    <2>2. Selections' = Selections
        BY <2>1 DEF Selections
    <2>3. CASE NothingNew
        BY <1>2, <2>1, <2>2, <2>3 DEF NothingNew
    <2>4. CASE AllErased
        BY <1>1, <2>1, <2>4 DEF AllErased, MissesInv, Overflows
    <2> QED
        BY <1>3, <2>3, <2>4, EnvironmentSteps, MissesSave
<1>4. CASE FirstPage
    <2>1. /\ page' = 1 /\ pc' = "count" /\ at' = Admitted'
          /\ UNCHANGED <<reports>>
        BY <1>4 DEF FirstPage, Asks, vars, Admitted, InRange, IdsOf
    <2>2. ~ Overflows' /\ Selections' * PageSize = 0
        BY <1>1, <2>1 DEF Overflows, Selections
    <2>3. \A i \in Admitted' : Number(Admitted', i) > 0
        <3>1. Ids' = Ids /\ Admitted' \subseteq Ids'
            BY <2>1 DEF Ids, Admitted, InRange, IdsOf
        <3>2. Admitted' \in SUBSET Nat /\ IsFiniteSet(Admitted')
            <4>1. Ids \subseteq 1..MaxIds /\ IsFiniteSet(Ids)
                BY <1>1, StoreFacts
            <4>2. \A i \in 1..MaxIds : i \in Nat
                BY <1>1
            <4> QED
                BY <3>1, <4>1, <4>2, FS_Subset
        <3>3. /\ Cardinality(Admitted') \in Nat
              /\ \A i \in Admitted' : Number(Admitted', i) \in 1..Cardinality(Admitted')
            BY <3>2, NumberFacts
        <3> QED
            BY <3>3
    <2> QED
        BY <2>1, <2>2, <2>3 DEF MissesInv
<1>5. CASE AnyPage \/ Stop
    BY <1>5 DEF AnyPage, Asks, Stop, MissesInv
<1>6. CASE NextPage
    <2>1. /\ ~ Overflows' /\ Selections' = Selections
          /\ Ids' = Ids /\ since' \in since..(MaxIds + 1) /\ until' \in until..MaxIds
          /\ pc' = "count" /\ UNCHANGED <<at, seen, erased>>
        BY <1>6, NextPageFacts DEF NextPage, ghosts
    <2>2. Admitted = {i \in Ids : i \in since..until} /\ Admitted' = {i \in Ids : i \in since'..until'}
        <3>1. Admitted = {i \in Ids : i \in since..until}
            BY <1>1, StoreFacts
        <3>2. Admitted' = {i \in Ids' : i \in since'..until'}
            BY DEF Admitted, Ids, InRange, IdsOf
        <3> QED
            BY <2>1, <3>1, <3>2
    <2>3. \A i \in Ids : i \in Nat
        <3>1. Ids \subseteq 1..MaxIds
            BY <1>1, StoreFacts
        <3> QED
            BY <1>1, <3>1
    <2>4. since \in Nat /\ until \in Nat /\ since' \in Nat /\ until' \in Nat /\ since <= since' /\ until <= until'
        BY <1>1, <2>1
    <2>5. Admitted \in SUBSET Nat /\ IsFiniteSet(Admitted) /\ Admitted' \in SUBSET Nat /\ IsFiniteSet(Admitted')
        <3>1. IsFiniteSet(Ids) /\ Admitted' \subseteq Ids /\ Admitted \subseteq Ids
            BY <1>1, <2>2, StoreFacts
        <3> QED
            BY <2>3, <3>1, FS_Subset
    <2> DEFINE d == Selections * PageSize
    <2>6. d \in Nat
        BY <1>1, SelectionsFacts
    <2>7. ASSUME ~ erased, NEW i \in at, i >= since', seen[i] = 0
          PROVE  i \in Admitted' /\ Number(Admitted', i) > d
        <3>1. i \in Nat /\ i >= since
            BY <1>1, <2>4, <2>7
        <3>2. i \in Admitted /\ Number(Admitted, i) > d
            BY <1>1, <2>7, <3>1 DEF MissesInv
        <3>3. i \in Admitted'
            BY <2>2, <2>4, <2>7, <3>1, <3>2
        <3>4. \A j \in Admitted : j >= i => j \in Admitted'
            BY <2>2, <2>3, <2>4, <2>7, <3>1
        <3>5. /\ Number(Admitted, i) \in Nat /\ Number(Admitted', i) \in Nat
              /\ Number(Admitted, i) <= Number(Admitted', i)
            BY <2>5, <3>1, <3>4, NumbersGrow
        <3> HIDE DEF d
        <3> QED
            BY <2>6, <3>2, <3>3, <3>5
    <2> QED
        BY <2>1, <2>7 DEF MissesInv
<1>7. CASE Count
    <2>1. /\ pc = "count" /\ pc' = "select" /\ total' = Cardinality(InRange) /\ late' = 0
          /\ UNCHANGED <<reports, filter, since, seen, at, page, erased>>
        BY <1>7 DEF Count, vars, filter
    <2>2. Admitted' = Admitted /\ Selections' = Selections
        BY <2>1, SameAdmitted DEF Selections
    <2>3. total' + late' = Cardinality(Admitted')
        BY <1>1, <2>1, <2>2, StoreFacts
    <2> QED
        BY <1>1, <2>1, <2>2, <2>3 DEF MissesInv, Overflows
<1>8. CASE Select
    <2>1. /\ Admitted' = Admitted
          /\ \A i \in 1..MaxIds : seen'[i] = IF i \in rows' THEN seen[i] + 1 ELSE seen[i]
          /\ pc = "select" /\ pc' = "items"
          /\ UNCHANGED <<page, total, at, late, erased, since>>
          /\ Selections = page - 1 /\ Selections' = page
        BY <1>8, SelectFacts
    <2>2. Overflows' <=> Overflows
        BY <2>1 DEF Overflows
    <2>3. ASSUME ~ erased, NEW i \in at, i >= since, seen'[i] = 0
          PROVE  i \in Admitted /\ Number(Admitted, i) > page * PageSize
        <3>1. ~ Overflows
            BY <1>1, <2>3 DEF MissesInv
        <3>2. i \notin rows' /\ seen[i] = 0
            BY <1>1, <2>1, <2>3
        <3>3. i \in Admitted /\ Number(Admitted, i) > (page - 1) * PageSize
            BY <1>1, <2>1, <2>3, <3>2 DEF MissesInv
        <3>4. /\ (page - 1) * PageSize \in Nat
              /\ page * PageSize = (page - 1) * PageSize + PageSize
              /\ rows' = {j \in Admitted :
                    Number(Admitted, j) \in ((page - 1) * PageSize + 1)..(page * PageSize)}
            BY <1>8, <3>1, SelectFacts
        <3>5. Number(Admitted, i) \in Nat
            BY <1>1, <3>3, StoreFacts, NumberFacts
        <3> DEFINE x == (page - 1) * PageSize
                   y == page * PageSize
                   n == Number(Admitted, i)
        <3>6. x \in Nat /\ y = x + PageSize /\ n \in Nat /\ n > x /\ n \notin (x + 1)..y
            BY <3>2, <3>3, <3>4, <3>5
        <3> HIDE DEF x, y, n
        <3>7. n > y
            BY <1>1, <3>6
        <3> QED
            BY <3>3, <3>7 DEF n, y
    <2>4. Selections' * PageSize = page * PageSize
        BY <2>1
    <2> QED
        BY <1>1, <2>1, <2>2, <2>3, <2>4 DEF MissesInv
<1>9. CASE LoadItems \/ Answer
    <2>1. UNCHANGED <<reports, filter, seen, at, page, total, late, erased>>
        BY <1>9 DEF LoadItems, Answer, vars, ghosts
    <2>2. pc \in {"items", "answered"} /\ pc' \in {"items", "answered"}
        BY <1>9 DEF LoadItems, Answer
    <2> QED
        BY <1>2, <2>1, <2>2 DEF Selections
<1>10. CASE UNCHANGED pagesVars
    <2>1. UNCHANGED <<reports, filter, seen, at, page, total, late, erased, pc>>
        BY <1>10 DEF pagesVars, vars, request, ghosts
    <2> QED
        BY <1>2, <2>1 DEF Selections
<1> QED
    BY <1>3, <1>4, <1>5, <1>6, <1>7, <1>8, <1>9, <1>10 DEF PagesNext

\* More is left of more, but not to a page that is full.
LEMMA LeastOfRest ==
    ASSUME page \in Nat \ {0}, NEW m \in Nat, NEW n \in Nat, m <= n
    PROVE  /\ Least(PageSize, Rest(m)) \in Nat /\ Least(PageSize, Rest(n)) \in Nat
           /\ Least(PageSize, Rest(m)) <= Least(PageSize, Rest(n))
<1> DEFINE d == (page - 1) * PageSize
<1>1. d \in Nat /\ PageSize \in Nat
    BY SizeFacts, Products
<1>2. \A k \in Nat : Rest(k) = IF k > d THEN k - d ELSE 0
    BY DEF Rest
<1> HIDE DEF d
<1>3. Rest(m) \in Nat /\ Rest(n) \in Nat /\ Rest(m) <= Rest(n)
    BY <1>1, <1>2
<1> QED
    BY <1>1, <1>3 DEF Least

LEMMA FillSelect ==
    ASSUME PagesInv, Select
    PROVE  FillInv'
<1>1. /\ StoreInv /\ MissesInv /\ page \in Nat \ {0} /\ total \in Nat /\ late \in Nat
      /\ PageSize \in Nat \ {0}
    BY SizeFacts DEF PagesInv, RequestInv, PagesTypeOK
<1>2. /\ pc = "select" /\ content' = {} /\ Admitted' = Admitted
      /\ UNCHANGED <<page, total, late, erased>>
    BY SelectFacts
<1>3. SUFFICES ASSUME ~ erased, ~ Overflows
               PROVE  Cardinality(rows') \in
                          Least(PageSize, Rest(total))..Least(PageSize, Rest(total + late))
    BY <1>2 DEF FillInv, Shown, IdsOf, Rest, Overflows
<1> DEFINE d == (page - 1) * PageSize
           e == page * PageSize
           c == Cardinality(Admitted)
           b == IF e <= c THEN e ELSE c
<1>4. /\ d \in Nat /\ e = d + PageSize
      /\ rows' = {i \in Admitted : Number(Admitted, i) \in (d + 1)..e}
    BY <1>3, SelectFacts
<1>5. Admitted \in SUBSET Nat /\ IsFiniteSet(Admitted) /\ c \in Nat
    BY <1>1, StoreFacts
<1>6. c = total + late
    BY <1>1, <1>2, <1>3 DEF MissesInv
<1>7. \A i \in Admitted : Number(Admitted, i) \in 1..c
    BY <1>5, NumberFacts
<1>8. \A k \in Nat : Rest(k) = IF k > d THEN k - d ELSE 0
    BY DEF Rest
<1>9. b \in Nat /\ b <= Cardinality(Admitted)
    <2>1. e \in Nat /\ c = Cardinality(Admitted)
        BY <1>1, <1>4
    <2> HIDE DEF d, e, c
    <2>2. b \in Nat /\ b <= c
        BY <1>5, <2>1
    <2> QED
        BY <2>1, <2>2
<1> DEFINE T == {i \in Admitted : Number(Admitted, i) \in (d + 1)..b}
<1>10. rows' = T
    <2> HIDE DEF d, e, c
    <2>1. \A i \in Admitted : Number(Admitted, i) \in (d + 1)..e <=> Number(Admitted, i) \in (d + 1)..b
        BY <1>1, <1>4, <1>5, <1>7, <1>9
    <2> QED
        BY <1>4, <2>1
<1>11. Cardinality(T) = IF d <= b THEN b - d ELSE 0
    <2> HIDE DEF d, b
    <2> QED
        BY <1>4, <1>5, <1>9, Counted
<1> HIDE DEF T, d, e, c
<1>12. Cardinality(rows') = Least(PageSize, Rest(c))
    <2>1. Rest(c) = IF c > d THEN c - d ELSE 0
        BY <1>5, <1>8
    <2>2. b = IF e <= c THEN e ELSE c
        OBVIOUS
    <2> HIDE DEF b
    <2>3. Least(PageSize, Rest(c)) = IF d <= b THEN b - d ELSE 0
        BY <1>1, <1>4, <1>5, <2>1, <2>2 DEF Least
    <2> QED
        BY <1>10, <1>11, <2>3
<1>13. /\ Least(PageSize, Rest(total)) \in Nat /\ Least(PageSize, Rest(c)) \in Nat
       /\ Least(PageSize, Rest(total)) <= Least(PageSize, Rest(c))
    BY <1>1, <1>5, <1>6, LeastOfRest
<1> QED
    BY <1>6, <1>12, <1>13

LEMMA FillSteps ==
    ASSUME PagesInv, [PagesNext]_pagesVars
    PROVE  FillInv'
<1>1. /\ FillInv /\ page \in Nat \ {0} /\ total \in Nat /\ late \in Nat /\ erased \in BOOLEAN
      /\ PageSize \in Nat
    BY SizeFacts DEF PagesInv, RequestInv, PagesTypeOK
<1>2. ASSUME Shown' = Shown, pc' = "items" => pc = "items", UNCHANGED <<page, total>>,
             late' \in Nat, late <= late', erased' = erased
      PROVE  FillInv'
    <2> SUFFICES ASSUME pc = "items", ~ erased, ~ Overflows
                 PROVE  Cardinality(Shown) \in
                            Least(PageSize, Rest(total))..Least(PageSize, Rest(total + late'))
        BY <1>2 DEF FillInv, Overflows, Rest
    <2>1. total + late \in Nat /\ total + late' \in Nat /\ total + late <= total + late'
        <3>1. \A t, k, l \in Nat : k <= l => t + k \in Nat /\ t + l \in Nat /\ t + k <= t + l
            OBVIOUS
        <3>2. late' \in Nat /\ late <= late'
            BY <1>2
        <3> QED
            BY <1>1, <3>1, <3>2, Zenon
    <2> DEFINE n == Cardinality(Shown)
               x == Least(PageSize, Rest(total))
               y == Least(PageSize, Rest(total + late))
               z == Least(PageSize, Rest(total + late'))
    <2>2. n \in x..y
        BY <1>1 DEF FillInv
    <2>3. x \in Nat /\ y \in Nat /\ z \in Nat /\ y <= z
        <3>1. total <= total + late
            BY <1>1
        <3> QED
            BY <1>1, <2>1, <3>1, LeastOfRest
    <2> HIDE DEF n, x, y, z
    <2>4. n \in x..z
        BY <2>2, <2>3
    <2> QED
        BY <2>4 DEF n, x, z
<1>3. CASE Environment
    <2>1. UNCHANGED <<rows, content, page, pc, total>>
        BY <1>3, EnvironmentFrame
    <2>2. Shown' = Shown
        BY <2>1 DEF Shown, IdsOf
    <2>3. CASE NothingNew
        BY <1>1, <1>2, <2>1, <2>2, <2>3 DEF NothingNew
    <2>4. CASE AllErased
        BY <2>4 DEF AllErased, FillInv
    <2>5. ASSUME NEW x \in 1..MaxIds, NEW m \in SUBSET Workloads, Saved(x, m)
          PROVE  FillInv'
        <3>1. late' \in Nat /\ late <= late' /\ erased' = erased
            BY <1>1, <2>5 DEF Saved
        <3> QED
            BY <1>2, <2>1, <2>2, <3>1
    <2> QED
        BY <1>3, <2>3, <2>4, <2>5, EnvironmentSteps
<1>4. CASE FirstPage \/ AnyPage \/ NextPage \/ Count \/ Answer \/ Stop
    BY <1>4 DEF FirstPage, AnyPage, Asks, NextPage, Count, Answer, Stop, FillInv
<1>5. CASE LoadItems
    <2>1. PICK i \in rows : /\ content' = content \cup {[id |-> i, items |-> ItemsOf(i)]}
                            /\ rows' = rows \ {i}
        BY <1>5 DEF LoadItems
    <2> DEFINE c == [id |-> i, items |-> ItemsOf(i)]
    <2>2. c.id = i /\ content' = content \cup {c}
        BY <2>1
    <2> HIDE DEF c
    <2>3. IdsOf(content') = IdsOf(content) \cup {i}
        BY <2>2 DEF IdsOf
    <2>4. Shown' = Shown
        BY <2>1, <2>3 DEF Shown, IdsOf
    <2>5. UNCHANGED <<page, total, late, erased>> /\ pc = "items"
        BY <1>5 DEF LoadItems, ghosts
    <2> QED
        BY <1>1, <1>2, <2>4, <2>5
<1>6. CASE UNCHANGED pagesVars
    <2>1. UNCHANGED <<rows, content, page, pc, total, late, erased>>
        BY <1>6 DEF pagesVars, request, ghosts
    <2> QED
        BY <1>1, <1>2, <2>1 DEF Shown, IdsOf
<1> QED
    BY <1>3, <1>4, <1>5, <1>6, FillSelect DEF PagesNext

(***************************************************************************)
(* What was there when the walk began and is not shown yet is behind the   *)
(* place where it goes on (MissesInv).  If it is newer than a row of the   *)
(* page it is in front of that row, and thus on the page itself.           *)
(***************************************************************************)
LEMMA HolesSelect ==
    ASSUME PagesInv, Select
    PROVE  WalkWithoutHoles'
<1>1. /\ StoreInv /\ MissesInv /\ WalkWithoutHoles /\ page \in Nat \ {0} /\ PageSize \in Nat \ {0}
      /\ MaxIds \in Nat /\ since \in 1..(MaxIds + 1) /\ at \subseteq 1..MaxIds
      /\ seen \in [1..MaxIds -> Nat]
    BY SizeFacts DEF PagesInv, RequestInv, PagesTypeOK
<1>2. /\ \A i \in 1..MaxIds : seen'[i] = IF i \in rows' THEN seen[i] + 1 ELSE seen[i]
      /\ pc = "select" /\ Selections = page - 1 /\ UNCHANGED <<at, erased>>
    BY SelectFacts
<1>3. SUFFICES ASSUME ~ erased, NEW i \in at, NEW j \in 1..MaxIds, i > j, seen'[j] > 0
               PROVE  seen'[i] > 0
    BY <1>2 DEF WalkWithoutHoles
<1>4. i \in 1..MaxIds /\ seen[i] \in Nat /\ seen[j] \in Nat
    BY <1>1, <1>3
<1>5. CASE seen[i] > 0 \/ j \notin rows'
    BY <1>1, <1>2, <1>3, <1>4, <1>5 DEF WalkWithoutHoles
<1>6. CASE seen[i] = 0 /\ j \in rows'
    <2> DEFINE d == (page - 1) * PageSize
               e == page * PageSize
               m == Number(Admitted, i)
               n == Number(Admitted, j)
    <2>1. ~ Overflows
        BY <1>1, <1>3 DEF MissesInv
    <2>2. /\ d \in Nat /\ e = d + PageSize
          /\ rows' = {k \in Admitted : Number(Admitted, k) \in (d + 1)..e}
        BY <2>1, SelectFacts
    <2>3. Admitted = {k \in Ids : k \in since..until} /\ Admitted \in SUBSET Nat /\ IsFiniteSet(Admitted)
        BY <1>1, StoreFacts
    <2>4. j \in Admitted /\ n \in (d + 1)..e
        BY <1>6, <2>2
    <2>5. i >= since
        BY <1>1, <1>3, <1>4, <2>3, <2>4
    <2>6. i \in Admitted /\ m > d
        BY <1>1, <1>2, <1>3, <1>6, <2>5 DEF MissesInv
    <2>7. m \in Nat /\ n \in Nat /\ m < n
        BY <1>3, <1>4, <2>3, <2>4, <2>6, NumberFacts
    <2>8. m \in (d + 1)..e
        <3> HIDE DEF d, e, m, n
        <3> QED
            BY <1>1, <2>2, <2>4, <2>6, <2>7
    <2>9. i \in rows'
        BY <2>2, <2>6, <2>8
    <2> QED
        BY <1>2, <1>4, <2>9
<1> QED
    BY <1>4, <1>5, <1>6

LEMMA HolesSteps ==
    ASSUME PagesInv, [PagesNext]_pagesVars
    PROVE  WalkWithoutHoles'
<1>1. WalkWithoutHoles /\ erased \in BOOLEAN /\ at \subseteq 1..MaxIds
    BY DEF PagesInv, RequestInv, PagesTypeOK
<1>2. CASE Environment
    <2>1. UNCHANGED <<at, seen>> /\ (erased => erased')
        BY <1>2 DEF Environment
    <2> QED
        BY <1>1, <2>1 DEF WalkWithoutHoles
<1>3. CASE FirstPage \/ AnyPage \/ Stop
    <2>1. seen' = [i \in 1..MaxIds |-> 0]
        BY <1>3 DEF FirstPage, AnyPage, Asks, Stop
    <2>2. \A j \in 1..MaxIds : ~ (seen'[j] > 0)
        BY <2>1
    <2> QED
        BY <2>2 DEF WalkWithoutHoles
<1>4. CASE NextPage \/ Count \/ LoadItems \/ Answer \/ UNCHANGED pagesVars
    <2>1. UNCHANGED <<at, seen, erased>>
        BY <1>4 DEF NextPage, Count, LoadItems, Answer, pagesVars, ghosts
    <2> QED
        BY <1>1, <2>1 DEF WalkWithoutHoles
<1> QED
    BY <1>2, <1>3, <1>4, HolesSelect DEF PagesNext

LEMMA Initially ==
    ASSUME PagesInit
    PROVE  PagesInv
<1>1. /\ reports = {} /\ usedIds = [snapshots |-> 0, reports |-> 0]
      /\ openIds = [snapshots |-> {}, reports |-> {}]
      /\ pc = "idle" /\ page = 1 /\ total = 0
      /\ moving = FALSE /\ since = 1 /\ until = 0
      /\ rows = {} /\ content = {}
      /\ at = {} /\ seen = [i \in 1..MaxIds |-> 0] /\ saves = 0 /\ late = 0
      /\ erased = FALSE /\ saved = {}
    BY DEF PagesInit, Init
<1>2. PageSize \in Nat \ {0} /\ MaxIds \in Nat /\ MaxInt \in Nat
    BY SizeFacts
<1>3. IsFiniteSet({}) /\ Cardinality({}) = 0
    BY FS_EmptySet
<1>4. StoreInv
    BY <1>1, <1>2, <1>3 DEF StoreInv
<1>5. RequestInv
    <2>1. since \in 1..(MaxIds + 1) /\ until \in 0..MaxIds /\ page \in Nat \ {0} /\ total \in 0..MaxIds
        BY <1>1, <1>2
    <2>2. seen \in [1..MaxIds -> Nat] /\ saves \in Nat /\ late \in 0..saves
        BY <1>1
    <2>3. Cardinality(rows) + Cardinality(content) <= PageSize
        BY <1>1, <1>2, <1>3
    <2> QED
        BY <1>1, <1>3, <2>1, <2>2, <2>3 DEF RequestInv, PagesTypeOK
<1>6. RowsInv
    BY <1>1 DEF RowsInv, RowsWhole
<1>7. \A i \in 1..MaxIds : seen[i] = 0
    BY <1>1
<1>8. ShownInv
    BY <1>7 DEF ShownInv
<1>9. Repeats = {}
    BY <1>7 DEF Repeats
<1>10. Behind = {} /\ Coming = {}
    BY <1>1 DEF Behind, Admitted, InRange, IdsOf, Coming
<1>11. RepeatsInv
    BY <1>1, <1>3, <1>9, <1>10 DEF RepeatsInv
<1>12. MissesInv /\ FillInv /\ WalkWithoutHoles
    BY <1>1 DEF MissesInv, FillInv, WalkWithoutHoles
<1> QED
    BY <1>4, <1>5, <1>6, <1>8, <1>11, <1>12 DEF PagesInv

\* The invariant holds of every behaviour, however long it is.
LEMMA PagesInvariant == PagesSpec => []PagesInv
<1>1. PagesInit => PagesInv
    BY Initially
<1>2. PagesInv /\ [PagesNext]_pagesVars => PagesInv'
    BY StoreSteps, RequestSteps, RowsSteps, ShownSteps, RepeatsSteps, MissesSteps, FillSteps, HolesSteps
    DEF PagesInv
<1> QED
    BY <1>1, <1>2, PTL DEF PagesSpec

-----------------------------------------------------------------------------
(***************************************************************************)
(* Type correctness.  No page is longer than its size, whatever is saved   *)
(* or erased while it is put together.                                     *)
(***************************************************************************)
THEOREM PagesTypeCorrect == PagesSpec => []PagesTypeOK
<1>1. PagesInv => PagesTypeOK
    BY DEF PagesInv, RequestInv
<1> QED
    BY <1>1, PagesInvariant, PTL

(***************************************************************************)
(* A consolidation is shown with all of its workloads, or it was erased.   *)
(***************************************************************************)
THEOREM PagesShowWholeReports == PagesSpec => []RowsWhole
<1>1. PagesInv => RowsWhole
    BY DEF PagesInv, RowsInv
<1> QED
    BY <1>1, PagesInvariant, PTL

(***************************************************************************)
(* A walk to the end misses no more than was saved between the COUNT and   *)
(* the SELECT of its last page.                                            *)
(***************************************************************************)
THEOREM WalksMissOnlyLate == PagesSpec => []MissesOnlyLate
<1>1. ASSUME PagesInv
      PROVE  MissesOnlyLate
    <2> SUFFICES ASSUME Finished, ~ erased
                 PROVE  Cardinality({i \in at : i >= since /\ seen[i] = 0}) <= late
        BY DEF MissesOnlyLate
    <2>1. /\ StoreInv /\ MissesInv /\ page \in Nat \ {0} /\ total \in 0..MaxIds /\ late \in Nat
          /\ MaxIds \in Nat /\ PageSize \in Nat \ {0}
        BY <1>1, SizeFacts DEF PagesInv, RequestInv, PagesTypeOK
    <2>2. pc = "answered" /\ ~ (page < TotalPages(total, PageSize))
        BY DEF Finished, HasNext
    <2> DEFINE d == page * PageSize
               c == Cardinality(Admitted)
               Missed == {i \in at : i >= since /\ seen[i] = 0}
               Last == {i \in Admitted : Number(Admitted, i) \in (d + 1)..c}
    <2>3. d \in Nat /\ ~ (d < total)
        BY <2>1, <2>2, NextPageExists, Products
    <2>4. c = total + late /\ c \in Nat
        BY <2>1, <2>2, StoreFacts DEF MissesInv
    <2>5. Admitted \in SUBSET Nat /\ IsFiniteSet(Admitted)
        BY <2>1, StoreFacts
    <2>6. \A i \in Admitted : Number(Admitted, i) \in 1..c
        BY <2>5, NumberFacts
    <2>7. Selections * PageSize = d
        BY <2>2 DEF Selections
    <2>8. \A i \in Missed : i \in Admitted /\ Number(Admitted, i) > d
        BY <2>1, <2>7 DEF MissesInv
    <2>9. IsFiniteSet(Last) /\ Cardinality(Last) = IF d <= c THEN c - d ELSE 0
        <3>1. c <= Cardinality(Admitted)
            BY <2>4
        <3> HIDE DEF d
        <3> QED
            BY <2>3, <2>4, <2>5, <3>1, Counted
    <2> HIDE DEF d, c
    <2>10. \A i \in Missed : i \in Last
        BY <2>3, <2>4, <2>6, <2>8
    <2>11. Missed \subseteq Last
        BY <2>10
    <2> HIDE DEF Missed, Last
    <2>12. Cardinality(Missed) <= Cardinality(Last) /\ Cardinality(Missed) \in Nat
        BY <2>9, <2>11, FS_Subset, FS_CardinalityType
    <2>13. Cardinality(Last) <= late
        BY <2>1, <2>3, <2>4, <2>9
    <2>14. Cardinality(Last) \in Nat
        BY <2>9, FS_CardinalityType
    <2>15. Cardinality(Missed) <= late
        BY <2>1, <2>12, <2>13, <2>14
    <2> QED
        BY <2>15 DEF Missed
<1> QED
    BY <1>1, PagesInvariant, PTL

(***************************************************************************)
(* Each repetition is due to a save of its own.                            *)
(***************************************************************************)
THEOREM WalksRepeatOnlyForSaves == PagesSpec => []RepeatsBounded
<1>1. ASSUME PagesInv
      PROVE  RepeatsBounded
    <2> SUFFICES ASSUME ~ erased
                 PROVE  Cardinality(Repeats) <= saves
        BY DEF RepeatsBounded
    <2>1. StoreInv /\ RepeatsInv /\ saves \in Nat
        BY <1>1 DEF PagesInv, RequestInv, PagesTypeOK
    <2>2. CASE Overflows
        BY <2>1, <2>2, FS_EmptySet DEF RepeatsInv
    <2>3. CASE ~ Overflows
        <3>1. Cardinality(Repeats) \in Nat /\ Cardinality(Behind) \in Nat /\ Cardinality(Coming) \in Nat
            BY <2>1, BoundFacts, FS_CardinalityType DEF RepeatsInv
        <3>2. Cardinality(Repeats) + Cardinality(Behind) + Cardinality(Coming) <= saves
            BY <2>1, <2>3 DEF RepeatsInv
        <3> QED
            BY <2>1, <3>1, <3>2
    <2> QED
        BY <2>2, <2>3
<1> QED
    BY <1>1, PagesInvariant, PTL

(***************************************************************************)
(* Of what was there when it began, a walk has shown all that is newer     *)
(* than anything it has shown.                                             *)
(***************************************************************************)
THEOREM WalksLeaveNoHole == PagesSpec => []WalkWithoutHoles
<1>1. PagesInv => WalkWithoutHoles
    BY DEF PagesInv
<1> QED
    BY <1>1, PagesInvariant, PTL

(***************************************************************************)
(* A page that its answer counts among the totalPages is not refused, and  *)
(* it is filled from what was counted.  Its offset cannot overflow because *)
(* it is smaller than the number of reports.                               *)
(***************************************************************************)
THEOREM ExistingPagesAreFilled == PagesSpec => []ExistingPageShown
<1>1. ASSUME PagesInv
      PROVE  ExistingPageShown
    <2> DEFINE d == (page - 1) * PageSize
    <2>1. /\ FillInv /\ page \in Nat \ {0} /\ total \in 0..MaxIds /\ late \in Nat
          /\ PageSize \in Nat \ {0} /\ MaxIds \in Nat /\ MaxInt \in Nat /\ MaxIds <= MaxInt
        BY <1>1, SizeFacts DEF PagesInv, RequestInv, PagesTypeOK
    <2>2. d \in Nat
        BY <2>1, Products
    <2> SUFFICES ASSUME page <= TotalPages(total, PageSize)
                 PROVE  /\ pc = "select" => Offset(page, PageSize) >= 0
                        /\ pc = "items" /\ ~ erased =>
                              Cardinality(Shown) \in
                                  Least(PageSize, total - d)..Least(PageSize, total - d + late)
        BY DEF ExistingPageShown, Shown
    <2>3. d <= total
        <3>1. CASE page = 1
            <4>1. d = 0
                BY <2>1, <3>1
            <4> HIDE DEF d
            <4> QED
                BY <2>1, <4>1
        <3>2. CASE page # 1
            <4>1. page - 1 \in Nat \ {0} /\ total \in Nat
                BY <2>1, <3>2
            <4>2. TotalPages(total, PageSize) \in Nat
                BY <2>1 DEF TotalPages
            <4>3. page - 1 < TotalPages(total, PageSize)
                BY <2>1, <4>2
            <4>4. d < total
                BY <4>1, <4>3, NextPageExists
            <4> HIDE DEF d
            <4> QED
                BY <2>1, <2>2, <4>4
        <3> QED
            BY <3>1, <3>2
    <2>4. d <= MaxInt /\ ~ Overflows
        <3>1. Overflows <=> d > MaxInt
            BY DEF Overflows
        <3> HIDE DEF d
        <3> QED
            BY <2>1, <2>2, <2>3, <3>1
    <2>5. Offset(page, PageSize) >= 0
        <3>1. Offset(page, PageSize) = d
            BY <2>1, <2>4, OffsetFits
        <3> HIDE DEF d
        <3> QED
            BY <2>2, <3>1
    <2>6. Rest(total) = total - d /\ Rest(total + late) = total - d + late
        <3>1. \A k \in Nat : Rest(k) = IF k > d THEN k - d ELSE 0
            BY DEF Rest
        <3> HIDE DEF d
        <3> QED
            BY <2>1, <2>2, <2>3, <3>1
    <2> QED
        BY <2>1, <2>4, <2>5, <2>6 DEF FillInv
<1> QED
    BY <1>1, PagesInvariant, PTL
=============================================================================
