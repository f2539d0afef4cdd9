---------------------------- MODULE LocksProofs ----------------------------
(***************************************************************************)
(* Proofs about module Locks, for any number of sessions, whatever each of *)
(* them may run.                                                           *)
(***************************************************************************)
EXTENDS Locks, SequenceTheorems, WellFoundedInduction, TLAPS

-----------------------------------------------------------------------------
(***************************************************************************)
(* Sequences without repetition, as queues are.                            *)
(***************************************************************************)
In(e, q) == \E i \in DOMAIN q : q[i] = e
Once(q) == \A i, j \in DOMAIN q : q[i] = q[j] => i = j

LEMMA AppendedOnce ==
    ASSUME NEW S, NEW q \in Seq(S), NEW e \in S, Once(q), ~ In(e, q)
    PROVE  /\ Append(q, e) \in Seq(S)
           /\ Once(Append(q, e))
           /\ \A x : In(x, Append(q, e)) <=> In(x, q) \/ x = e
<1> DEFINE g == Append(q, e)
           n == Len(q)
<1>1. /\ g \in Seq(S) /\ Len(g) = n + 1 /\ n \in Nat
      /\ \A i \in 1..n : g[i] = q[i]
      /\ g[n + 1] = e
      /\ DOMAIN q = 1..n /\ DOMAIN g = 1..(n + 1)
    OBVIOUS
<1> HIDE DEF g, n
<1>2. \A i \in 1..n : q[i] # e
    BY <1>1 DEF In
<1>3. Once(g)
    BY <1>1, <1>2 DEF Once
<1>4. ASSUME NEW x
      PROVE  In(x, g) <=> In(x, q) \/ x = e
    BY <1>1 DEF In
<1> QED
    BY <1>1, <1>3, <1>4 DEF g

LEMMA RemoveAtIndex ==
    ASSUME NEW S, NEW q \in Seq(S), NEW k \in 1..Len(q)
    PROVE  LET g == RemoveAt(q, k) IN
           /\ g \in Seq(S)
           /\ Len(g) = Len(q) - 1
           /\ \A j \in 1..(Len(q) - 1) : g[j] = IF j < k THEN q[j] ELSE q[j + 1]
<1> DEFINE a == SubSeq(q, 1, k - 1)
           b == SubSeq(q, k + 1, Len(q))
           n == Len(q)
<1>1. n \in Nat /\ k \in 1..n
    OBVIOUS
<1>2. /\ a \in Seq(S) /\ Len(a) = k - 1
      /\ \A j \in 1..(k - 1) : a[j] = q[j]
    BY <1>1
<1>3. /\ b \in Seq(S) /\ Len(b) = n - k
      /\ \A j \in 1..(n - k) : b[j] = q[j + k]
    BY <1>1
<1> HIDE DEF a, b, n
<1>4. /\ a \o b \in Seq(S)
      /\ Len(a \o b) = n - 1
    <2>1. a \o b \in Seq(S) /\ Len(a \o b) = Len(a) + Len(b)
        BY <1>2, <1>3, ConcatProperties
    <2>2. Len(a) + Len(b) = n - 1
        BY <1>1, <1>2, <1>3
    <2> QED
        BY <2>1, <2>2
<1>5. ASSUME NEW j \in 1..(n - 1)
      PROVE  (a \o b)[j] = IF j < k THEN q[j] ELSE q[j + 1]
    <2>1. CASE j < k
        BY <2>1, <1>1, <1>2, <1>3
    <2>2. CASE ~ (j < k)
        <3>1. j - (k - 1) \in 1..(n - k) /\ j \in 1..(Len(a) + Len(b)) /\ ~ (j <= Len(a))
            BY <2>2, <1>1, <1>2, <1>3
        <3>2. (a \o b)[j] = b[j - (k - 1)]
            BY <3>1, <1>2, <1>3
        <3>3. b[j - (k - 1)] = q[j - (k - 1) + k] /\ j - (k - 1) + k = j + 1
            BY <3>1, <1>1, <1>3
        <3> QED
            BY <2>2, <3>2, <3>3
    <2> QED
        BY <2>1, <2>2
<1> QED
    BY <1>4, <1>5 DEF RemoveAt, a, b, n

LEMMA RemovedOnce ==
    ASSUME NEW S, NEW q \in Seq(S), NEW e, Once(q)
    PROVE  /\ RemoveFirst(q, e) \in Seq(S)
           /\ Once(RemoveFirst(q, e))
           /\ \A x : In(x, RemoveFirst(q, e)) <=> In(x, q) /\ x # e
<1> DEFINE n == Len(q)
<1>0. DOMAIN q = 1..n /\ n \in Nat
    OBVIOUS
<1>1. CASE ~ In(e, q)
    <2>1. RemoveFirst(q, e) = q
        BY <1>0, <1>1 DEF RemoveFirst, In
    <2> QED
        BY <1>1, <2>1 DEF In
<1>2. CASE In(e, q)
    <2>1. PICK k \in 1..n : q[k] = e
        BY <1>0, <1>2 DEF In
    <2>2. \A j \in 1..n : q[j] = e => j = k
        BY <1>0, <2>1 DEF Once
    <2>3. {j \in 1..Len(q) : q[j] = e} = {k}
        BY <2>1, <2>2
    <2>4. Min({k}) = k
        BY <1>0 DEF Min
    <2>5. SelectInSeq(q, LAMBDA v : v = e) = k
        BY <2>3, <2>4 DEF SelectInSeq
    <2>6. RemoveFirst(q, e) = RemoveAt(q, k)
        BY <2>1, <2>5 DEF RemoveFirst
    <2> DEFINE g == RemoveAt(q, k)
    <2>7. /\ g \in Seq(S)
          /\ Len(g) = n - 1
          /\ \A j \in 1..(n - 1) : g[j] = IF j < k THEN q[j] ELSE q[j + 1]
          /\ DOMAIN g = 1..(n - 1)
        BY RemoveAtIndex
    <2> HIDE DEF g, n
    <2>8. Once(g)
        <3> SUFFICES ASSUME NEW i \in 1..(n - 1), NEW j \in 1..(n - 1), g[i] = g[j]
                     PROVE  i = j
            BY <2>7 DEF Once
        <3> DEFINE up(l) == IF l < k THEN l ELSE l + 1
        <3>1. up(i) \in 1..n /\ up(j) \in 1..n /\ q[up(i)] = g[i] /\ q[up(j)] = g[j]
            BY <1>0, <2>7
        <3>2. up(i) = up(j)
            BY <1>0, <3>1 DEF Once
        <3> QED
            BY <3>2
    <2>9. ASSUME NEW x
          PROVE  In(x, g) <=> In(x, q) /\ x # e
        <3>1. ASSUME NEW i \in 1..(n - 1)
              PROVE  /\ (IF i < k THEN i ELSE i + 1) \in 1..n
                     /\ (IF i < k THEN i ELSE i + 1) # k
                     /\ g[i] = q[IF i < k THEN i ELSE i + 1]
            BY <1>0, <2>7
        <3>2. ASSUME NEW i \in 1..n, i # k
              PROVE  /\ (IF i < k THEN i ELSE i - 1) \in 1..(n - 1)
                     /\ g[IF i < k THEN i ELSE i - 1] = q[i]
            BY <1>0, <2>1, <2>7, <3>2
        <3>3. In(x, g) => In(x, q) /\ x # e
            BY <1>0, <2>2, <2>7, <3>1 DEF In
        <3>4. In(x, q) /\ x # e => In(x, g)
            BY <1>0, <2>1, <2>7, <3>2 DEF In
        <3> QED
            BY <3>3, <3>4
    <2> QED
        BY <2>6, <2>7, <2>8, <2>9 DEF g
<1> QED
    BY <1>1, <1>2

(***************************************************************************)
(* A set of naturals that is not empty has a least element.                *)
(***************************************************************************)
LEMMA LeastExists ==
    ASSUME NEW T \in SUBSET Nat, T # {}
    PROVE  \E n \in T : \A m \in T : n <= m
<1> DEFINE L == OpToRel(<, Nat)
<1>1. IsWellFoundedOn(L, Nat)
    BY NatLessThanWellFounded
<1>2. \A m, n \in Nat : m < n => <<m, n>> \in L
    BY DEF OpToRel
<1> HIDE DEF L
<1>3. PICK n \in T : \A m \in T : ~ (<<m, n>> \in L)
    BY <1>1, WFMin
<1>4. \A m \in T : ~ (m < n)
    BY <1>2, <1>3
<1> QED
    BY <1>3, <1>4
-----------------------------------------------------------------------------
(***************************************************************************)
(* The inductive invariant.  A session is at some place of a plan of its   *)
(* transaction: it holds what comes before, and has what comes after still *)
(* to lock.  It waits, once, for the next table of its plan.  Conflicting  *)
(* sessions hold no table in common.                                       *)
(***************************************************************************)
AtPlace(s) ==
    IF txn[s] = "none" THEN plan[s] = <<>> /\ held[s] = {}
    ELSE \E p \in Plans(txn[s]) : \E i \in 0..Len(p) :
            /\ plan[s] = SubSeq(p, i + 1, Len(p))
            /\ held[s] = {p[j] : j \in 1..i}

WaitsOnce == \A t \in Tables : Once(queue[t])

Excluded ==
    \A s, r \in Sessions, t \in Tables : t \in held[s] /\ t \in held[r] => ~ Conflict(s, r)

LockInv ==
    /\ TypeOK
    /\ \A s \in Sessions : AtPlace(s)
    /\ WaitsOnce
    /\ Excluded

LEMMA WaitingIsIn == \A s, t : Waiting(s, t) <=> In(s, queue[t])
    BY DEF Waiting, In

LEMMA PlansType ==
    ASSUME NEW k \in Kinds, NEW p \in Plans(k)
    PROVE  p \in Seq(Tables)
<1>1. CASE k = "read"
    <2>1. PICK t \in Tables : p = <<t>>
        BY <1>1 DEF Plans, ReadLocks
    <2> QED
        BY <2>1
<1>2. CASE k # "read"
    <2>1. p \in SnapshotLocks \cup ConsolidationLocks \cup DetailsLocks \cup EraseLocks \cup ExtendLocks
        BY <1>2 DEF Kinds, Plans, CpuMemoryLocks
    <2>2. /\ "scrapes" \in Tables /\ "indicators" \in Tables /\ "items" \in Tables
          /\ "consolidations" \in Tables /\ "workloads" \in Tables
        BY DEF Tables
    <2>3. SnapshotLocks \subseteq Seq(Tables) /\ ConsolidationLocks \subseteq Seq(Tables)
        BY <2>2 DEF SnapshotLocks, ConsolidationLocks
    <2>4. DetailsLocks \subseteq Seq(Tables)
        BY <2>2 DEF DetailsLocks
    <2>5. EraseLocks \subseteq Seq(Tables)
        BY <2>2 DEF EraseLocks
    <2>6. ExtendLocks \subseteq Seq(Tables)
        BY <2>2 DEF ExtendLocks
    <2> QED
        BY <2>1, <2>3, <2>4, <2>5, <2>6
<1> QED
    BY <1>1, <1>2

LEMMA LockInit == Init => LockInv
<1> SUFFICES ASSUME Init
             PROVE  LockInv
    OBVIOUS
<1>1. \A t \in Tables : DOMAIN queue[t] = {}
    BY DEF Init
<1>2. TypeOK
    BY <1>1 DEF Init, TypeOK, Waiting
<1>3. WaitsOnce
    BY <1>1 DEF WaitsOnce, Once
<1> QED
    BY <1>2, <1>3 DEF Init, LockInv, AtPlace, Excluded

(***************************************************************************)
(* From one place of a plan to the next.                                   *)
(***************************************************************************)
LEMMA NextPlace ==
    ASSUME NEW S, NEW p \in Seq(S), NEW i \in 0..Len(p), SubSeq(p, i + 1, Len(p)) # <<>>
    PROVE  /\ i < Len(p)
           /\ Head(SubSeq(p, i + 1, Len(p))) = p[i + 1]
           /\ Tail(SubSeq(p, i + 1, Len(p))) = SubSeq(p, i + 2, Len(p))
           /\ {p[j] : j \in 1..(i + 1)} = {p[j] : j \in 1..i} \cup {p[i + 1]}
<1> DEFINE n == Len(p)
           q == SubSeq(p, i + 1, n)
<1>1. n \in Nat /\ i \in 0..n
    OBVIOUS
<1>2. /\ q \in Seq(S) /\ Len(q) = IF i + 1 <= n THEN n - i ELSE 0
      /\ \A j \in 1..(n - i) : q[j] = p[i + j]
    BY <1>1
<1>3. i < n
    BY <1>1, <1>2
<1>4. Head(q) = p[i + 1]
    BY <1>1, <1>2, <1>3
<1>5. Tail(q) = SubSeq(p, i + 2, n)
    <2> DEFINE u == Tail(q)
               v == SubSeq(p, i + 2, n)
    <2>1. /\ u \in Seq(S) /\ Len(u) = n - i - 1
          /\ \A j \in 1..(n - i - 1) : u[j] = q[j + 1]
        BY <1>1, <1>2, <1>3
    <2>2. /\ v \in Seq(S) /\ Len(v) = n - i - 1
          /\ \A j \in 1..(n - i - 1) : v[j] = p[i + 1 + j]
        BY <1>1, <1>3
    <2> HIDE DEF u, v, q, n
    <2>3. \A j \in 1..(n - i - 1) : u[j] = v[j]
        BY <1>1, <1>2, <1>3, <2>1, <2>2
    <2>4. u = v
        BY <2>1, <2>2, <2>3, SeqEqual
    <2> QED
        BY <2>4 DEF u, v
<1>6. {p[j] : j \in 1..(i + 1)} = {p[j] : j \in 1..i} \cup {p[i + 1]}
    BY <1>1
<1> QED
    BY <1>3, <1>4, <1>5, <1>6
-----------------------------------------------------------------------------
(***************************************************************************)
(* The steps.                                                              *)
(***************************************************************************)
LEMMA BeginStep == ASSUME LockInv, NEW s \in Sessions, Begin(s)  PROVE LockInv'
<1>1. PICK k \in Can[s] : /\ txn' = [txn EXCEPT ![s] = k]
                          /\ \E p \in Plans(k) : plan' = [plan EXCEPT ![s] = p]
    BY DEF Begin
<1>2. PICK p \in Plans(k) : plan' = [plan EXCEPT ![s] = p]
    BY <1>1
<1>3. k \in Kinds /\ k # "none" /\ p \in Seq(Tables)
    <2>1. k \in Kinds
        BY <1>1, CanAssumption
    <2> QED
        BY <2>1, PlansType DEF Kinds
<1>4. plan[s] = <<>> /\ held[s] = {} /\ UNCHANGED <<held, queue>>
    BY DEF LockInv, AtPlace, Begin
<1>5. TypeOK'
    <2>1. \A t \in Tables : ~ Waiting(s, t)
        BY <1>4 DEF LockInv, TypeOK
    <2>2. \A x \in Sessions, t \in Tables : Waiting(x, t)' => plan'[x] # <<>> /\ Head(plan'[x]) = t
        BY <1>2, <1>4, <2>1 DEF LockInv, TypeOK, Waiting
    <2> QED
        BY <1>1, <1>2, <1>3, <1>4, <2>2 DEF LockInv, TypeOK
<1>6. ASSUME NEW x \in Sessions  PROVE AtPlace(x)'
    <2>1. CASE x # s
        <3>1. txn'[x] = txn[x] /\ plan'[x] = plan[x] /\ held'[x] = held[x]
            BY <1>1, <1>2, <1>4, <2>1 DEF LockInv, TypeOK
        <3>2. AtPlace(x)
            BY DEF LockInv
        <3> QED
            BY <3>1, <3>2 DEF AtPlace
    <2>2. CASE x = s
        <3>1. txn'[x] = k /\ plan'[x] = p /\ held'[x] = {}
            BY <1>1, <1>2, <1>4, <2>2 DEF LockInv, TypeOK
        <3>2. p = SubSeq(p, 1, Len(p)) /\ Len(p) \in Nat
            BY <1>3
        <3>3. {} = {p[j] : j \in 1..0}
            OBVIOUS
        <3>4. \E i \in 0..Len(p) : p = SubSeq(p, i + 1, Len(p)) /\ {} = {p[j] : j \in 1..i}
            <4>1. 0 \in 0..Len(p) /\ 0 + 1 = 1
                BY <3>2
            <4> QED
                BY <3>2, <3>3, <4>1
        <3> QED
            BY <1>2, <1>3, <3>1, <3>4 DEF AtPlace
    <2> QED
        BY <2>1, <2>2
<1>7. WaitsOnce'
    BY <1>4 DEF LockInv, WaitsOnce
<1>8. Excluded'
    BY <1>1, <1>4 DEF LockInv, TypeOK, Excluded, Conflict
<1> QED
    BY <1>5, <1>6, <1>7, <1>8 DEF LockInv

LEMMA RequestStep == ASSUME LockInv, NEW s \in Sessions, Request(s)  PROVE LockInv'
<1> DEFINE t == Head(plan[s])
<1>1. plan[s] # <<>> /\ t \in Tables /\ UNCHANGED <<txn, plan, held>>
    BY DEF LockInv, TypeOK, Request
<1>2. ~ In(s, queue[t]) /\ queue' = [queue EXCEPT ![t] = Append(@, s)]
    BY <1>1, WaitingIsIn DEF Request, Waits
<1> HIDE DEF t
<1>3. ASSUME NEW u \in Tables
      PROVE  /\ queue'[u] \in Seq(Sessions)
             /\ Once(queue'[u])
             /\ \A x : In(x, queue'[u]) => In(x, queue[u]) \/ (x = s /\ u = t)
    <2>1. CASE u # t
        BY <1>2, <2>1 DEF LockInv, TypeOK, WaitsOnce
    <2>2. CASE u = t
        <3>1. queue'[u] = Append(queue[t], s) /\ queue[t] \in Seq(Sessions) /\ Once(queue[t])
            BY <1>1, <1>2, <2>2 DEF LockInv, TypeOK, WaitsOnce
        <3> QED
            BY <1>2, <2>2, <3>1, AppendedOnce
    <2> QED
        BY <2>1, <2>2
<1>4. TypeOK'
    <2>1. queue' \in [Tables -> Seq(Sessions)]
        BY <1>2, <1>3 DEF LockInv, TypeOK
    <2>2. ASSUME NEW x \in Sessions, NEW u \in Tables, Waiting(x, u)'
          PROVE  plan[x] # <<>> /\ Head(plan[x]) = u
        <3>1. In(x, queue'[u])
            BY <2>2 DEF Waiting, In
        <3>2. Waiting(x, u) \/ (x = s /\ u = t)
            BY <1>3, <3>1, WaitingIsIn
        <3> QED
            BY <1>1, <3>2 DEF LockInv, TypeOK, t
    <2> QED
        BY <1>1, <2>1, <2>2 DEF LockInv, TypeOK
<1>5. WaitsOnce'
    BY <1>3 DEF WaitsOnce
<1>6. (\A x \in Sessions : AtPlace(x))' /\ Excluded'
    BY <1>1 DEF LockInv, AtPlace, Excluded, Conflict
<1> QED
    BY <1>4, <1>5, <1>6 DEF LockInv

LEMMA GrantStep == ASSUME LockInv, NEW s \in Sessions, Grant(s)  PROVE LockInv'
<1> DEFINE t == Head(plan[s])
<1>1. /\ plan[s] # <<>> /\ t \in Tables /\ Waiting(s, t)
      /\ \A u \in Tables : Waiting(s, u) => u = t
    BY DEF LockInv, TypeOK, Grant, Waits
<1>2. /\ held' = [held EXCEPT ![s] = @ \cup {t}]
      /\ plan' = [plan EXCEPT ![s] = Tail(@)]
      /\ queue' = [queue EXCEPT ![t] = RemoveFirst(@, s)]
      /\ txn' = txn
    BY DEF Grant
<1>3. ASSUME NEW u \in Tables
      PROVE  /\ queue'[u] \in Seq(Sessions)
             /\ Once(queue'[u])
             /\ \A x : In(x, queue'[u]) => In(x, queue[u]) /\ x # s
    <2> HIDE DEF t
    <2>1. CASE u # t
        BY <1>1, <1>2, <2>1, WaitingIsIn DEF LockInv, TypeOK, WaitsOnce
    <2>2. CASE u = t
        <3>1. queue'[u] = RemoveFirst(queue[t], s) /\ queue[t] \in Seq(Sessions) /\ Once(queue[t])
            BY <1>1, <1>2, <2>2 DEF LockInv, TypeOK, WaitsOnce
        <3> QED
            BY <2>2, <3>1, RemovedOnce
    <2> QED
        BY <2>1, <2>2
<1>4. TypeOK'
    <2>1. queue' \in [Tables -> Seq(Sessions)]
        BY <1>2, <1>3 DEF LockInv, TypeOK
    <2>2. ASSUME NEW x \in Sessions, NEW u \in Tables, Waiting(x, u)'
          PROVE  plan'[x] # <<>> /\ Head(plan'[x]) = u
        <3>1. In(x, queue'[u])
            BY <2>2 DEF Waiting, In
        <3>2. Waiting(x, u) /\ x # s
            BY <1>3, <3>1, WaitingIsIn
        <3> QED
            BY <1>2, <3>2 DEF LockInv, TypeOK
    <2>3. plan' \in [Sessions -> Seq(Tables)]
        <3>1. Tail(plan[s]) \in Seq(Tables)
            BY <1>1 DEF LockInv, TypeOK
        <3> QED
            BY <1>2, <3>1 DEF LockInv, TypeOK
    <2> QED
        BY <1>1, <1>2, <2>1, <2>2, <2>3 DEF LockInv, TypeOK
<1>5. ASSUME NEW x \in Sessions  PROVE AtPlace(x)'
    <2>1. CASE x # s
        <3>1. txn'[x] = txn[x] /\ plan'[x] = plan[x] /\ held'[x] = held[x]
            BY <1>2, <2>1 DEF LockInv, TypeOK
        <3> QED
            BY <3>1 DEF LockInv, AtPlace
    <2>2. CASE x = s
        <3>1. txn[s] # "none" /\ txn[s] \in Kinds
            BY <1>1 DEF LockInv, AtPlace, TypeOK
        <3>0. PICK p \in Plans(txn[s]) : \E i \in 0..Len(p) :
                /\ plan[s] = SubSeq(p, i + 1, Len(p))
                /\ held[s] = {p[j] : j \in 1..i}
            BY <3>1 DEF LockInv, AtPlace
        <3>2. PICK i \in 0..Len(p) : /\ plan[s] = SubSeq(p, i + 1, Len(p))
                                     /\ held[s] = {p[j] : j \in 1..i}
            BY <3>0
        <3>3. p \in Seq(Tables)
            BY <3>1, PlansType
        <3>4. /\ i < Len(p)
              /\ t = p[i + 1]
              /\ Tail(plan[s]) = SubSeq(p, i + 2, Len(p))
              /\ {p[j] : j \in 1..(i + 1)} = {p[j] : j \in 1..i} \cup {p[i + 1]}
            BY <1>1, <3>2, <3>3, NextPlace
        <3>5. /\ txn'[x] = txn[s]
              /\ plan'[x] = SubSeq(p, i + 2, Len(p))
              /\ held'[x] = {p[j] : j \in 1..(i + 1)}
            BY <1>2, <2>2, <3>2, <3>4 DEF LockInv, TypeOK
        <3>6. i + 1 \in 0..Len(p) /\ (i + 1) + 1 = i + 2
            BY <3>3, <3>4
        <3> QED
            BY <3>1, <3>2, <3>5, <3>6 DEF AtPlace
    <2> QED
        BY <2>1, <2>2
<1>6. WaitsOnce'
    BY <1>3 DEF WaitsOnce
<1>7. Excluded'
    <2>1. \A r \in Sessions : Conflict(s, r) => t \notin held[r]
        BY <1>1 DEF Grant, WaitsFor
    <2>2. ASSUME NEW x \in Sessions, NEW u \in Tables, u \in held'[x]
          PROVE  u \in held[x] \/ (x = s /\ u = t)
        BY <1>2, <2>2 DEF LockInv, TypeOK
    <2> HIDE DEF t
    <2> SUFFICES ASSUME NEW x \in Sessions, NEW r \in Sessions, NEW u \in Tables,
                        u \in held'[x], u \in held'[r]
                 PROVE  ~ Conflict(x, r)
        BY <1>2 DEF Excluded, Conflict
    <2> QED
        BY <2>1, <2>2 DEF LockInv, Excluded, Conflict
<1> QED
    BY <1>4, <1>5, <1>6, <1>7 DEF LockInv

LEMMA ReleaseStep == ASSUME LockInv, NEW s \in Sessions, Release(s)  PROVE LockInv'
<1>1. /\ txn' = [txn EXCEPT ![s] = "none"]
      /\ plan' = [plan EXCEPT ![s] = <<>>]
      /\ held' = [held EXCEPT ![s] = {}]
      /\ queue' = [t \in Tables |-> RemoveFirst(queue[t], s)]
    BY DEF Release
<1>2. ASSUME NEW u \in Tables
      PROVE  /\ queue'[u] \in Seq(Sessions)
             /\ Once(queue'[u])
             /\ \A x : In(x, queue'[u]) => In(x, queue[u]) /\ x # s
    <2>1. queue'[u] = RemoveFirst(queue[u], s) /\ queue[u] \in Seq(Sessions) /\ Once(queue[u])
        BY <1>1 DEF LockInv, TypeOK, WaitsOnce
    <2> QED
        BY <2>1, RemovedOnce
<1>3. TypeOK'
    <2>1. queue' \in [Tables -> Seq(Sessions)]
        BY <1>1, <1>2 DEF LockInv, TypeOK
    <2>2. ASSUME NEW x \in Sessions, NEW u \in Tables, Waiting(x, u)'
          PROVE  plan'[x] # <<>> /\ Head(plan'[x]) = u
        <3>1. In(x, queue'[u])
            BY <2>2 DEF Waiting, In
        <3>2. Waiting(x, u) /\ x # s
            BY <1>2, <3>1, WaitingIsIn
        <3> QED
            BY <1>1, <3>2 DEF LockInv, TypeOK
    <2> QED
        BY <1>1, <2>1, <2>2 DEF LockInv, TypeOK
<1>4. ASSUME NEW x \in Sessions  PROVE AtPlace(x)'
    BY <1>1 DEF LockInv, TypeOK, AtPlace
<1>5. WaitsOnce'
    BY <1>2 DEF WaitsOnce
<1>6. Excluded'
    BY <1>1 DEF LockInv, TypeOK, Excluded, Conflict
<1> QED
    BY <1>3, <1>4, <1>5, <1>6 DEF LockInv

LEMMA LockStep == LockInv /\ [Next]_vars => LockInv'
<1> SUFFICES ASSUME LockInv, [Next]_vars
             PROVE  LockInv'
    OBVIOUS
<1>1. ASSUME NEW s \in Sessions, Begin(s) \/ Request(s) \/ Grant(s) \/ Commit(s) \/ Fails(s)
      PROVE  LockInv'
    BY <1>1, BeginStep, RequestStep, GrantStep, ReleaseStep DEF Commit, Fails
<1>2. CASE DeadlockAborts
    <2>1. PICK s \in Sessions : Release(s)
        BY <1>2 DEF DeadlockAborts, Circles
    <2> QED
        BY <2>1, ReleaseStep
<1>3. CASE UNCHANGED vars
    BY <1>3 DEF vars, LockInv, TypeOK, Waiting, AtPlace, WaitsOnce, Excluded, Conflict
<1> QED
    BY <1>1, <1>2, <1>3 DEF Next

(***************************************************************************)
(* Type correctness: who waits for a table has it as the next of its plan. *)
(***************************************************************************)
THEOREM TypeCorrect == Spec => []TypeOK
<1>1. LockInv => TypeOK
    BY DEF LockInv
<1> QED
    BY <1>1, LockInit, LockStep, PTL DEF Spec
-----------------------------------------------------------------------------
(***************************************************************************)
(* Where a session that waits can be: the table and what it holds.         *)
(***************************************************************************)
Erasing == {"reset", "cpuMemory"}

LEMMA WaitingPlace ==
    ASSUME LockInv, NEW s \in Sessions, NEW t \in Tables, Waiting(s, t)
    PROVE  /\ txn[s] \in Kinds
           /\ \E p \in Plans(txn[s]) : \E i \in 0..Len(p) :
                /\ i < Len(p) /\ t = p[i + 1] /\ held[s] = {p[j] : j \in 1..i}
<1>1. plan[s] # <<>> /\ Head(plan[s]) = t
    BY DEF LockInv, TypeOK
<1>2. txn[s] # "none" /\ txn[s] \in Kinds /\ AtPlace(s)
    BY <1>1 DEF LockInv, TypeOK, AtPlace
<1>3. PICK p \in Plans(txn[s]) : \E i \in 0..Len(p) :
            /\ plan[s] = SubSeq(p, i + 1, Len(p))
            /\ held[s] = {p[j] : j \in 1..i}
    BY <1>2 DEF AtPlace
<1>4. PICK i \in 0..Len(p) : /\ plan[s] = SubSeq(p, i + 1, Len(p))
                             /\ held[s] = {p[j] : j \in 1..i}
    BY <1>3
<1>5. p \in Seq(Tables)
    BY <1>2, PlansType
<1>6. i < Len(p) /\ t = p[i + 1]
    BY <1>1, <1>4, <1>5, NextPlace
<1> QED
    BY <1>2, <1>4, <1>6

\* What the first entries of a plan are.
LEMMA FirstEntries ==
    \A p : /\ {p[j] : j \in 1..0} = {}
           /\ {p[j] : j \in 1..1} = {p[1]}
           /\ {p[j] : j \in 1..2} = {p[1], p[2]}
           /\ {p[j] : j \in 1..3} = {p[1], p[2], p[3]}
           /\ {p[j] : j \in 1..4} = {p[1], p[2], p[3], p[4]}
<1>1. 1..0 = {} /\ 1..1 = {1} /\ 1..2 = {1, 2} /\ 1..3 = {1, 2, 3} /\ 1..4 = {1, 2, 3, 4}
    OBVIOUS
<1> QED
    BY <1>1

LEMMA PlaceOfSnapshot ==
    ASSUME LockInv, NEW s \in Sessions, NEW t \in Tables, Waiting(s, t), txn[s] = "snapshot"
    PROVE  \/ t = "scrapes" /\ held[s] = {}
           \/ t = "indicators" /\ held[s] = {"scrapes"}
           \/ t = "items" /\ held[s] = {"scrapes", "indicators"}
<1> DEFINE p == <<"scrapes", "indicators", "items">>
<1>1. Plans(txn[s]) = {p}
    BY DEF Plans, SnapshotLocks
<1>2. PICK i \in 0..2 : t = p[i + 1] /\ held[s] = {p[j] : j \in 1..i}
    BY <1>1, WaitingPlace
<1>3. p[1] = "scrapes" /\ p[2] = "indicators" /\ p[3] = "items"
    OBVIOUS
<1> HIDE DEF p
<1>4. i \in Nat /\ (i = 0 \/ i = 1 \/ i = 2)
    BY <1>2
<1> QED
    BY <1>2, <1>3, <1>4, FirstEntries

LEMMA PlaceOfConsolidation ==
    ASSUME LockInv, NEW s \in Sessions, NEW t \in Tables, Waiting(s, t), txn[s] = "consolidation"
    PROVE  \/ t = "consolidations" /\ held[s] = {}
           \/ t = "workloads" /\ held[s] = {"consolidations"}
<1> DEFINE p == <<"consolidations", "workloads">>
<1>1. Plans(txn[s]) = {p}
    BY DEF Plans, ConsolidationLocks
<1>2. PICK i \in 0..1 : t = p[i + 1] /\ held[s] = {p[j] : j \in 1..i}
    BY <1>1, WaitingPlace
<1>3. p[1] = "consolidations" /\ p[2] = "workloads"
    OBVIOUS
<1> HIDE DEF p
<1>4. i \in Nat /\ (i = 0 \/ i = 1)
    BY <1>2
<1> QED
    BY <1>2, <1>3, <1>4, FirstEntries

LEMMA PlaceOfDetails ==
    ASSUME LockInv, NEW s \in Sessions, NEW t \in Tables, Waiting(s, t), txn[s] = "details"
    PROVE  \/ t = "workloads" /\ held[s] = {}
           \/ t = "consolidations" /\ held[s] = {"workloads"}
<1> DEFINE p == <<"workloads", "consolidations">>
<1>1. Plans(txn[s]) = {p}
    BY DEF Plans, DetailsLocks
<1>2. PICK i \in 0..1 : t = p[i + 1] /\ held[s] = {p[j] : j \in 1..i}
    BY <1>1, WaitingPlace
<1>3. p[1] = "workloads" /\ p[2] = "consolidations"
    OBVIOUS
<1> HIDE DEF p
<1>4. i \in Nat /\ (i = 0 \/ i = 1)
    BY <1>2
<1> QED
    BY <1>2, <1>3, <1>4, FirstEntries

LEMMA PlaceOfRead ==
    ASSUME LockInv, NEW s \in Sessions, NEW t \in Tables, Waiting(s, t), txn[s] = "read"
    PROVE  held[s] = {}
<1>1. PICK p \in ReadLocks : \E i \in 0..Len(p) : i < Len(p) /\ held[s] = {p[j] : j \in 1..i}
    BY WaitingPlace DEF Plans
<1>2. Len(p) = 1
    BY DEF ReadLocks
<1> QED
    BY <1>1, <1>2, FirstEntries

LEMMA PlaceOfErasure ==
    ASSUME LockInv, NEW s \in Sessions, NEW t \in Tables, Waiting(s, t), txn[s] \in Erasing
    PROVE  \/ t = "scrapes" /\ held[s] = {}
           \/ t = "consolidations" /\ held[s] = {"scrapes"}
           \/ t = "indicators" /\ held[s] = {"scrapes", "consolidations"}
           \/ t = "items" /\ held[s] = {"scrapes", "consolidations", "indicators"}
           \/ t = "workloads" /\ held[s] = {"scrapes", "consolidations", "indicators", "items"}
<1> DEFINE p == <<"scrapes", "consolidations", "indicators", "items", "workloads">>
<1>1. Plans(txn[s]) = {p}
    BY DEF Erasing, Plans, EraseLocks, CpuMemoryLocks
<1>2. PICK i \in 0..4 : t = p[i + 1] /\ held[s] = {p[j] : j \in 1..i}
    BY <1>1, WaitingPlace
<1>3. p[1] = "scrapes" /\ p[2] = "consolidations" /\ p[3] = "indicators" /\ p[4] = "items"
      /\ p[5] = "workloads"
    OBVIOUS
<1> HIDE DEF p
<1>4. i \in Nat /\ (i = 0 \/ i = 1 \/ i = 2 \/ i = 3 \/ i = 4)
    BY <1>2
<1> QED
    BY <1>2, <1>3, <1>4, FirstEntries

LEMMA PlaceOfExtension ==
    ASSUME LockInv, NEW s \in Sessions, NEW t \in Tables, Waiting(s, t), txn[s] = "extend"
    PROVE  \/ t = "indicators" /\ held[s] = {}
           \/ t = "items" /\ held[s] = {"indicators"}
           \/ t = "workloads" /\ held[s] = {"indicators", "items"}
           \/ t = "consolidations" /\ held[s] = {"indicators", "items", "workloads"}
<1> DEFINE p == <<"indicators", "items", "workloads", "consolidations">>
<1>1. Plans(txn[s]) = {p}
    BY DEF Plans, ExtendLocks
<1>2. PICK i \in 0..3 : t = p[i + 1] /\ held[s] = {p[j] : j \in 1..i}
    BY <1>1, WaitingPlace
<1>3. p[1] = "indicators" /\ p[2] = "items" /\ p[3] = "workloads" /\ p[4] = "consolidations"
    OBVIOUS
<1> HIDE DEF p
<1>4. i \in Nat /\ (i = 0 \/ i = 1 \/ i = 2 \/ i = 3)
    BY <1>2
<1> QED
    BY <1>2, <1>3, <1>4, FirstEntries

LEMMA PlaceOfAny ==
    ASSUME LockInv, NEW s \in Sessions, NEW t \in Tables, Waiting(s, t)
    PROVE  /\ t \notin held[s]
           /\ t = "scrapes" => held[s] = {}
           /\ \A u \in Tables : Waiting(s, u) => u = t
<1>1. txn[s] \in Kinds
    BY WaitingPlace
<1>2. \A u \in Tables : Waiting(s, u) => u = t
    BY DEF LockInv, TypeOK
<1>3. CASE txn[s] = "snapshot"
    BY <1>2, <1>3, PlaceOfSnapshot
<1>4. CASE txn[s] = "consolidation"
    BY <1>2, <1>4, PlaceOfConsolidation
<1>5. CASE txn[s] = "details"
    BY <1>2, <1>5, PlaceOfDetails
<1>6. CASE txn[s] = "read"
    BY <1>2, <1>6, PlaceOfRead
<1>7. CASE txn[s] \in Erasing
    BY <1>2, <1>7, PlaceOfErasure
<1>8. CASE txn[s] = "extend"
    BY <1>2, <1>8, PlaceOfExtension
<1> QED
    BY <1>1, <1>3, <1>4, <1>5, <1>6, <1>7, <1>8 DEF Kinds, Erasing
-----------------------------------------------------------------------------
(***************************************************************************)
(* Circles.                                                                *)
(***************************************************************************)
LEMMA CircleFacts ==
    ASSUME NEW C \in Circles
    PROVE  /\ C \subseteq Sessions
           /\ \A s \in C : Waits(s)
           /\ C # {}
           /\ \A s \in C : \E r \in C : WaitsFor(s, r)
           /\ \A D \in SUBSET C : Circle(D) => D = C
    BY DEF Circles, Circle

\* The order of a queue.
LEMMA QueueOrder ==
    ASSUME LockInv, NEW t \in Tables, NEW a, NEW b
    PROVE  /\ Ahead(a, b, t) => Waiting(a, t) /\ Waiting(b, t) /\ a # b /\ ~ Ahead(b, a, t)
           /\ \A c : Ahead(a, b, t) /\ Ahead(b, c, t) => Ahead(a, c, t)
<1>1. \A i, j \in DOMAIN queue[t] : queue[t][i] = queue[t][j] => i = j
    BY DEF LockInv, WaitsOnce, Once
<1>2. DOMAIN queue[t] \subseteq Nat
    BY DEF LockInv, TypeOK
<1> HIDE DEF LockInv
<1>3. \A i, j, k \in DOMAIN queue[t] : i < j /\ j < k => i < k
    BY <1>2
<1>4. \A i, j \in DOMAIN queue[t] : i < j => ~ (j < i) /\ i # j
    BY <1>2
<1> QED
    BY <1>1, <1>3, <1>4 DEF Ahead, Waiting

(***************************************************************************)
(* A session that excludes nobody is in no circle, unless somebody waits   *)
(* for what it holds: whoever waits behind it in the queue waits for the   *)
(* same sessions as it does, so that the circle closes without it.         *)
(***************************************************************************)
LEMMA ClosesWithout ==
    ASSUME LockInv, NEW C \in Circles, NEW x \in C, txn[x] \notin Exclusive,
           \A z \in C, u \in Tables : z # x /\ u \in held[x] => ~ Waiting(z, u)
    PROVE  FALSE
<1>1. PICK y \in C : WaitsFor(x, y)
    BY CircleFacts
<1>2. PICK t \in Tables : Waiting(x, t) /\ Conflict(x, y) /\ (t \in held[y] \/ Ahead(y, x, t))
    BY <1>1 DEF WaitsFor
<1>3. x \in Sessions /\ y \in Sessions /\ x # y /\ txn[y] \in Exclusive
    BY <1>2, CircleFacts DEF Conflict
<1>4. \A u \in Tables : Waiting(x, u) => u = t
    BY <1>2, <1>3, PlaceOfAny
<1>5. ASSUME NEW z \in C, WaitsFor(z, x)
      PROVE  WaitsFor(z, y)
    <2>1. PICK u \in Tables : Waiting(z, u) /\ Conflict(z, x) /\ (u \in held[x] \/ Ahead(x, z, u))
        BY <1>5 DEF WaitsFor
    <2>2. z \in Sessions /\ z # x /\ txn[z] \in Exclusive
        BY <2>1, CircleFacts DEF Conflict
    <2>3. Ahead(x, z, u)
        BY <2>1, <2>2
    <2>4. u = t
        BY <2>1, <2>3, <1>4, QueueOrder
    <2>5. z # y
        <3>1. CASE t \in held[y]
            BY <3>1, <2>1, <2>4, <1>3, PlaceOfAny
        <3>2. CASE Ahead(y, x, t)
            BY <3>2, <2>3, <2>4, QueueOrder
        <3> QED
            BY <3>1, <3>2, <1>2
    <2>6. t \in held[y] \/ Ahead(y, z, t)
        BY <1>2, <2>3, <2>4, QueueOrder
    <2> QED
        BY <2>1, <2>2, <2>4, <2>5, <2>6 DEF WaitsFor, Conflict
<1> DEFINE D == C \ {x}
<1>6. ASSUME NEW s \in D  PROVE \E r \in D : WaitsFor(s, r)
    <2>1. PICK r \in C : WaitsFor(s, r)
        BY CircleFacts
    <2>2. CASE r = x
        BY <2>1, <2>2, <1>3, <1>5
    <2>3. CASE r # x
        BY <2>1, <2>3
    <2> QED
        BY <2>2, <2>3
<1>7. Circle(D)
    BY <1>3, <1>6 DEF Circle
<1> QED
    BY <1>7, CircleFacts

(***************************************************************************)
(* Who waits for scrapes, the first table of every plan it is in, is in no *)
(* circle: it holds nothing, so that only who waits behind it waits for    *)
(* it, and of those who wait the first waits for nobody.                   *)
(***************************************************************************)
LEMMA NobodyAtScrapes ==
    ASSUME LockInv, NEW C \in Circles, NEW c \in C
    PROVE  ~ Waiting(c, "scrapes")
<1> DEFINE S == {s \in C : Waiting(s, "scrapes")}
           q == queue["scrapes"]
<1>1. "scrapes" \in Tables
    BY DEF Tables
<1>2. ASSUME NEW s \in C, NEW r \in S, WaitsFor(s, r)
      PROVE  s \in S /\ Ahead(r, s, "scrapes")
    <2>1. PICK u \in Tables : Waiting(s, u) /\ (u \in held[r] \/ Ahead(r, s, u))
        BY <1>2 DEF WaitsFor
    <2>2. held[r] = {} /\ \A v \in Tables : Waiting(r, v) => v = "scrapes"
        BY <1>1, CircleFacts, PlaceOfAny
    <2>3. u = "scrapes"
        BY <2>1, <2>2, QueueOrder
    <2> QED
        BY <2>1, <2>2, <2>3
<1>3. CASE C \ S # {}
    <2>1. Circle(C \ S)
        BY <1>2, <1>3, CircleFacts DEF Circle
    <2>2. C \ S = C
        BY <2>1, CircleFacts
    <2> QED
        BY <2>2
<1>4. CASE C \ S = {}
    <2> DEFINE T == {i \in DOMAIN q : q[i] \in C}
    <2>1. DOMAIN q \subseteq Nat /\ Once(q)
        BY <1>1 DEF LockInv, TypeOK, WaitsOnce
    <2>2. T # {}
        BY <1>4 DEF Waiting
    <2>3. PICK n \in T : \A m \in T : n <= m
        BY <2>1, <2>2, LeastExists
    <2>4. PICK r \in C : WaitsFor(q[n], r)
        BY CircleFacts
    <2>5. Ahead(r, q[n], "scrapes")
        BY <1>2, <1>4, <2>4
    <2>6. PICK i \in DOMAIN q : i < n /\ q[i] = r
        BY <2>1, <2>5 DEF Ahead, Once
    <2>7. i \in T /\ i \in Nat /\ n \in Nat
        BY <2>1, <2>6
    <2> HIDE DEF T
    <2> QED
        BY <2>3, <2>6, <2>7
<1> QED
    BY <1>3, <1>4
-----------------------------------------------------------------------------
(***************************************************************************)
(* Nothing that measures is the victim of a deadlock (SavesOutOfCircles):  *)
(* a reset and a cleaning migration lock what a save holds before what it  *)
(* waits for, so that they cannot be in its way once it has the first      *)
(* lock.                                                                   *)
(***************************************************************************)
LEMMA SnapshotsOutside ==
    ASSUME LockInv, NEW C \in Circles, NEW x \in C
    PROVE  txn[x] # "snapshot"
<1> SUFFICES ASSUME txn[x] = "snapshot"
             PROVE  FALSE
    OBVIOUS
<1>1. x \in Sessions /\ txn[x] \notin Exclusive
    BY CircleFacts DEF Exclusive
<1>2. PICK y \in C : WaitsFor(x, y)
    BY CircleFacts
<1>3. PICK t \in Tables : Waiting(x, t) /\ Conflict(x, y) /\ (t \in held[y] \/ Ahead(y, x, t))
    BY <1>2 DEF WaitsFor
<1>4. y \in Sessions /\ txn[y] \in Exclusive
    BY <1>1, <1>3, CircleFacts DEF Conflict
<1>5. CASE held[x] \subseteq {"scrapes"}
    BY <1>1, <1>5, ClosesWithout, NobodyAtScrapes
<1>6. CASE t = "items" /\ held[x] = {"scrapes", "indicators"}
    <2>1. PICK u \in Tables : Waiting(y, u) /\ (u = "items" \/ "items" \in held[y])
        BY <1>3, <1>4, <1>6, CircleFacts, QueueOrder DEF Waits
    <2>2. "scrapes" \notin held[y] /\ "indicators" \notin held[y]
        BY <1>1, <1>3, <1>4, <1>6 DEF LockInv, Excluded, Tables
    <2>3. CASE txn[y] \in Erasing
        BY <1>4, <2>1, <2>2, <2>3, PlaceOfErasure
    <2>4. CASE txn[y] = "extend"
        BY <1>4, <2>1, <2>2, <2>4, PlaceOfExtension
    <2> QED
        BY <1>4, <2>3, <2>4 DEF Exclusive, Erasing
<1> QED
    BY <1>1, <1>3, <1>5, <1>6, PlaceOfSnapshot

LEMMA ConsolidationsOutside ==
    ASSUME LockInv, NEW C \in Circles, NEW x \in C, txn[x] = "consolidation"
    PROVE  \E y \in C : txn[y] = "extend"
<1>1. x \in Sessions /\ txn[x] \notin Exclusive
    BY CircleFacts DEF Exclusive
<1>2. PICK y \in C : WaitsFor(x, y)
    BY CircleFacts
<1>3. PICK t \in Tables : Waiting(x, t) /\ Conflict(x, y) /\ (t \in held[y] \/ Ahead(y, x, t))
    BY <1>2 DEF WaitsFor
<1>4. y \in Sessions /\ txn[y] \in Exclusive
    BY <1>1, <1>3, CircleFacts DEF Conflict
<1>5. CASE held[x] = {}
    BY <1>1, <1>5, ClosesWithout
<1>6. CASE t = "workloads" /\ held[x] = {"consolidations"}
    <2>1. PICK u \in Tables : Waiting(y, u) /\ (u = "workloads" \/ "workloads" \in held[y])
        BY <1>3, <1>4, <1>6, CircleFacts, QueueOrder DEF Waits
    <2>2. "consolidations" \notin held[y]
        BY <1>1, <1>3, <1>4, <1>6 DEF LockInv, Excluded, Tables
    <2>3. txn[y] \notin Erasing
        BY <1>4, <2>1, <2>2, PlaceOfErasure
    <2> QED
        BY <1>4, <2>3 DEF Exclusive, Erasing
<1> QED
    BY <1>1, <1>3, <1>5, <1>6, PlaceOfConsolidation

(***************************************************************************)
(* A snapshot is never in a circle of waiting sessions, and a              *)
(* consolidation only next to migration 0006: PostgreSQL has no reason to  *)
(* abort them otherwise.                                                   *)
(***************************************************************************)
THEOREM SavesNeverVictims == Spec => []SavesOutOfCircles
<1>1. LockInv => SavesOutOfCircles
    BY SnapshotsOutside, ConsolidationsOutside DEF SavesOutOfCircles, KindsOf
<1> QED
    BY <1>1, LockInit, LockStep, PTL DEF Spec

(***************************************************************************)
(* The one deadlock there is after the migrations (OneDeadlock): whoever   *)
(* erases has scrapes, so that there is one of them, and only the details  *)
(* of a workload hold, of what it waits for, what comes later in its plan. *)
(***************************************************************************)
LEMMA DetailsAndReset ==
    ASSUME LockInv, NEW C \in Circles, KindsOf(C) \cap {"extend", "cpuMemory"} = {}
    PROVE  KindsOf(C) = {"details", "reset"}
<1>1. C \subseteq Sessions /\ \A s \in C : \E u \in Tables : Waiting(s, u)
    BY CircleFacts DEF Waits
<1>2. ASSUME NEW s \in C  PROVE held[s] # {} \/ txn[s] \in Exclusive
    BY <1>2, ClosesWithout
<1>3. ASSUME NEW s \in C  PROVE txn[s] \in {"details", "reset"}
    <2>1. txn[s] \in Kinds
        BY <1>1, WaitingPlace
    <2>2. \A r \in C : txn[r] \notin {"extend", "cpuMemory"}
        BY DEF KindsOf
    <2>3. txn[s] # "snapshot"
        BY SnapshotsOutside
    <2>4. txn[s] # "consolidation"
        BY <2>2, ConsolidationsOutside
    <2>5. txn[s] # "read"
        BY <1>1, <1>2, PlaceOfRead DEF Exclusive
    <2> QED
        BY <2>1, <2>2, <2>3, <2>4, <2>5 DEF Kinds
<1>4. ASSUME NEW s \in C, txn[s] = "details"
      PROVE  Waiting(s, "consolidations") /\ held[s] = {"workloads"}
    BY <1>1, <1>2, <1>4, PlaceOfDetails DEF Exclusive
<1>5. ASSUME NEW s \in C, txn[s] = "reset"
      PROVE  "scrapes" \in held[s]
    BY <1>1, <1>5, NobodyAtScrapes, PlaceOfErasure DEF Erasing
<1>6. ASSUME NEW s \in C, NEW r \in C, txn[s] = "reset", txn[r] = "reset"
      PROVE  s = r
    BY <1>1, <1>5, <1>6 DEF LockInv, Excluded, Conflict, Exclusive, Tables
<1>7. PICK s \in C : txn[s] = "reset"
    <2>1. PICK a \in C, b \in C : WaitsFor(a, b)
        BY CircleFacts
    <2>2. txn[a] \in Exclusive \/ txn[b] \in Exclusive
        BY <2>1 DEF WaitsFor, Conflict
    <2> QED
        BY <1>3, <2>2 DEF Exclusive
<1>8. PICK r \in C : WaitsFor(s, r)
    BY CircleFacts
<1>9. txn[r] = "details"
    BY <1>3, <1>6, <1>7, <1>8 DEF WaitsFor, Conflict
<1>10. WaitsFor(r, s)
    <2>1. PICK v \in C : WaitsFor(r, v)
        BY CircleFacts
    <2>2. txn[v] = "reset"
        BY <1>3, <1>9, <2>1 DEF WaitsFor, Conflict, Exclusive
    <2> QED
        BY <1>6, <1>7, <2>1, <2>2
<1>11. C = {s, r}
    <2> DEFINE D == {s, r}
    <2>1. Circle(D)
        BY <1>8, <1>10 DEF Circle
    <2>2. D \in SUBSET C
        BY <1>7, <1>8
    <2> HIDE DEF D
    <2>3. D = C
        BY <2>1, <2>2, CircleFacts
    <2> QED
        BY <2>3 DEF D
<1> QED
    BY <1>7, <1>9, <1>11 DEF KindsOf

(***************************************************************************)
(* A circle of waiting sessions without a migration in it is the one of a  *)
(* reset and a read of the details, which lock the same tables in          *)
(* different orders.                                                       *)
(***************************************************************************)
THEOREM OnlyOneDeadlock == Spec => []OneDeadlock
<1>1. LockInv => OneDeadlock
    BY DetailsAndReset DEF OneDeadlock
<1> QED
    BY <1>1, LockInit, LockStep, PTL DEF Spec
=============================================================================
