-------------------------- MODULE AccountingProofs --------------------------
(***************************************************************************)
(* Proofs about the figures: the calculator divides usage without a loss   *)
(* and the page of its items is the right one (modules Calculator and      *)
(* Indicators), and the audit arrives at what was reported (module Audit), *)
(* for all values, workloads, pages and histories.  Lemmas about sums over *)
(* finite sets come first.                                                 *)
(***************************************************************************)
EXTENDS Audit, Indicators, FiniteSetTheorems, WellFoundedInduction, TLAPS

\* A set of natural numbers has a least one.
LEMMA LeastExists ==
    ASSUME NEW T \in SUBSET Nat, T # {}
    PROVE  \E n \in T : \A m \in T : n <= m
<1> DEFINE L == OpToRel(<, Nat)
<1>1. IsWellFoundedOn(L, Nat)
    BY NatLessThanWellFounded, Zenon
<1>2. \A m, n \in Nat : m < n => <<m, n>> \in L
    BY DEF OpToRel
<1> HIDE DEF L
<1>3. PICK n \in T : \A m \in T : ~ (<<m, n>> \in L)
    BY <1>1, WFMin
<1>4. \A m \in T : ~ (m < n)
    BY <1>2, <1>3
<1> QED
    BY <1>3, <1>4

\* Induction over the numbers, on a set instead of a formula.
LEMMA AllNumbers ==
    ASSUME NEW N \in SUBSET Nat, 0 \in N, \A n \in N : n + 1 \in N
    PROVE  N = Nat
<1>1. SUFFICES ASSUME Nat \ N # {} PROVE FALSE
    OBVIOUS
<1>2. PICK n \in Nat \ N : \A m \in Nat \ N : n <= m
    BY <1>1, LeastExists
<1>3. n - 1 \in N
    BY <1>2
<1> QED
    BY <1>2, <1>3

\* Induction over the subsets of a finite set, likewise.
LEMMA AllSubsets ==
    ASSUME NEW S, IsFiniteSet(S), NEW Q, {} \in Q,
           \A T \in SUBSET S : T # {} /\ (\A x \in T : T \ {x} \in Q) => T \in Q
    PROVE  \A T \in SUBSET S : T \in Q
<1> DEFINE N == {n \in Nat : \A T \in SUBSET S : Cardinality(T) = n => T \in Q}
<1>1. \A T \in SUBSET S : IsFiniteSet(T) /\ Cardinality(T) \in Nat
    BY FS_Subset, FS_CardinalityType
<1>2. 0 \in N
    BY <1>1, FS_EmptySet
<1>3. ASSUME NEW n \in Nat, n \in N, NEW T \in SUBSET S, Cardinality(T) = n + 1
      PROVE  T \in Q
    <2>1. T # {}
        <3>1. Cardinality(T) # 0
            BY <1>3
        <3> QED
            BY <3>1, FS_EmptySet
    <2>2. ASSUME NEW x \in T
          PROVE  T \ {x} \in Q
        <3>1. Cardinality(T \ {x}) = Cardinality(T) - 1
            BY <1>1, FS_RemoveElement
        <3>2. Cardinality(T \ {x}) = n /\ T \ {x} \in SUBSET S
            BY <1>3, <3>1
        <3> QED
            BY <1>3, <3>2
    <2> HIDE DEF N
    <2> QED
        BY <2>1, <2>2
<1>4. N = Nat
    <2>1. \A n \in Nat : n \in N => n + 1 \in N
        BY <1>3
    <2> HIDE DEF N
    <2>2. N \in SUBSET Nat
        BY DEF N
    <2> QED
        BY <1>2, <2>1, <2>2, AllNumbers
<1> QED
    BY <1>1, <1>4

-----------------------------------------------------------------------------
\* What a sum takes next, and the function that it iterates.
Taken(S) == CHOOSE x \in S : TRUE
SumStep(f, g, S) == IF S = {} THEN 0 ELSE f[Taken(S)] + g[S \ {Taken(S)}]
SumsOf(f, S) == CHOOSE g : g = [T \in SUBSET S |-> SumStep(f, g, T)]

LEMMA SumUnfolds ==
    ASSUME NEW f, NEW S
    PROVE  SumFunctionOnSet(f, S) = SumsOf(f, S)[S]
BY DEF SumFunctionOnSet, FoldFunctionOnSet, MapThenFoldSet, SumsOf, SumStep, Taken

LEMMA TakenIn == ASSUME NEW S, S # {} PROVE Taken(S) \in S
BY DEF Taken

\* The recursion defines a function: by induction over the size of the sets.
LEMMA SumsDefined ==
    ASSUME NEW f, NEW S, IsFiniteSet(S)
    PROVE  SumsOf(f, S) = [T \in SUBSET S |-> SumStep(f, SumsOf(f, S), T)]
<1> DEFINE Small(n) == {T \in SUBSET S : Cardinality(T) <= n}
           Solves(g, n) == g = [T \in Small(n) |-> SumStep(f, g, T)]
           N == {n \in Nat : \E g : Solves(g, n)}
<1>1. \A T \in SUBSET S : IsFiniteSet(T) /\ Cardinality(T) \in Nat
    BY FS_Subset, FS_CardinalityType
<1>2. 0 \in N
    <2> DEFINE g == [T \in Small(0) |-> 0]
    <2>1. \A T \in Small(0) : T = {}
        BY <1>1, FS_EmptySet
    <2>2. Solves(g, 0)
        BY <2>1 DEF SumStep
    <2> QED
        BY <2>2
<1>3. ASSUME NEW n \in N
      PROVE  n + 1 \in N
    <2>1. PICK g : Solves(g, n)
        OBVIOUS
    <2> DEFINE h == [T \in Small(n + 1) |-> SumStep(f, g, T)]
    <2>2. ASSUME NEW T \in Small(n + 1), T # {}
          PROVE  T \ {Taken(T)} \in Small(n)
        <3>1. Taken(T) \in T
            BY <2>2, TakenIn
        <3>2. Cardinality(T \ {Taken(T)}) = Cardinality(T) - 1
            BY <1>1, <3>1, FS_RemoveElement
        <3> QED
            BY <1>1, <3>2
    <2>3. \A T \in Small(n) : T \in Small(n + 1) /\ h[T] = g[T]
        <3>1. \A T \in Small(n) : T \in Small(n + 1)
            BY <1>1
        <3>2. \A T \in Small(n) : g[T] = SumStep(f, g, T)
            BY <2>1
        <3> QED
            BY <3>1, <3>2
    <2>4. \A T \in Small(n + 1) : SumStep(f, g, T) = SumStep(f, h, T)
        BY <2>2, <2>3 DEF SumStep
    <2>5. Solves(h, n + 1)
        BY <2>4
    <2> HIDE DEF h, Solves
    <2>6. \E k : Solves(k, n + 1)
        BY <2>5
    <2> QED
        BY <2>6
<1>4. N = Nat
    <2> HIDE DEF N
    <2>1. N \in SUBSET Nat
        BY DEF N
    <2> QED
        BY <1>2, <1>3, <2>1, AllNumbers
<1>5. PICK g : Solves(g, Cardinality(S))
    BY <1>1, <1>4
<1>6. Small(Cardinality(S)) = SUBSET S
    BY FS_Subset
<1>7. g = [T \in SUBSET S |-> SumStep(f, g, T)]
    BY <1>5, <1>6
<1> QED
    BY <1>7 DEF SumsOf

\* All sums over the subsets of a set belong to one recursion.
LEMMA SumsAgree ==
    ASSUME NEW f, NEW D, IsFiniteSet(D), NEW S \in SUBSET D
    PROVE  SumFunctionOnSet(f, S) = SumsOf(f, D)[S]
<1> DEFINE Q == {T \in SUBSET S : SumsOf(f, S)[T] = SumsOf(f, D)[T]}
<1>1. IsFiniteSet(S)
    BY FS_Subset
<1>2. SumsOf(f, S) = [T \in SUBSET S |-> SumStep(f, SumsOf(f, S), T)]
    BY <1>1, SumsDefined
<1>3. SumsOf(f, D) = [T \in SUBSET D |-> SumStep(f, SumsOf(f, D), T)]
    BY SumsDefined
<1>4. \A T \in SUBSET S : /\ SumsOf(f, S)[T] = SumStep(f, SumsOf(f, S), T)
                          /\ SumsOf(f, D)[T] = SumStep(f, SumsOf(f, D), T)
    BY <1>2, <1>3
<1>5. {} \in Q
    BY <1>4 DEF SumStep
<1>6. ASSUME NEW T \in SUBSET S, T # {}, \A x \in T : T \ {x} \in Q
      PROVE  T \in Q
    <2>1. SumsOf(f, S)[T \ {Taken(T)}] = SumsOf(f, D)[T \ {Taken(T)}]
        BY <1>6, TakenIn
    <2> QED
        BY <1>4, <1>6, <2>1 DEF SumStep
<1>7. SumsOf(f, S)[S] = SumsOf(f, D)[S]
    <2> HIDE DEF Q
    <2>1. S \in Q
        BY <1>1, <1>5, <1>6, AllSubsets
    <2> QED
        BY <2>1 DEF Q
<1> QED
    BY <1>7, SumUnfolds

LEMMA SumOfNone == ASSUME NEW f PROVE SumFunctionOnSet(f, {}) = 0
<1> DEFINE S == {}
<1>1. IsFiniteSet(S) /\ S \in SUBSET S
    BY FS_EmptySet
<1>2. S = {}
    OBVIOUS
<1> HIDE DEF S
<1>3. SumsOf(f, S) = [T \in SUBSET S |-> SumStep(f, SumsOf(f, S), T)]
    BY <1>1, SumsDefined
<1>4. SumsOf(f, S)[S] = 0
    BY <1>1, <1>2, <1>3 DEF SumStep
<1> QED
    BY <1>2, <1>4, SumUnfolds

LEMMA SumTakes ==
    ASSUME NEW f, NEW S, IsFiniteSet(S), S # {}
    PROVE  SumFunctionOnSet(f, S) = f[Taken(S)] + SumFunctionOnSet(f, S \ {Taken(S)})
<1>1. SumsOf(f, S) = [T \in SUBSET S |-> SumStep(f, SumsOf(f, S), T)]
    BY SumsDefined
<1>2. SumFunctionOnSet(f, S \ {Taken(S)}) = SumsOf(f, S)[S \ {Taken(S)}]
    BY SumsAgree
<1> QED
    BY <1>1, <1>2, SumUnfolds DEF SumStep

\* A sum of natural numbers is one.
LEMMA SumIsNat ==
    ASSUME NEW S, IsFiniteSet(S), NEW f, \A x \in S : f[x] \in Nat
    PROVE  \A T \in SUBSET S : SumFunctionOnSet(f, T) \in Nat
<1> DEFINE Q == {T \in SUBSET S : SumFunctionOnSet(f, T) \in Nat}
<1>1. {} \in Q
    BY SumOfNone
<1>2. ASSUME NEW T \in SUBSET S, T # {}, \A x \in T : T \ {x} \in Q
      PROVE  T \in Q
    <2>1. IsFiniteSet(T) /\ Taken(T) \in T
        BY <1>2, FS_Subset, TakenIn
    <2>2. SumFunctionOnSet(f, T) = f[Taken(T)] + SumFunctionOnSet(f, T \ {Taken(T)})
        BY <1>2, <2>1, SumTakes
    <2> QED
        BY <1>2, <2>1, <2>2
<1>3. \A T \in SUBSET S : T \in Q
    <2> HIDE DEF Q
    <2> QED
        BY <1>1, <1>2, AllSubsets
<1> QED
    BY <1>3

\* In a sum of natural numbers any one may be the first.
LEMMA SumRemoves ==
    ASSUME NEW S, IsFiniteSet(S), NEW f, \A x \in S : f[x] \in Nat
    PROVE  \A T \in SUBSET S : \A x \in T :
               SumFunctionOnSet(f, T) = f[x] + SumFunctionOnSet(f, T \ {x})
<1> DEFINE Sum(T) == SumFunctionOnSet(f, T)
           Q == {T \in SUBSET S : \A x \in T : Sum(T) = f[x] + Sum(T \ {x})}
<1>1. \A T \in SUBSET S : IsFiniteSet(T) /\ Sum(T) \in Nat
    BY FS_Subset, SumIsNat
<1>2. {} \in Q
    OBVIOUS
<1>3. ASSUME NEW T \in SUBSET S, T # {}, \A x \in T : T \ {x} \in Q
      PROVE  T \in Q
    <2> DEFINE c == Taken(T)
    <2>1. c \in T /\ Sum(T) = f[c] + Sum(T \ {c})
        BY <1>1, <1>3, TakenIn, SumTakes
    <2> HIDE DEF c
    <2>2. ASSUME NEW x \in T, x # c
          PROVE  Sum(T) = f[x] + Sum(T \ {x})
        <3>1. Sum(T \ {c}) = f[x] + Sum((T \ {c}) \ {x})
            BY <1>3, <2>1, <2>2
        <3>2. Sum(T \ {x}) = f[c] + Sum((T \ {x}) \ {c})
            BY <1>3, <2>1, <2>2
        <3>3. (T \ {c}) \ {x} = (T \ {x}) \ {c}
            OBVIOUS
        <3>4. Sum((T \ {c}) \ {x}) \in Nat /\ f[c] \in Nat /\ f[x] \in Nat
            BY <1>1, <2>1
        <3>5. \A a, b, r \in Nat : a + (b + r) = b + (a + r)
            OBVIOUS
        <3>6. f[c] + (f[x] + Sum((T \ {c}) \ {x})) = f[x] + (f[c] + Sum((T \ {c}) \ {x}))
            BY <3>4, <3>5
        <3> QED
            BY <2>1, <3>1, <3>2, <3>3, <3>6
    <2> QED
        BY <2>1, <2>2
<1>4. \A T \in SUBSET S : T \in Q
    <2> HIDE DEF Q
    <2> QED
        BY <1>2, <1>3, AllSubsets
<1> QED
    BY <1>4

\* A sum depends on the values in the set only.
LEMMA SumSame ==
    ASSUME NEW S, IsFiniteSet(S), NEW f, NEW g, \A x \in S : f[x] \in Nat /\ g[x] = f[x]
    PROVE  SumFunctionOnSet(f, S) = SumFunctionOnSet(g, S)
<1> DEFINE Q == {T \in SUBSET S : SumFunctionOnSet(f, T) = SumFunctionOnSet(g, T)}
<1>1. {} \in Q
    BY SumOfNone
<1>2. ASSUME NEW T \in SUBSET S, T # {}, \A x \in T : T \ {x} \in Q
      PROVE  T \in Q
    <2>1. PICK x \in T : TRUE
        BY <1>2
    <2>2. SumFunctionOnSet(f, T) = f[x] + SumFunctionOnSet(f, T \ {x})
        BY <2>1, SumRemoves
    <2>3. SumFunctionOnSet(g, T) = g[x] + SumFunctionOnSet(g, T \ {x})
        BY <2>1, SumRemoves
    <2> QED
        BY <1>2, <2>1, <2>2, <2>3
<1>3. S \in Q
    <2> HIDE DEF Q
    <2> QED
        BY <1>1, <1>2, AllSubsets
<1> QED
    BY <1>3

LEMMA SumOfSums ==
    ASSUME NEW S, IsFiniteSet(S), NEW f, NEW g, NEW h,
           \A x \in S : f[x] \in Nat /\ g[x] \in Nat /\ h[x] = f[x] + g[x]
    PROVE  SumFunctionOnSet(h, S) = SumFunctionOnSet(f, S) + SumFunctionOnSet(g, S)
<1> DEFINE F(T) == SumFunctionOnSet(f, T)
           G(T) == SumFunctionOnSet(g, T)
           H(T) == SumFunctionOnSet(h, T)
           Q == {T \in SUBSET S : H(T) = F(T) + G(T)}
<1>1. {} \in Q
    BY SumOfNone
<1>2. ASSUME NEW T \in SUBSET S, T # {}, \A x \in T : T \ {x} \in Q
      PROVE  T \in Q
    <2>1. PICK x \in T : TRUE
        BY <1>2
    <2>2. F(T) = f[x] + F(T \ {x}) /\ F(T \ {x}) \in Nat
        BY <2>1, SumRemoves, SumIsNat
    <2>3. G(T) = g[x] + G(T \ {x}) /\ G(T \ {x}) \in Nat
        BY <2>1, SumRemoves, SumIsNat
    <2>4. H(T) = h[x] + H(T \ {x})
        <3>1. \A y \in S : h[y] \in Nat
            OBVIOUS
        <3> QED
            BY <2>1, <3>1, SumRemoves
    <2>5. H(T \ {x}) = F(T \ {x}) + G(T \ {x})
        BY <1>2, <2>1
    <2>6. f[x] \in Nat /\ g[x] \in Nat /\ h[x] = f[x] + g[x]
        BY <2>1
    <2>7. \A a, b, c, d \in Nat : (a + b) + (c + d) = (a + c) + (b + d)
        OBVIOUS
    <2> HIDE DEF F, G, H
    <2>8. H(T) = F(T) + G(T)
        BY <2>2, <2>3, <2>4, <2>5, <2>6, <2>7
    <2> QED
        BY <2>8
<1>3. S \in Q
    <2> HIDE DEF Q
    <2>1. \A T \in SUBSET S : T # {} /\ (\A x \in T : T \ {x} \in Q) => T \in Q
        BY <1>2
    <2>2. \A T \in SUBSET S : T \in Q
        BY <1>1, <2>1, AllSubsets
    <2> QED
        BY <2>2
<1> QED
    BY <1>3

\* What is zero does not matter.
LEMMA SumOfPart ==
    ASSUME NEW S, IsFiniteSet(S), NEW P \in SUBSET S, NEW f,
           \A x \in S : f[x] \in Nat, \A x \in S \ P : f[x] = 0
    PROVE  SumFunctionOnSet(f, S) = SumFunctionOnSet(f, P)
<1> DEFINE Sum(T) == SumFunctionOnSet(f, T)
           Q == {T \in SUBSET S : Sum(T) = Sum(T \cap P)}
<1>1. {} \in Q
    OBVIOUS
<1>2. ASSUME NEW T \in SUBSET S, T # {}, \A x \in T : T \ {x} \in Q
      PROVE  T \in Q
    <2>1. PICK x \in T : TRUE
        BY <1>2
    <2>2. Sum(T) = f[x] + Sum(T \ {x}) /\ Sum(T \ {x}) \in Nat
        BY <2>1, SumRemoves, SumIsNat
    <2>3. Sum(T \ {x}) = Sum((T \ {x}) \cap P)
        BY <1>2, <2>1
    <2>4. CASE x \in P
        <3>1. Sum(T \cap P) = f[x] + Sum((T \cap P) \ {x})
            BY <2>1, <2>4, SumRemoves
        <3>2. (T \cap P) \ {x} = (T \ {x}) \cap P
            OBVIOUS
        <3> QED
            BY <2>2, <2>3, <3>1, <3>2
    <2>5. CASE x \notin P
        <3>1. T \cap P = (T \ {x}) \cap P /\ f[x] = 0
            BY <2>1, <2>5
        <3>2. Sum(T) = Sum(T \ {x})
            BY <2>2, <3>1
        <3> QED
            BY <2>3, <3>1, <3>2
    <2> QED
        BY <2>4, <2>5
<1>3. S \in Q
    <2> HIDE DEF Q
    <2> QED
        BY <1>1, <1>2, AllSubsets
<1>4. S \cap P = P
    OBVIOUS
<1> QED
    BY <1>3, <1>4

\* A sum is zero if and only if all of it is.
LEMMA SumIsZero ==
    ASSUME NEW S, IsFiniteSet(S), NEW f, \A x \in S : f[x] \in Nat
    PROVE  /\ SumFunctionOnSet(f, S) \in Nat
           /\ SumFunctionOnSet(f, S) = 0 <=> \A x \in S : f[x] = 0
<1>1. ASSUME NEW x \in S
      PROVE  f[x] <= SumFunctionOnSet(f, S)
    <2>1. SumFunctionOnSet(f, S \ {x}) \in Nat
        BY SumIsNat
    <2>2. SumFunctionOnSet(f, S) = f[x] + SumFunctionOnSet(f, S \ {x})
        BY SumRemoves
    <2> QED
        BY <2>1, <2>2
<1>2. (\A x \in S : f[x] = 0) => SumFunctionOnSet(f, S) = 0
    <2>1. {} \in SUBSET S /\ S \ {} = S
        OBVIOUS
    <2> QED
        BY <2>1, SumOfPart, SumOfNone
<1>3. SumFunctionOnSet(f, S) \in Nat
    BY SumIsNat
<1> QED
    BY <1>1, <1>2, <1>3

\* Shares in proportion to weights add up to what is shared.
LEMMA Distributes ==
    ASSUME NEW t \in Nat, NEW a \in Nat, NEW s \in Nat, NEW w \in Nat, NEW b \in Nat, NEW v \in Nat,
           s * t = a * w, b * t = a * v
    PROVE  (s + b) * t = a * (w + v)
OBVIOUS

LEMMA Cancels ==
    ASSUME NEW t \in Nat, NEW a \in Nat, NEW s \in Nat, t # 0, s * t = a * t
    PROVE  s = a
BY Z3

LEMMA SumOfShares ==
    ASSUME NEW S, IsFiniteSet(S), NEW f, NEW g, NEW a \in Nat, NEW t \in Nat,
           \A x \in S : f[x] \in Nat /\ g[x] \in Nat /\ f[x] * t = a * g[x]
    PROVE  SumFunctionOnSet(f, S) * t = a * SumFunctionOnSet(g, S)
<1> DEFINE F(T) == SumFunctionOnSet(f, T)
           G(T) == SumFunctionOnSet(g, T)
           Q == {T \in SUBSET S : F(T) * t = a * G(T)}
<1>1. {} \in Q
    BY SumOfNone
<1>2. ASSUME NEW T \in SUBSET S, T # {}, \A x \in T : T \ {x} \in Q
      PROVE  T \in Q
    <2>1. PICK x \in T : TRUE
        BY <1>2
    <2>2. F(T) = f[x] + F(T \ {x}) /\ F(T \ {x}) \in Nat
        <3>1. \A y \in S : f[y] \in Nat
            OBVIOUS
        <3> QED
            BY <2>1, <3>1, SumRemoves, SumIsNat
    <2>3. G(T) = g[x] + G(T \ {x}) /\ G(T \ {x}) \in Nat
        <3>1. \A y \in S : g[y] \in Nat
            OBVIOUS
        <3> QED
            BY <2>1, <3>1, SumRemoves, SumIsNat
    <2>4. F(T \ {x}) * t = a * G(T \ {x})
        BY <1>2, <2>1
    <2>5. f[x] \in Nat /\ g[x] \in Nat /\ f[x] * t = a * g[x]
        BY <2>1
    <2> HIDE DEF F, G
    <2>6. (f[x] + F(T \ {x})) * t = a * (g[x] + G(T \ {x}))
        BY <2>2, <2>3, <2>4, <2>5, Distributes
    <2> QED
        BY <2>2, <2>3, <2>6
<1>3. S \in Q
    <2> HIDE DEF Q
    <2> QED
        BY <1>1, <1>2, AllSubsets
<1> QED
    BY <1>3

\* A sum over an image is a sum over what it is the image of.
LEMMA SumOfImage ==
    ASSUME NEW S, IsFiniteSet(S), NEW f, NEW g, NEW b,
           \A x \in S : f[x] \in Nat /\ g[b[x]] = f[x],
           \A x, y \in S : b[x] = b[y] => x = y
    PROVE  /\ IsFiniteSet({b[x] : x \in S})
           /\ Cardinality({b[x] : x \in S}) = Cardinality(S)
           /\ SumFunctionOnSet(g, {b[x] : x \in S}) = SumFunctionOnSet(f, S)
<1> DEFINE I(P) == {b[x] : x \in P}
           Q == {P \in SUBSET S : SumFunctionOnSet(g, I(P)) = SumFunctionOnSet(f, P)}
<1>1. IsFiniteSet(I(S)) /\ Cardinality(I(S)) = Cardinality(S)
    <2> DEFINE h == [x \in S |-> b[x]]
               T == I(S)
    <2>1. h \in Bijection(S, T)
        BY DEF Bijection, Injection, Surjection, IsInjective
    <2> HIDE DEF h, T
    <2>2. IsFiniteSet(T) /\ Cardinality(T) = Cardinality(S)
        BY <2>1, FS_Bijection DEF ExistsBijection
    <2> QED
        BY <2>2 DEF T
<1>2. \A y \in I(S) : g[y] \in Nat
    OBVIOUS
<1>3. {} \in Q
    <2>1. I({}) = {}
        OBVIOUS
    <2> QED
        BY <2>1, SumOfNone
<1>4. ASSUME NEW P \in SUBSET S, P # {}, \A x \in P : P \ {x} \in Q
      PROVE  P \in Q
    <2>1. PICK x \in P : TRUE
        BY <1>4
    <2>2. SumFunctionOnSet(f, P) = f[x] + SumFunctionOnSet(f, P \ {x})
        <3>1. \A y \in S : f[y] \in Nat
            OBVIOUS
        <3> QED
            BY <2>1, <3>1, SumRemoves
    <2>3. I(P) \ {b[x]} = I(P \ {x}) /\ b[x] \in I(P) /\ I(P) \in SUBSET I(S)
        BY <2>1
    <2>4. SumFunctionOnSet(g, I(P)) = g[b[x]] + SumFunctionOnSet(g, I(P) \ {b[x]})
        <3> DEFINE T == I(S)
                   U == I(P)
        <3> HIDE DEF I
        <3>1. IsFiniteSet(T) /\ (\A y \in T : g[y] \in Nat) /\ U \in SUBSET T /\ b[x] \in U
            BY <1>1, <1>2, <2>3
        <3> HIDE DEF T, U
        <3>2. SumFunctionOnSet(g, U) = g[b[x]] + SumFunctionOnSet(g, U \ {b[x]})
            BY <3>1, SumRemoves
        <3> QED
            BY <3>2 DEF U
    <2>5. SumFunctionOnSet(g, I(P \ {x})) = SumFunctionOnSet(f, P \ {x})
        BY <1>4, <2>1
    <2>6. g[b[x]] = f[x]
        BY <2>1
    <2> HIDE DEF I
    <2> QED
        BY <2>2, <2>3, <2>4, <2>5, <2>6
<1>5. S \in Q
    <2> HIDE DEF Q
    <2>1. \A P \in SUBSET S : P # {} /\ (\A x \in P : P \ {x} \in Q) => P \in Q
        BY <1>4
    <2>2. \A P \in SUBSET S : P \in Q
        BY <1>3, <2>1, AllSubsets
    <2> QED
        BY <2>2
<1> QED
    BY <1>1, <1>5

\* If each of the numbers exceeds another by an error at most, so does the sum.
LEMMA SumExceeds ==
    ASSUME NEW S, IsFiniteSet(S), NEW f, NEW g, NEW e,
           \A x \in S : f[x] \in Nat /\ g[x] \in Nat /\ e[x] \in Nat /\ f[x] <= g[x] + e[x]
    PROVE  SumFunctionOnSet(f, S) <= SumFunctionOnSet(g, S) + SumFunctionOnSet(e, S)
<1> DEFINE F(T) == SumFunctionOnSet(f, T)
           G(T) == SumFunctionOnSet(g, T)
           E(T) == SumFunctionOnSet(e, T)
           Q == {T \in SUBSET S : F(T) <= G(T) + E(T)}
<1>1. {} \in Q
    BY SumOfNone
<1>2. ASSUME NEW T \in SUBSET S, T # {}, \A x \in T : T \ {x} \in Q
      PROVE  T \in Q
    <2>1. PICK x \in T : TRUE
        BY <1>2
    <2>2. /\ \A y \in S : f[y] \in Nat
          /\ \A y \in S : g[y] \in Nat
          /\ \A y \in S : e[y] \in Nat
        OBVIOUS
    <2>3. F(T) = f[x] + F(T \ {x}) /\ F(T \ {x}) \in Nat
        BY <2>1, <2>2, SumRemoves, SumIsNat
    <2>4. G(T) = g[x] + G(T \ {x}) /\ G(T \ {x}) \in Nat
        BY <2>1, <2>2, SumRemoves, SumIsNat
    <2>5. E(T) = e[x] + E(T \ {x}) /\ E(T \ {x}) \in Nat
        BY <2>1, <2>2, SumRemoves, SumIsNat
    <2>6. F(T \ {x}) <= G(T \ {x}) + E(T \ {x})
        BY <1>2, <2>1
    <2>7. f[x] \in Nat /\ g[x] \in Nat /\ e[x] \in Nat /\ f[x] <= g[x] + e[x]
        BY <2>1
    <2> HIDE DEF F, G, E
    <2>8. F(T) <= G(T) + E(T)
        BY <2>3, <2>4, <2>5, <2>6, <2>7
    <2> QED
        BY <2>8
<1>3. S \in Q
    <2> HIDE DEF Q
    <2>1. \A T \in SUBSET S : T # {} /\ (\A x \in T : T \ {x} \in Q) => T \in Q
        BY <1>2
    <2>2. \A T \in SUBSET S : T \in Q
        BY <1>1, <2>1, AllSubsets
    <2> QED
        BY <2>2
<1> QED
    BY <1>3

\* A sum that adds the same for each member counts the members.
LEMMA OneMore ==
    ASSUME NEW c \in Nat, NEW n \in Nat
    PROVE  c + c * n = c * (n + 1)
OBVIOUS

LEMMA SumCounts ==
    ASSUME NEW S, IsFiniteSet(S), NEW f, NEW c \in Nat, \A x \in S : f[x] = c
    PROVE  SumFunctionOnSet(f, S) = c * Cardinality(S)
<1> DEFINE Q == {T \in SUBSET S : SumFunctionOnSet(f, T) = c * Cardinality(T)}
<1>1. {} \in Q
    BY SumOfNone, FS_EmptySet
<1>2. ASSUME NEW T \in SUBSET S, T # {}, \A x \in T : T \ {x} \in Q
      PROVE  T \in Q
    <2>1. PICK x \in T : TRUE
        BY <1>2
    <2>2. SumFunctionOnSet(f, T) = f[x] + SumFunctionOnSet(f, T \ {x})
        BY <2>1, SumRemoves
    <2> DEFINE n == Cardinality(T \ {x})
    <2>3. n \in Nat /\ Cardinality(T) = n + 1
        BY <2>1, FS_Subset, FS_CardinalityType, FS_RemoveElement
    <2>4. SumFunctionOnSet(f, T \ {x}) = c * n /\ f[x] = c
        BY <1>2, <2>1
    <2> HIDE DEF n
    <2>5. SumFunctionOnSet(f, T) = c * Cardinality(T)
        BY <2>2, <2>3, <2>4, OneMore
    <2> QED
        BY <2>5
<1>3. S \in Q
    <2> HIDE DEF Q
    <2>1. \A T \in SUBSET S : T # {} /\ (\A x \in T : T \ {x} \in Q) => T \in Q
        BY <1>2
    <2>2. \A T \in SUBSET S : T \in Q
        BY <1>1, <2>1, AllSubsets
    <2> QED
        BY <2>2
<1> QED
    BY <1>3

\* Parts of a set that do not overlap have no more members together than the set.
LEMMA SumOfCounts ==
    ASSUME NEW S, IsFiniteSet(S), NEW X, IsFiniteSet(X), NEW f,
           \A s \in S : f[s] = Cardinality({x \in X : x.id = s.id}),
           \A s, t \in S : s.id = t.id => s = t
    PROVE  SumFunctionOnSet(f, S) \in Nat /\ SumFunctionOnSet(f, S) <= Cardinality(X)
<1> DEFINE Of(s) == {x \in X : x.id = s.id}
           All(T) == {x \in X : \E s \in T : x.id = s.id}
           Q == {T \in SUBSET S : SumFunctionOnSet(f, T) = Cardinality(All(T))}
<1>1. /\ \A s : IsFiniteSet(Of(s)) /\ Cardinality(Of(s)) \in Nat
      /\ \A T : IsFiniteSet(All(T)) /\ Cardinality(All(T)) \in Nat /\ Cardinality(All(T)) <= Cardinality(X)
    BY FS_Subset, FS_CardinalityType
<1>2. \A s \in S : f[s] \in Nat
    BY <1>1
<1>3. {} \in Q
    <2>1. All({}) = {}
        OBVIOUS
    <2> QED
        BY <2>1, SumOfNone, FS_EmptySet
<1>4. ASSUME NEW T \in SUBSET S, T # {}, \A s \in T : T \ {s} \in Q
      PROVE  T \in Q
    <2>1. PICK s \in T : TRUE
        BY <1>4
    <2>2. SumFunctionOnSet(f, T) = f[s] + SumFunctionOnSet(f, T \ {s})
        BY <1>2, <2>1, SumRemoves
    <2>3. f[s] = Cardinality(Of(s)) /\ SumFunctionOnSet(f, T \ {s}) = Cardinality(All(T \ {s}))
        BY <1>4, <2>1
    <2>4. All(T) = Of(s) \cup All(T \ {s}) /\ Of(s) \cap All(T \ {s}) = {}
        BY <2>1
    <2> HIDE DEF Of, All
    <2>5. Cardinality(All(T)) = Cardinality(Of(s)) + Cardinality(All(T \ {s})) - Cardinality(Of(s) \cap All(T \ {s}))
        BY <1>1, <2>4, FS_Union
    <2>6. Cardinality(Of(s) \cap All(T \ {s})) = 0
        BY <2>4, FS_EmptySet
    <2> QED
        BY <1>1, <2>2, <2>3, <2>5, <2>6
<1>5. S \in Q
    <2> HIDE DEF Q
    <2>1. \A T \in SUBSET S : T # {} /\ (\A s \in T : T \ {s} \in Q) => T \in Q
        BY <1>4
    <2>2. \A T \in SUBSET S : T \in Q
        BY <1>3, <2>1, AllSubsets
    <2> QED
        BY <2>2
<1> QED
    BY <1>1, <1>5

-----------------------------------------------------------------------------
\* Integer division, and what the solver needs of multiplication.
LEMMA Quotient ==
    ASSUME NEW a \in Nat, NEW b \in Nat \ {0}
    PROVE  a \div b \in Nat /\ b * (a \div b) <= a /\ a < b * (a \div b) + b
OBVIOUS

\* What is smaller than the modulus is its own remainder.
LEMMA Remainder ==
    ASSUME NEW a \in Nat, NEW b \in Nat, a < b
    PROVE  a % b = a
OBVIOUS

LEMMA Products ==
    ASSUME NEW a \in Nat, NEW b \in Nat, NEW c \in Nat
    PROVE  /\ a * c \in Nat /\ a * c = c * a /\ (a + 1) * c = a * c + c
           /\ a <= b => a * c <= b * c
OBVIOUS

-----------------------------------------------------------------------------
USE HiddenAssumption

(***************************************************************************)
(* The invariant of the calculator.  The usage of a pod is what was        *)
(* sampled, until its own key is divided; what the range over the map has  *)
(* behind it and did not divide has nobody to be divided among.            *)
(***************************************************************************)
Samples == Indexed(world.use)

OfPod(p) == {k \in Keys : k[1] = p}

Undivided(p) ==
    \A k \in OfPod(p) : /\ k \in DOMAIN use <=> k \in DOMAIN Samples
                        /\ At(use, k) = At(Samples, k)

PodShare(k) ==
    LET p == k[1] IN
    IF k \in DOMAIN Weights(p) THEN Share(Samples[PodTotal(p)], k, Weights(p)) ELSE 0

Divided(p) ==
    /\ PodTotal(p) \in DOMAIN Samples
    /\ DOMAIN Weights(p) # {}
    /\ \A k \in OfPod(p) :
         /\ k \in DOMAIN use
              <=> k # PodTotal(p) /\ (k \in DOMAIN Samples \/ k \in DOMAIN Weights(p))
         /\ k # PodTotal(p) => At(use, k) = At(Samples, k) + PodShare(k)

WorldInv ==
    /\ DOMAIN world.use \subseteq Keys /\ \A k \in DOMAIN world.use : world.use[k] \in Usages
    /\ DOMAIN world.req \subseteq WorkloadKeys /\ \A k \in DOMAIN world.req : world.req[k] \in Requests
    /\ DOMAIN world.lim \subseteq WorkloadKeys /\ \A k \in DOMAIN world.lim : world.lim[k] \in Limits

MergeInv ==
    /\ req = Indexed(world.req) /\ lim = Indexed(world.lim)
    /\ DOMAIN use \subseteq Keys /\ \A k \in DOMAIN use : use[k] \in Nat
    /\ \A p \in Pods : Undivided(p) \/ Divided(p)

RangeInv ==
    /\ todo \subseteq DOMAIN use
    /\ phase = "done" => todo = {}
    /\ phase \in {"merge", "done"} =>
         \A p \in Pods : PodTotal(p) \in DOMAIN use \ todo => DOMAIN Weights(p) = {}

PhaseInv ==
    /\ phase \in {"query", "failed", "merge", "done"}
    /\ filter \in Asked
    /\ results \in [Queries -> {"running", "answered", "failed"}]
    /\ phase \in {"merge", "done"} => \A q \in Queries : results[q] = "answered"
    /\ phase \in {"query", "failed"} => use = Empty /\ req = Empty /\ lim = Empty /\ todo = {}

CalculatorInv == WorldInv /\ MergeInv /\ RangeInv /\ PhaseInv

-----------------------------------------------------------------------------
LEMMA KeyFacts ==
    /\ IsFiniteSet(Keys)
    /\ \A k \in Keys : k[1] \in Pods /\ k \in OfPod(k[1])
    /\ \A p \in Pods : PodTotal(p) \in Keys /\ PodTotal(p) \in OfPod(p)
    /\ \A p : PodTotal(p) \notin WorkloadKeys /\ PodTotal(p)[1] = p /\ PodTotal(p)[2] = NoContainer
    /\ \A k \in Keys : k \in WorkloadKeys <=> k # PodTotal(k[1])
    /\ \A k \in Keys : k \in WorkloadKeys <=> k[2] # NoContainer
<1>1. IsFiniteSet({PodTotal(w[1]) : w \in WorkloadKeys})
    <2> DEFINE T == {PodTotal(w[1]) : w \in WorkloadKeys}
               f == [w \in WorkloadKeys |-> PodTotal(w[1])]
    <2>1. f \in Surjection(WorkloadKeys, T)
        BY DEF Surjection
    <2> HIDE DEF f, T
    <2>2. IsFiniteSet(T)
        BY <2>1, WorkloadKeysAssumption, FS_Surjection
    <2> QED
        BY <2>2 DEF T
<1>2. IsFiniteSet(Keys)
    BY <1>1, WorkloadKeysAssumption, FS_Union DEF Keys
<1>3. \A p : PodTotal(p)[1] = p /\ PodTotal(p)[2] = NoContainer
    BY DEF PodTotal
<1>4. \A p : PodTotal(p) \notin WorkloadKeys
    BY <1>3, WorkloadKeysAssumption
<1>5. \A k \in Keys : k \in WorkloadKeys \/ \E w \in WorkloadKeys : k = PodTotal(w[1])
    BY DEF Keys
<1>6. \A k \in Keys : k[1] \in Pods
    BY <1>3, <1>5 DEF Pods
<1>7. \A p \in Pods : PodTotal(p) \in Keys
    BY DEF Pods, Keys
<1>8. \A k \in Keys : k \in WorkloadKeys <=> k # PodTotal(k[1])
    BY <1>3, <1>4, <1>5
<1>9. \A k \in Keys : k \in WorkloadKeys <=> k[2] # NoContainer
    BY <1>3, <1>4, <1>5, WorkloadKeysAssumption
<1> QED
    BY <1>2, <1>3, <1>4, <1>6, <1>7, <1>8, <1>9 DEF OfPod

\* What the filters leave of a map.
LEMMA IndexedFacts ==
    ASSUME NEW m
    PROVE  /\ DOMAIN Indexed(m) = {k \in DOMAIN m : Queried(k) /\ ~ IsObservability(k)}
           /\ \A k \in DOMAIN Indexed(m) : Indexed(m)[k] = m[k]
BY DEF Indexed, Restrict

LEMMA SamplesFacts ==
    ASSUME WorldInv
    PROVE  /\ DOMAIN Samples \subseteq Keys
           /\ \A k \in DOMAIN Samples : /\ Samples[k] \in Usages
                                         /\ Samples[k] \in Nat
                                         /\ Samples[k] = world.use[k]
           /\ \A k : At(Samples, k) \in Nat
<1>1. /\ DOMAIN Samples \subseteq Keys
      /\ \A k \in DOMAIN Samples : Samples[k] = world.use[k] /\ Samples[k] \in Usages
    BY IndexedFacts DEF WorldInv, Samples
<1>2. \A k \in DOMAIN Samples : Samples[k] \in Nat
    BY <1>1, ValuesAssumption
<1> QED
    BY <1>1, <1>2 DEF At

\* The weights are the requests or the limits of containers that are shown.
LEMMA WeightsFacts ==
    ASSUME WorldInv, MergeInv, NEW p
    PROVE  /\ DOMAIN Weights(p) \in SUBSET Containers(p)
           /\ DOMAIN Weights(p) \subseteq OfPod(p)
           /\ PodTotal(p) \notin DOMAIN Weights(p)
           /\ IsFiniteSet(DOMAIN Weights(p))
           /\ \E V \in {Requests, Limits} : Weights(p) \in [DOMAIN Weights(p) -> V \ {0}]
           /\ \A w \in DOMAIN Weights(p) : Weights(p)[w] \in Nat \ {0}
<1>1. /\ \A k \in DOMAIN req : k \in WorkloadKeys /\ ~ IsObservability(k) /\ req[k] \in Requests
      /\ \A k \in DOMAIN lim : k \in WorkloadKeys /\ ~ IsObservability(k) /\ lim[k] \in Limits
    BY IndexedFacts DEF WorldInv, MergeInv
<1>2. /\ Weighted(p, req) \subseteq Containers(p) /\ \A k \in Weighted(p, req) : req[k] \in Requests \ {0}
      /\ Weighted(p, lim) \subseteq Containers(p) /\ \A k \in Weighted(p, lim) : lim[k] \in Limits \ {0}
    BY <1>1 DEF Weighted, Containers
<1>3. PICK V \in {Requests, Limits}, S \in SUBSET Containers(p) :
        DOMAIN Weights(p) = S /\ Weights(p) \in [S -> V \ {0}]
    <2>1. CASE Weighted(p, req) # {}
        <3>1. Weights(p) \in [Weighted(p, req) -> Requests \ {0}]
            BY <1>2, <2>1 DEF Weights, Restrict
        <3> QED
            BY <1>2, <3>1
    <2>2. CASE Weighted(p, req) = {}
        <3>1. Weights(p) \in [Weighted(p, lim) -> Limits \ {0}]
            BY <1>2, <2>2 DEF Weights, Restrict
        <3> QED
            BY <1>2, <3>1
    <2> QED
        BY <2>1, <2>2
<1>4. /\ Containers(p) \subseteq WorkloadKeys /\ Containers(p) \subseteq OfPod(p)
      /\ PodTotal(p) \notin Containers(p)
    BY KeyFacts DEF Containers, OfPod, Keys
<1>5. IsFiniteSet(DOMAIN Weights(p))
    BY <1>3, <1>4, WorkloadKeysAssumption, FS_Subset
<1>6. \A w \in DOMAIN Weights(p) : Weights(p)[w] \in Nat \ {0}
    BY <1>3, ValuesAssumption
<1> QED
    BY <1>3, <1>4, <1>5, <1>6

LEMMA ExactQuotient ==
    ASSUME NEW a \in Nat, NEW t \in Nat, t # 0, a % t = 0
    PROVE  a \div t \in Nat /\ (a \div t) * t = a
OBVIOUS

\* The shares are whole and add up to what is divided.
LEMMA SharesAddUp ==
    ASSUME WorldInv, MergeInv, NEW p \in Pods, NEW u \in Usages, DOMAIN Weights(p) # {}
    PROVE  /\ \A c \in DOMAIN Weights(p) : Share(u, c, Weights(p)) \in Nat
           /\ SumFunction([c \in DOMAIN Weights(p) |-> Share(u, c, Weights(p))]) = u
<1> DEFINE W == Weights(p)
           C == DOMAIN W
           t == SumFunction(W)
           f == [c \in C |-> Share(u, c, W)]
<1>1. /\ C \in SUBSET Containers(p) /\ IsFiniteSet(C) /\ C # {}
      /\ \E V \in {Requests, Limits} : W \in [C -> V \ {0}]
      /\ \A c \in C : W[c] \in Nat /\ W[c] # 0
    BY WeightsFacts
<1>2. u \in Nat
    BY ValuesAssumption
<1>3. \A c \in C : (u * W[c]) % t = 0
    BY <1>1, UnitAssumption
<1>4. t = SumFunctionOnSet(W, C)
    BY DEF SumFunction
<1> HIDE DEF W
<1>5. t \in Nat /\ t # 0
    BY <1>1, <1>4, SumIsZero
<1> HIDE DEF t
<1>6. ASSUME NEW c \in C
      PROVE  Share(u, c, W) \in Nat /\ Share(u, c, W) * t = u * W[c]
    <2> DEFINE a == u * W[c]
    <2>1. a \in Nat /\ a % t = 0
        BY <1>1, <1>2, <1>3
    <2>2. Share(u, c, W) = a \div t
        BY DEF Share, t
    <2> HIDE DEF a
    <2>3. a \div t \in Nat /\ (a \div t) * t = a
        BY <1>5, <2>1, ExactQuotient
    <2> QED
        BY <2>2, <2>3 DEF a
<1>7. \A c \in C : f[c] \in Nat /\ W[c] \in Nat /\ f[c] * t = u * W[c]
    BY <1>1, <1>6
<1>8. SumFunctionOnSet(f, C) * t = u * SumFunctionOnSet(W, C)
    <2> HIDE DEF f, C
    <2> QED
        BY <1>1, <1>2, <1>5, <1>7, SumOfShares
<1>9. SumFunctionOnSet(f, C) \in Nat
    <2> HIDE DEF f, C
    <2> QED
        BY <1>1, <1>7, SumIsNat
<1>10. SumFunctionOnSet(f, C) = u
    <2> DEFINE s == SumFunctionOnSet(f, C)
    <2>1. s \in Nat /\ s * t = u * t
        BY <1>4, <1>8, <1>9
    <2> HIDE DEF s
    <2>2. s = u
        BY <1>2, <1>5, <2>1, Cancels
    <2> QED
        BY <2>2 DEF s
<1>11. SumFunction(f) = SumFunctionOnSet(f, C)
    BY DEF SumFunction
<1> QED
    BY <1>6, <1>10, <1>11 DEF W

-----------------------------------------------------------------------------
LEMMA EmptyFacts ==
    /\ DOMAIN Empty = {}
    /\ Indexed(Empty) = Empty
<1>1. DOMAIN Empty = {}
    BY DEF Empty
<1> QED
    BY <1>1 DEF Indexed, Restrict, Empty

\* Without a sample everything holds.
LEMMA NothingSampled ==
    ASSUME world = [use |-> Empty, req |-> Empty, lim |-> Empty],
           use = Empty, req = Empty, lim = Empty
    PROVE  WorldInv /\ MergeInv
<1>1. world.use = Empty /\ world.req = Empty /\ world.lim = Empty
    OBVIOUS
<1>2. WorldInv
    BY <1>1, EmptyFacts DEF WorldInv
<1>3. \A p : Undivided(p)
    BY <1>1, EmptyFacts DEF Undivided, At, Samples
<1> QED
    BY <1>1, <1>2, <1>3, EmptyFacts DEF MergeInv

LEMMA CalculatorInitially == CalculatorInit => CalculatorInv
<1> SUFFICES ASSUME CalculatorInit PROVE CalculatorInv
    OBVIOUS
<1>1. WorldInv /\ MergeInv
    BY NothingSampled DEF CalculatorInit
<1>2. RangeInv /\ PhaseInv
    BY EmptyFacts DEF RangeInv, PhaseInv, CalculatorInit
<1> QED
    BY <1>1, <1>2 DEF CalculatorInv

\* What does not touch the maps keeps what is said of them.
LEMMA MapsKept ==
    ASSUME UNCHANGED <<filter, maps, world>>
    PROVE  /\ WorldInv => WorldInv'
           /\ MergeInv => MergeInv'
           /\ \A p : Weights(p)' = Weights(p)
<1>1. use' = use /\ req' = req /\ lim' = lim /\ filter' = filter /\ world' = world
    BY DEF maps
<1>2. \A p : Weights(p)' = Weights(p)
    BY <1>1 DEF Weights, Weighted
<1>3. \A m : Indexed(m)' = Indexed(m)
    BY <1>1 DEF Indexed, Queried
<1>4. Samples' = Samples
    BY <1>1, <1>3 DEF Samples
<1>5. \A p : (Undivided(p) => Undivided(p)') /\ (Divided(p) => Divided(p)')
    BY <1>1, <1>2, <1>4 DEF Undivided, Divided, PodShare
<1>6. WorldInv => WorldInv'
    BY <1>1 DEF WorldInv
<1>7. MergeInv => MergeInv'
    BY <1>1, <1>3, <1>5 DEF MergeInv
<1> QED
    BY <1>2, <1>6, <1>7

LEMMA IndexSteps ==
    ASSUME CalculatorInv, Index
    PROVE  CalculatorInv'
<1>1. PICK U \in SUBSET Keys, R \in SUBSET WorkloadKeys, L \in SUBSET WorkloadKeys :
        \E u \in [U -> Usages], r \in [R -> Requests], l \in [L -> Limits] :
            world' = [use |-> u, req |-> r, lim |-> l]
    BY DEF Index
<1>2. PICK u \in [U -> Usages], r \in [R -> Requests], l \in [L -> Limits] :
        world' = [use |-> u, req |-> r, lim |-> l]
    BY <1>1
<1>3. world'.use = u /\ world'.req = r /\ world'.lim = l
    BY <1>2
<1>4. WorldInv'
    BY <1>3 DEF WorldInv
<1>5. filter' = filter /\ results' = results /\ phase' = "merge"
    BY DEF Index
<1>6. \A m : Indexed(m)' = Indexed(m)
    BY <1>5 DEF Indexed, Queried
<1>7. use' = Indexed(u) /\ req' = Indexed(r) /\ lim' = Indexed(l) /\ todo' = DOMAIN use'
    BY <1>3 DEF Index, RangeOverUsage
<1>8. Samples' = use'
    BY <1>3, <1>6, <1>7 DEF Samples
<1>9. \A p : Undivided(p)'
    BY <1>8 DEF Undivided
<1>10. DOMAIN use' \subseteq Keys /\ \A k \in DOMAIN use' : use'[k] \in Nat
    BY <1>7, IndexedFacts, ValuesAssumption
<1>11. MergeInv'
    BY <1>3, <1>6, <1>7, <1>9, <1>10 DEF MergeInv
<1>12. RangeInv'
    BY <1>5, <1>7 DEF RangeInv
<1>13. PhaseInv'
    BY <1>5 DEF CalculatorInv, PhaseInv, Index, AllEnded, NoneFailed
<1> QED
    BY <1>4, <1>11, <1>12, <1>13 DEF CalculatorInv

LEMMA VisitSteps ==
    ASSUME CalculatorInv, NEW k \in Keys, Visit(k)
    PROVE  CalculatorInv'
<1> DEFINE p == k[1]
           W == Weights(p)
<1>1. /\ filter' = filter /\ results' = results /\ phase' = phase /\ phase = "merge"
      /\ req' = req /\ lim' = lim /\ world' = world /\ k \in todo
    BY DEF Visit
<1>2. WorldInv /\ MergeInv /\ RangeInv /\ PhaseInv
    BY DEF CalculatorInv
<1>3. WorldInv' /\ PhaseInv'
    BY <1>1, <1>2 DEF WorldInv, PhaseInv
<1>4. \A q : Weights(q)' = Weights(q)
    BY <1>1 DEF Weights, Weighted
<1>5. CASE k[2] # NoContainer \/ DOMAIN W = {}
    <2>1. use' = use /\ todo' = todo \ {k}
        BY <1>5 DEF Visit
    <2>2. MergeInv'
        BY <1>1, <1>2, <2>1, MapsKept DEF maps
    <2>3. ASSUME NEW q \in Pods, PodTotal(q) \in DOMAIN use' \ todo'
          PROVE  DOMAIN Weights(q) = {}
        <3>1. PodTotal(q) = k => q = p /\ DOMAIN Weights(q) = {}
            BY <1>5, KeyFacts
        <3>2. PodTotal(q) # k => PodTotal(q) \in DOMAIN use \ todo
            BY <2>1, <2>3
        <3> QED
            BY <1>1, <1>2, <3>1, <3>2 DEF RangeInv
    <2>4. RangeInv'
        BY <1>1, <1>2, <1>4, <2>1, <2>3 DEF RangeInv
    <2> QED
        BY <1>3, <2>2, <2>4 DEF CalculatorInv
<1>6. CASE k[2] = NoContainer /\ DOMAIN W # {}
    <2>1. use' = Divide(k, W)
        BY <1>6 DEF Visit
    <2>2. PICK S \in SUBSET (DOMAIN W \ DOMAIN use) : todo' = (todo \ {k}) \cup S
        BY <1>6 DEF Visit
    <2>3. k = PodTotal(p) /\ p \in Pods /\ k \in DOMAIN use
        BY <1>1, <1>2, <1>6, KeyFacts DEF RangeInv
    <2>4. Undivided(p)
        BY <1>2, <2>3, KeyFacts DEF MergeInv, Divided
    <2>5. k \in DOMAIN Samples /\ use[k] = Samples[k] /\ Samples[k] \in Usages
        BY <1>2, <2>3, <2>4, KeyFacts, SamplesFacts DEF Undivided, At
    <2>6. /\ DOMAIN W \subseteq OfPod(p) /\ k \notin DOMAIN W
          /\ \A c \in DOMAIN W : Share(Samples[k], c, W) \in Nat
        BY <1>2, <1>6, <2>3, <2>5, WeightsFacts, SharesAddUp
    <2>7. DOMAIN use' = (DOMAIN use \ {k}) \cup DOMAIN W
        BY <2>1 DEF Divide
    <2>8. \A c \in DOMAIN use' :
            use'[c] = At(use, c) + (IF c \in DOMAIN W THEN Share(Samples[k], c, W) ELSE 0)
        BY <2>1, <2>5, <2>7 DEF Divide
    <2>9. \A c : At(use, c) \in Nat
        BY <1>2 DEF MergeInv, At
    <2>10. DOMAIN use' \subseteq Keys /\ \A c \in DOMAIN use' : use'[c] \in Nat
        <3>1. DOMAIN use' \subseteq Keys
            BY <1>2, <2>6, <2>7 DEF MergeInv, OfPod
        <3> HIDE DEF W
        <3>2. \A c \in DOMAIN use' : use'[c] \in Nat
            BY <2>6, <2>8, <2>9
        <3> QED
            BY <3>1, <3>2
    <2>11. \A m : Indexed(m)' = Indexed(m)
        BY <1>1 DEF Indexed, Queried
    <2>12. Samples' = Samples
        BY <1>1, <2>11 DEF Samples
    <2>13. Divided(p)'
        <3>1. ASSUME NEW c \in OfPod(p)
              PROVE  /\ c \in DOMAIN use'
                          <=> c # PodTotal(p) /\ (c \in DOMAIN Samples \/ c \in DOMAIN Weights(p))
                     /\ c # PodTotal(p) => At(use', c) = At(Samples, c) + PodShare(c)
            <4>1. /\ c \in DOMAIN use <=> c \in DOMAIN Samples
                  /\ At(use, c) = At(Samples, c) /\ c[1] = p
                BY <2>4 DEF Undivided, OfPod
            <4>2. PodShare(c) = IF c \in DOMAIN W THEN Share(Samples[k], c, W) ELSE 0
                BY <2>3, <4>1 DEF PodShare
            <4>3. c \in DOMAIN use' => At(use', c) = At(Samples, c) + PodShare(c)
                BY <2>8, <4>1, <4>2 DEF At
            <4>4. c \notin DOMAIN use' /\ c # k => At(use', c) = At(Samples, c) + PodShare(c)
                <5>1. SUFFICES ASSUME c \notin DOMAIN use', c # k
                               PROVE  At(use', c) = At(Samples, c) + PodShare(c)
                    OBVIOUS
                <5>2. c \notin DOMAIN W /\ c \notin DOMAIN use
                    BY <2>7, <5>1
                <5>3. PodShare(c) = 0 /\ At(Samples, c) = 0 /\ At(use', c) = 0
                    BY <4>1, <4>2, <5>1, <5>2 DEF At
                <5> QED
                    BY <5>3
            <4>5. k = PodTotal(p) /\ k \notin DOMAIN W
                BY <2>3, <2>6
            <4>6. c \in DOMAIN use' <=> c # k /\ (c \in DOMAIN Samples \/ c \in DOMAIN W)
                BY <2>7, <4>1, <4>5
            <4> QED
                BY <4>3, <4>4, <4>5, <4>6
        <3> QED
            BY <1>4, <1>6, <2>3, <2>5, <2>12, <3>1 DEF Divided, PodShare
    <2>14. ASSUME NEW q \in Pods, q # p
           PROVE  \A c \in OfPod(q) : /\ c \in DOMAIN use' <=> c \in DOMAIN use
                                      /\ At(use', c) = At(use, c)
        <3> SUFFICES ASSUME NEW c \in OfPod(q)
                     PROVE  /\ c \in DOMAIN use' <=> c \in DOMAIN use
                            /\ At(use', c) = At(use, c)
            OBVIOUS
        <3>1. c # k /\ c \notin DOMAIN W
            BY <2>6, <2>14 DEF OfPod
        <3>2. c \in DOMAIN use' <=> c \in DOMAIN use
            BY <2>7, <3>1
        <3>3. c \in DOMAIN use' => use'[c] = At(use, c)
            BY <2>8, <2>9, <3>1
        <3> QED
            BY <3>2, <3>3 DEF At
    <2>15. ASSUME NEW q \in Pods
           PROVE  Undivided(q)' \/ Divided(q)'
        <3>1. CASE q = p
            BY <2>13, <3>1
        <3>2. CASE q # p
            <4>1. \A c \in OfPod(q) : /\ c \in DOMAIN use' <=> c \in DOMAIN use
                                      /\ At(use', c) = At(use, c)
                BY <2>14, <3>2
            <4>2. Undivided(q) => Undivided(q)'
                BY <2>12, <4>1 DEF Undivided
            <4>3. Divided(q) => Divided(q)'
                BY <1>4, <2>12, <4>1 DEF Divided, PodShare
            <4> QED
                BY <1>2, <4>2, <4>3 DEF MergeInv
        <3> QED
            BY <3>1, <3>2
    <2>16. MergeInv'
        BY <1>1, <1>2, <2>10, <2>11, <2>15 DEF MergeInv
    <2>17. ASSUME NEW q \in Pods, PodTotal(q) \in DOMAIN use' \ todo'
           PROVE  DOMAIN Weights(q) = {}
        <3>1. PodTotal(q) # k /\ PodTotal(q) \notin DOMAIN W
            <4>1. DOMAIN W \subseteq WorkloadKeys
                BY <1>2, WeightsFacts DEF Containers
            <4> QED
                BY <2>6, <2>7, <2>17, <4>1, KeyFacts
        <3>2. PodTotal(q) \in DOMAIN use \ todo
            BY <2>2, <2>7, <2>17, <3>1
        <3> QED
            BY <1>1, <1>2, <3>2 DEF RangeInv
    <2>18. todo' \subseteq DOMAIN use'
        BY <1>2, <2>2, <2>7 DEF RangeInv
    <2>19. RangeInv'
        BY <1>1, <1>4, <2>17, <2>18 DEF RangeInv
    <2> QED
        BY <1>3, <2>16, <2>19 DEF CalculatorInv
<1> QED
    BY <1>5, <1>6

LEMMA CalculatorSteps ==
    ASSUME CalculatorInv, [IndicatorsNext]_indicatorsVars
    PROVE  CalculatorInv'
<1>1. WorldInv /\ MergeInv /\ RangeInv /\ PhaseInv
    BY DEF CalculatorInv
<1>2. ASSUME UNCHANGED <<filter, maps, world, todo>>,
             phase' \in {"query", "failed", "done"} \/ phase' = phase,
             phase' = "done" => todo = {} /\ phase \in {"merge", "done"},
             PhaseInv'
      PROVE  CalculatorInv'
    <2>1. WorldInv' /\ MergeInv' /\ \A p : Weights(p)' = Weights(p)
        BY <1>1, <1>2, MapsKept
    <2>2. use' = use /\ todo' = todo
        BY <1>2 DEF maps
    <2>3. RangeInv'
        BY <1>1, <1>2, <2>1, <2>2 DEF RangeInv
    <2> QED
        BY <1>2, <2>1, <2>3 DEF CalculatorInv
<1>3. ASSUME NEW q \in Queries, QueryEnds(q)
      PROVE  CalculatorInv'
    <2>1. UNCHANGED <<filter, maps, world, todo>> /\ phase' = "query" /\ phase = "query"
        BY <1>3 DEF QueryEnds
    <2>2. results' \in [Queries -> {"running", "answered", "failed"}]
        BY <1>1, <1>3 DEF QueryEnds, PhaseInv
    <2>3. PhaseInv'
        BY <1>1, <2>1, <2>2 DEF PhaseInv, maps
    <2> QED
        BY <1>2, <2>1, <2>3
<1>4. CASE Fail
    <2>1. UNCHANGED <<filter, maps, world, todo, results>> /\ phase' = "failed" /\ phase = "query"
        BY <1>4 DEF Fail
    <2>2. PhaseInv'
        BY <1>1, <2>1 DEF PhaseInv, maps
    <2> QED
        BY <1>2, <2>1, <2>2
<1>5. CASE Answer
    <2>1. /\ UNCHANGED <<filter, maps, world, todo, results>>
          /\ phase' = "done" /\ phase = "merge" /\ todo = {}
        BY <1>5 DEF Answer
    <2>2. PhaseInv'
        BY <1>1, <2>1 DEF PhaseInv, maps
    <2> QED
        BY <1>2, <2>1, <2>2
<1>6. CASE UNCHANGED indicatorsVars
    <2>1. UNCHANGED <<filter, maps, world, todo, results, phase>>
        BY <1>6 DEF indicatorsVars, calculatorVars
    <2>2. PhaseInv'
        BY <1>1, <2>1 DEF PhaseInv, maps
    <2>3. phase = "done" => todo = {}
        BY <1>1 DEF RangeInv
    <2> QED
        BY <1>2, <2>1, <2>2, <2>3
<1>7. ASSUME NEW r, EndsWith(r), phase \in {"failed", "done"}
      PROVE  CalculatorInv'
    <2>1. /\ world' = [use |-> Empty, req |-> Empty, lim |-> Empty]
          /\ use' = Empty /\ req' = Empty /\ lim' = Empty
          /\ phase' = phase /\ filter' = filter /\ results' = results /\ todo' = todo
        BY <1>7 DEF EndsWith
    <2>2. /\ world'.use = Empty /\ world'.req = Empty /\ world'.lim = Empty
        BY <2>1
    <2>3. WorldInv'
        BY <2>2, EmptyFacts DEF WorldInv
    <2>4. Indexed(Empty)' = Empty
        BY EmptyFacts DEF Indexed, Restrict, Empty
    <2>5. \A p : Undivided(p)'
        BY <2>1, <2>2, <2>4, EmptyFacts DEF Undivided, At, Samples
    <2>6. MergeInv'
        BY <2>1, <2>2, <2>4, <2>5, EmptyFacts DEF MergeInv
    <2>7. todo' = {}
        BY <1>1, <1>7, <2>1 DEF RangeInv, PhaseInv
    <2>8. RangeInv'
        BY <2>1, <2>7, EmptyFacts DEF RangeInv
    <2>9. PhaseInv'
        BY <1>1, <2>1, <2>7 DEF PhaseInv
    <2> QED
        BY <2>3, <2>6, <2>8, <2>9 DEF CalculatorInv
<1> QED
    BY <1>3, <1>4, <1>5, <1>6, <1>7, IndexSteps, VisitSteps
    DEF IndicatorsNext, Calculates, CalculatorNext, BadGateway, Responds

LEMMA CalculatorAlways == IndicatorsSpec => []CalculatorInv
<1>1. IndicatorsInit => CalculatorInv
    BY CalculatorInitially DEF IndicatorsInit
<1>2. CalculatorInv /\ [IndicatorsNext]_indicatorsVars => CalculatorInv'
    BY CalculatorSteps
<1> QED
    BY <1>1, <1>2, PTL DEF IndicatorsSpec

-----------------------------------------------------------------------------
(***************************************************************************)
(* The calculator's state keeps its types, whatever is sampled and in      *)
(* whatever order the map is ranged over (calculations.go:213-255).        *)
(***************************************************************************)
THEOREM CalculatorTypeCorrect == IndicatorsSpec => []CalculatorTypeOK
<1>1. ASSUME CalculatorInv PROVE CalculatorTypeOK
    <2>1. WorldInv /\ MergeInv /\ RangeInv /\ PhaseInv
        BY <1>1 DEF CalculatorInv
    <2>2. DOMAIN req \subseteq WorkloadKeys /\ DOMAIN lim \subseteq WorkloadKeys
        BY <2>1, IndexedFacts DEF WorldInv, MergeInv
    <2> QED
        BY <2>1, <2>2 DEF WorldInv, MergeInv, RangeInv, PhaseInv, CalculatorTypeOK
<1> QED
    BY <1>1, CalculatorAlways, PTL

LEMMA UndividedConserved ==
    ASSUME WorldInv, MergeInv, NEW p \in Pods, Undivided(p)
    PROVE  UsageOf(use, p) = UsageOf(Samples, p)
<1> DEFINE D == {k \in DOMAIN use : k[1] = p}
<1>1. \A k \in DOMAIN use : k \in Keys
    BY DEF MergeInv
<1>2. \A k \in DOMAIN Samples : k \in Keys
    BY SamplesFacts
<1>3. D = {k \in DOMAIN Samples : k[1] = p}
    BY <1>1, <1>2 DEF Undivided, OfPod
<1>4. \A k \in D : use[k] \in Nat /\ Samples[k] = use[k]
    BY <1>1, <1>3 DEF Undivided, OfPod, At, MergeInv
<1>5. IsFiniteSet(D)
    BY <1>1, KeyFacts, FS_Subset
<1> HIDE DEF D
<1>6. SumFunctionOnSet(use, D) = SumFunctionOnSet(Samples, D)
    BY <1>4, <1>5, SumSame
<1> QED
    BY <1>3, <1>6 DEF UsageOf, D

LEMMA DividedConserved ==
    ASSUME WorldInv, MergeInv, NEW p \in Pods, Divided(p)
    PROVE  UsageOf(use, p) = UsageOf(Samples, p)
<1> DEFINE K == OfPod(p)
           t == PodTotal(p)
           C == DOMAIN Weights(p)
           s == [c \in C |-> Share(Samples[t], c, Weights(p))]
           u == [k \in K |-> At(Samples, k)]
           f == [k \in K |-> IF k = t THEN 0 ELSE At(Samples, k)]
           g == [k \in K |-> IF k = t THEN 0 ELSE PodShare(k)]
           h == [k \in K |-> IF k = t THEN 0 ELSE At(use, k)]
           D == {k \in DOMAIN Samples : k[1] = p}
           E == {k \in DOMAIN use : k[1] = p}
<1>1. /\ IsFiniteSet(K) /\ t \in K
      /\ t \in DOMAIN Samples /\ Samples[t] \in Usages /\ C # {} /\ C \subseteq K /\ t \notin C
    <2>1. IsFiniteSet(K)
        <3>1. K \subseteq Keys
            BY DEF OfPod
        <3> QED
            BY <3>1, KeyFacts, FS_Subset
    <2> QED
        BY <2>1, KeyFacts, SamplesFacts, WeightsFacts DEF Divided
<1>2. \A k : At(Samples, k) \in Nat /\ At(use, k) \in Nat
    BY SamplesFacts DEF MergeInv, At
<1>3. (\A c \in C : s[c] \in Nat) /\ SumFunctionOnSet(s, C) = Samples[t]
    <2>1. SumFunction(s) = SumFunctionOnSet(s, C)
        BY DEF SumFunction
    <2> QED
        BY <1>1, <2>1, SharesAddUp
<1>4. \A k \in K : PodShare(k) = IF k \in C THEN s[k] ELSE 0
    BY DEF PodShare, OfPod
<1>5. \A k \in K : PodShare(k) \in Nat
    BY <1>3, <1>4
<1>6. D \subseteq K /\ E \subseteq K
    BY SamplesFacts DEF OfPod, MergeInv
\* What the pod has now is what it had without its own key, and the shares.
<1>7. SumFunctionOnSet(use, E) = SumFunctionOnSet(f, K) + SumFunctionOnSet(g, K)
    <2>1. \A k \in K : f[k] \in Nat /\ g[k] \in Nat /\ h[k] \in Nat /\ h[k] = f[k] + g[k]
        <3>1. ASSUME NEW k \in K, k # t
              PROVE  At(use, k) = At(Samples, k) + PodShare(k)
            BY <3>1 DEF Divided
        <3> QED
            BY <1>2, <1>5, <3>1
    <2>2. SumFunctionOnSet(h, K) = SumFunctionOnSet(f, K) + SumFunctionOnSet(g, K)
        <3> HIDE DEF f, g, h, K
        <3> QED
            BY <1>1, <2>1, SumOfSums
    <2>3. \A k \in E : h[k] \in Nat /\ use[k] = h[k]
        <3>1. t \notin DOMAIN use
            BY <1>1 DEF Divided
        <3> QED
            BY <1>2, <1>6, <3>1 DEF At
    <2>4. \A k \in K \ E : h[k] = 0
        BY DEF OfPod, At
    <2>5. IsFiniteSet(E)
        BY <1>1, <1>6, FS_Subset
    <2>6. SumFunctionOnSet(h, E) = SumFunctionOnSet(use, E)
        <3> HIDE DEF h, E
        <3> QED
            BY <2>3, <2>5, SumSame
    <2>7. SumFunctionOnSet(h, K) = SumFunctionOnSet(h, E)
        <3> HIDE DEF f, g, h, E, K
        <3> QED
            BY <1>1, <1>6, <2>1, <2>4, SumOfPart
    <2> QED
        BY <2>2, <2>6, <2>7
<1>8. SumFunctionOnSet(g, K) = Samples[t]
    <2>1. \A k \in K : g[k] \in Nat
        BY <1>5
    <2>2. \A k \in K \ C : g[k] = 0
        BY <1>4
    <2>3. \A k \in C : s[k] \in Nat /\ g[k] = s[k]
        BY <1>1, <1>3, <1>4
    <2>4. IsFiniteSet(C)
        BY <1>1, FS_Subset
    <2> HIDE DEF g, s, K, C
    <2>5. SumFunctionOnSet(g, K) = SumFunctionOnSet(g, C)
        BY <1>1, <2>1, <2>2, SumOfPart
    <2>6. SumFunctionOnSet(s, C) = SumFunctionOnSet(g, C)
        BY <2>3, <2>4, SumSame
    <2> QED
        BY <1>3, <2>5, <2>6
\* What it had is that, and its own key.
<1>9. SumFunctionOnSet(Samples, D) = Samples[t] + SumFunctionOnSet(f, K)
    <2>1. /\ \A k \in K : u[k] \in Nat /\ f[k] \in Nat
          /\ \A k \in K \ {t} : f[k] = u[k]
          /\ \A k \in K \ (K \ {t}) : f[k] = 0
          /\ u[t] = Samples[t]
        BY <1>1, <1>2 DEF At
    <2>2. \A k \in D : u[k] \in Nat /\ Samples[k] = u[k]
        BY <1>2, <1>6 DEF At
    <2>3. \A k \in K \ D : u[k] = 0
        BY DEF OfPod, At
    <2>4. IsFiniteSet(D) /\ IsFiniteSet(K \ {t})
        BY <1>1, <1>6, FS_Subset
    <2> HIDE DEF u, f, K, D, t
    <2>5. SumFunctionOnSet(u, D) = SumFunctionOnSet(Samples, D)
        BY <2>2, <2>4, SumSame
    <2>6. SumFunctionOnSet(u, K) = SumFunctionOnSet(u, D)
        BY <1>1, <1>6, <2>1, <2>3, SumOfPart
    <2>7. SumFunctionOnSet(u, K) = u[t] + SumFunctionOnSet(u, K \ {t})
        BY <1>1, <2>1, SumRemoves
    <2>8. SumFunctionOnSet(u, K \ {t}) = SumFunctionOnSet(f, K \ {t})
        BY <2>1, <2>4, SumSame
    <2>9. SumFunctionOnSet(f, K) = SumFunctionOnSet(f, K \ {t})
        <3>1. K \ {t} \in SUBSET K
            OBVIOUS
        <3> QED
            BY <1>1, <2>1, <3>1, SumOfPart
    <2> QED
        BY <2>1, <2>5, <2>6, <2>7, <2>8, <2>9
<1>10. SumFunctionOnSet(f, K) \in Nat /\ Samples[t] \in Nat
    <2>1. \A k \in K : f[k] \in Nat
        BY <1>2
    <2> HIDE DEF f, K
    <2> QED
        BY <1>1, <2>1, SumIsNat, SamplesFacts
<1> QED
    BY <1>7, <1>8, <1>9, <1>10 DEF UsageOf

(***************************************************************************)
(* A pod's usage is conserved by every step of the merge (UsageConserved,  *)
(* calculations.go:213-217), in whatever order the map is ranged over.     *)
(***************************************************************************)
THEOREM NoUsageLost == IndicatorsSpec => []UsageConserved
<1>1. ASSUME CalculatorInv PROVE UsageConserved
    <2>1. WorldInv /\ MergeInv /\ \A p \in Pods : Undivided(p) \/ Divided(p)
        BY <1>1 DEF CalculatorInv, MergeInv
    <2>2. \A p \in Pods : UsageOf(use, p) = UsageOf(Samples, p)
        BY <2>1, UndividedConserved, DividedConserved
    <2> QED
        BY <2>2 DEF UsageConserved, Samples
<1> QED
    BY <1>1, CalculatorAlways, PTL

-----------------------------------------------------------------------------
\* What a container is entitled to, of a pod all of whose containers were asked for, is its
\* weight.
LEMMA EntitledFacts ==
    ASSUME WorldInv
    PROVE  /\ \A w : Entitlement(w) \in Nat
           /\ \A p \in Pods : Entitled(p) \in Nat
<1>1. \A k : At(world.req, k) \in Nat /\ At(world.lim, k) \in Nat
    BY ValuesAssumption DEF WorldInv, At
<1>2. \A w : Entitlement(w) \in Nat
    BY <1>1 DEF Entitlement
<1>3. ASSUME NEW p \in Pods
      PROVE  Entitled(p) \in Nat
    <2> DEFINE C == Containers(p)
               f == [w \in C |-> Entitlement(w)]
    <2>1. IsFiniteSet(C)
        BY WorkloadKeysAssumption, FS_Subset DEF Containers
    <2>2. \A w \in C : f[w] \in Nat
        BY <1>2
    <2>3. Entitled(p) = SumFunctionOnSet(f, C)
        BY DEF Entitled, SumFunction
    <2> HIDE DEF f, C
    <2> QED
        BY <2>1, <2>2, <2>3, SumIsNat
<1> QED
    BY <1>2, <1>3

LEMMA WeightsAreEntitlements ==
    ASSUME WorldInv, MergeInv, filter = NoContainer, NEW p \in Pods
    PROVE  /\ DOMAIN Weights(p) = {w \in Containers(p) : Entitlement(w) # 0}
           /\ \A w \in DOMAIN Weights(p) : Weights(p)[w] = Entitlement(w)
           /\ SumFunction(Weights(p)) = Entitled(p)
           /\ Entitled(p) = 0 <=> DOMAIN Weights(p) = {}
<1>1. /\ DOMAIN req = {k \in DOMAIN world.req : ~ IsObservability(k)}
      /\ \A k \in DOMAIN req : req[k] = world.req[k] /\ k \in WorkloadKeys /\ req[k] \in Nat
      /\ DOMAIN lim = {k \in DOMAIN world.lim : ~ IsObservability(k)}
      /\ \A k \in DOMAIN lim : lim[k] = world.lim[k] /\ k \in WorkloadKeys /\ lim[k] \in Nat
    BY IndexedFacts, ValuesAssumption DEF WorldInv, MergeInv, Queried
<1>2. \A w \in Containers(p) : /\ w[1] = p /\ w[2] # NoContainer /\ w \in WorkloadKeys
                               /\ At(req, w) = At(world.req, w) /\ At(req, w) \in Nat
                               /\ At(lim, w) = At(world.lim, w) /\ At(lim, w) \in Nat
    BY <1>1, WorkloadKeysAssumption DEF Containers, At
<1>3. /\ Weighted(p, req) = {w \in Containers(p) : At(world.req, w) > 0}
      /\ Weighted(p, lim) = {w \in Containers(p) : At(world.lim, w) > 0}
    <2>1. Weighted(p, req) \subseteq Containers(p) /\ Weighted(p, lim) \subseteq Containers(p)
        BY <1>1 DEF Weighted, Containers
    <2>2. \A w \in Containers(p) : /\ w \in Weighted(p, req) <=> At(world.req, w) > 0
                                   /\ w \in Weighted(p, lim) <=> At(world.lim, w) > 0
        BY <1>1, <1>2 DEF Weighted, At
    <2> QED
        BY <2>1, <2>2
<1>4. Weighted(p, req) # {} <=> HasRequest(p)
    BY <1>3 DEF HasRequest
<1>5. /\ DOMAIN Weights(p) = {w \in Containers(p) : Entitlement(w) # 0}
      /\ \A w \in DOMAIN Weights(p) : Weights(p)[w] = Entitlement(w)
    <2>1. CASE HasRequest(p)
        <3>1. Weights(p) = Restrict(req, Weighted(p, req))
            BY <1>4, <2>1 DEF Weights
        <3>2. \A w \in Containers(p) : Entitlement(w) = At(world.req, w) /\ At(world.req, w) \in Nat
            BY <1>2, <2>1 DEF Entitlement
        <3>3. \A w \in Weighted(p, req) : req[w] = At(world.req, w)
            BY <1>1 DEF Weighted, At
        <3> QED
            BY <1>3, <3>1, <3>2, <3>3 DEF Restrict
    <2>2. CASE ~ HasRequest(p)
        <3>1. Weights(p) = Restrict(lim, Weighted(p, lim))
            BY <1>4, <2>2 DEF Weights
        <3>2. \A w \in Containers(p) : Entitlement(w) = At(world.lim, w) /\ At(world.lim, w) \in Nat
            BY <1>2, <2>2 DEF Entitlement
        <3>3. \A w \in Weighted(p, lim) : lim[w] = At(world.lim, w)
            BY <1>1 DEF Weighted, At
        <3> QED
            BY <1>3, <3>1, <3>2, <3>3 DEF Restrict
    <2> QED
        BY <2>1, <2>2
<1> DEFINE C == Containers(p)
           W == Weights(p)
           D == DOMAIN W
           f == [w \in C |-> Entitlement(w)]
<1>6. IsFiniteSet(C) /\ D \in SUBSET C /\ IsFiniteSet(D)
    BY <1>5, WorkloadKeysAssumption, FS_Subset DEF Containers
<1>7. /\ \A w \in C : f[w] \in Nat
      /\ \A w \in C \ D : f[w] = 0
      /\ \A w \in D : f[w] \in Nat /\ W[w] = f[w] /\ f[w] # 0
    BY <1>5, EntitledFacts
<1>8. Entitled(p) = SumFunctionOnSet(f, C) /\ SumFunction(W) = SumFunctionOnSet(W, D)
    BY DEF Entitled, SumFunction
<1>9. SumFunctionOnSet(f, C) = SumFunctionOnSet(f, D)
    <2> HIDE DEF f, C, D
    <2> QED
        BY <1>6, <1>7, SumOfPart
<1>10. SumFunctionOnSet(f, D) = SumFunctionOnSet(W, D)
    <2> HIDE DEF f, W, D
    <2> QED
        BY <1>6, <1>7, SumSame
<1>11. Entitled(p) = 0 <=> D = {}
    <2>1. Entitled(p) = 0 <=> \A w \in C : f[w] = 0
        <3> HIDE DEF f, C
        <3> QED
            BY <1>6, <1>7, <1>8, SumIsZero
    <2> HIDE DEF f, C, D
    <2> QED
        BY <1>6, <1>7, <2>1
<1> QED
    BY <1>5, <1>8, <1>9, <1>10, <1>11

\* Who is shown, and what was sampled of it.
LEMMA ShownFacts ==
    ASSUME WorldInv, NEW p \in Pods \ Hidden
    PROVE  /\ \A w \in Containers(p) : /\ w \in OfPod(p) /\ w \in Shown /\ w # PodTotal(p)
                                       /\ w \in WorkloadKeys /\ w[1] = p
                                       /\ Queried(w) => At(Samples, w) = At(world.use, w)
           /\ filter = NoContainer =>
                /\ PodTotal(p) \in DOMAIN Samples <=> PodTotal(p) \in DOMAIN world.use
                /\ At(Samples, PodTotal(p)) = At(world.use, PodTotal(p))
           /\ filter # NoContainer => PodTotal(p) \notin DOMAIN Samples
<1>1. ASSUME NEW w \in Containers(p)
      PROVE  /\ w \in OfPod(p) /\ w \in Shown /\ w # PodTotal(p) /\ w \in WorkloadKeys /\ w[1] = p
             /\ Queried(w) => At(Samples, w) = At(world.use, w)
    <2>1. w \in WorkloadKeys /\ w[1] = p /\ ~ IsObservability(w)
        BY DEF Containers
    <2>2. w \in OfPod(p) /\ w \in Shown /\ w # PodTotal(p)
        BY <2>1, KeyFacts DEF OfPod, Keys, Shown
    <2> QED
        BY <2>1, <2>2, IndexedFacts DEF Samples, At
<1>2. ~ IsObservability(PodTotal(p))
    BY KeyFacts DEF IsObservability
<1>3. Queried(PodTotal(p)) <=> filter = NoContainer
    BY KeyFacts DEF Queried
<1>4. filter = NoContainer =>
        /\ PodTotal(p) \in DOMAIN Samples <=> PodTotal(p) \in DOMAIN world.use
        /\ At(Samples, PodTotal(p)) = At(world.use, PodTotal(p))
    BY <1>2, <1>3, IndexedFacts DEF Samples, At
<1>5. filter # NoContainer => PodTotal(p) \notin DOMAIN Samples
    BY <1>3, IndexedFacts DEF Samples
<1> QED
    BY <1>1, <1>4, <1>5

\* Every item was asked for, and is not hidden.
LEMMA ItemFacts ==
    ASSUME WorldInv, MergeInv, NEW k \in Items
    PROVE  /\ k \in Keys
           /\ k \in Shown \/ (k[1] \in Pods \ Hidden /\ k = PodTotal(k[1]))
           /\ filter # NoContainer => k \in Shown /\ k[2] = filter
<1>1. k \in Keys /\ ~ IsObservability(k) /\ (Queried(k) \/ k \in DOMAIN Weights(k[1]))
    <2>1. CASE k \in DOMAIN req
        BY <2>1, IndexedFacts DEF MergeInv, WorldInv, Keys
    <2>2. CASE k \in DOMAIN use
        <3>1. k \in Keys /\ k[1] \in Pods /\ k \in OfPod(k[1])
            BY <2>2, KeyFacts DEF MergeInv
        <3>2. k \in DOMAIN Samples \/ k \in DOMAIN Weights(k[1])
            BY <2>2, <3>1 DEF MergeInv, Undivided, Divided
        <3>3. k \in DOMAIN Samples => ~ IsObservability(k) /\ Queried(k)
            BY IndexedFacts DEF Samples
        <3>4. k \in DOMAIN Weights(k[1]) => ~ IsObservability(k)
            BY WeightsFacts DEF Containers
        <3> QED
            BY <3>1, <3>2, <3>3, <3>4
    <2> QED
        BY <2>1, <2>2 DEF Items
<1>2. k[1] \in Pods \ Hidden
    BY <1>1, KeyFacts DEF IsObservability
<1>3. k \in WorkloadKeys => k \in Containers(k[1]) /\ k \in Shown
    BY <1>1, <1>2 DEF Containers, Shown
<1>4. k \notin WorkloadKeys => k = PodTotal(k[1])
    BY <1>1, KeyFacts
<1>5. k \in DOMAIN Weights(k[1]) => Queried(k)
    BY IndexedFacts DEF Weights, Weighted, Restrict, MergeInv
<1>6. filter # NoContainer => k[2] = filter /\ k \in WorkloadKeys
    BY <1>1, <1>5, KeyFacts DEF Queried
<1> QED
    BY <1>1, <1>2, <1>3, <1>4, <1>6

LEMMA NothingShared ==
    ASSUME NEW e \in Nat, NEW t \in Nat, t # 0
    PROVE  (0 * e) \div t = 0
OBVIOUS

LEMMA NothingEntitled ==
    ASSUME NEW u \in Nat, NEW t \in Nat, t # 0
    PROVE  (u * 0) \div t = 0
OBVIOUS

LEMMA ShareIsNat ==
    ASSUME NEW u \in Nat, NEW e \in Nat, NEW t \in Nat, t # 0
    PROVE  (u * e) \div t \in Nat
<1> DEFINE a == u * e
<1>1. a \in Nat
    OBVIOUS
<1> HIDE DEF a
<1>2. a \div t \in Nat
    BY <1>1
<1> QED
    BY <1>2 DEF a

(***************************************************************************)
(* The finished result depends on the samples alone, not on the order of   *)
(* the answers or of the map (OrderIrrelevant, calculations.go:59-139 and  *)
(* 213-255): containers have their own usage and the share they are        *)
(* entitled to, pods keep what nobody is entitled to, nothing is hidden    *)
(* among the items and no container with usage is missing.                 *)
(***************************************************************************)
THEOREM OrderDoesNotMatter == IndicatorsSpec => []OrderIrrelevant
<1>1. ASSUME CalculatorInv, phase = "done", filter = NoContainer
      PROVE  /\ \A q \in Queries : results[q] = "answered"
             /\ \A w \in Shown : At(use, w) = Attributed(w)
             /\ \A p \in Pods \ Hidden :
                  PodTotal(p) \in DOMAIN use
                      <=> PodTotal(p) \in DOMAIN world.use /\ Entitled(p) = 0
             /\ {w \in Shown : Attributed(w) > 0} \subseteq Items
             /\ Items \subseteq Shown \cup {PodTotal(p) : p \in Pods \ Hidden}
    <2>1. WorldInv /\ MergeInv /\ RangeInv /\ PhaseInv
        BY <1>1 DEF CalculatorInv
    <2>2. \A q \in Queries : results[q] = "answered"
        BY <1>1, <2>1 DEF PhaseInv
    <2>3. ASSUME NEW p \in Pods \ Hidden
          PROVE  PodTotal(p) \in DOMAIN use
                     <=> PodTotal(p) \in DOMAIN world.use /\ Entitled(p) = 0
        <3>1. PodTotal(p) \in DOMAIN Samples <=> PodTotal(p) \in DOMAIN world.use
            BY <1>1, <2>1, ShownFacts
        <3>2. Entitled(p) = 0 <=> DOMAIN Weights(p) = {}
            BY <1>1, <2>1, WeightsAreEntitlements
        <3>3. PodTotal(p) \in DOMAIN use => DOMAIN Weights(p) = {}
            BY <1>1, <2>1 DEF RangeInv
        <3>4. PodTotal(p) \in OfPod(p) /\ (Undivided(p) \/ Divided(p))
            BY <2>1, KeyFacts DEF MergeInv
        <3>5. PodTotal(p) \in DOMAIN use <=> PodTotal(p) \in DOMAIN Samples /\ DOMAIN Weights(p) = {}
            BY <3>3, <3>4 DEF Undivided, Divided
        <3> QED
            BY <3>1, <3>2, <3>5
    <2>4. ASSUME NEW w \in Shown
          PROVE  At(use, w) = Attributed(w)
        <3>1. PICK p \in Pods \ Hidden : w \in Containers(p)
            BY DEF Shown
        <3> DEFINE t == PodTotal(p)
        <3>2. w[1] = p /\ w \in OfPod(p) /\ w # t /\ At(Samples, w) = At(world.use, w)
            BY <1>1, <2>1, <3>1, ShownFacts DEF Queried
        <3>3. At(Samples, t) = At(world.use, t) /\ At(world.use, w) \in Nat /\ At(world.use, t) \in Nat
            BY <1>1, <2>1, <3>2, ShownFacts, SamplesFacts
        <3>4. Entitlement(w) \in Nat /\ Entitled(p) \in Nat
            BY <2>1, EntitledFacts
        <3>5. Entitled(p) = 0 <=> DOMAIN Weights(p) = {}
            BY <1>1, <2>1, WeightsAreEntitlements
        <3>6. Attributed(w) = At(world.use, w) +
                (IF Entitled(p) = 0 THEN 0 ELSE (At(world.use, t) * Entitlement(w)) \div Entitled(p))
            BY <3>2 DEF Attributed
        <3>7. CASE Undivided(p)
            <4>1. At(use, w) = At(world.use, w)
                BY <3>2, <3>7 DEF Undivided
            <4>2. t \in DOMAIN use => Entitled(p) = 0
                BY <1>1, <2>1, <3>5 DEF RangeInv
            <4>3. t \notin DOMAIN use => At(world.use, t) = 0
                BY <3>3, <3>7, KeyFacts DEF Undivided, At
            <4>4. Entitled(p) # 0 => (At(world.use, t) * Entitlement(w)) \div Entitled(p) = 0
                BY <3>4, <4>2, <4>3, NothingShared
            <4> QED
                BY <3>3, <3>6, <4>1, <4>4
        <3>8. CASE Divided(p)
            <4>1. At(use, w) = At(world.use, w) + PodShare(w)
                BY <3>2, <3>8 DEF Divided
            <4>2. Entitled(p) # 0 /\ Samples[t] = At(world.use, t)
                BY <3>3, <3>5, <3>8 DEF Divided, At
            <4>3. CASE w \in DOMAIN Weights(p)
                <5>1. Weights(p)[w] = Entitlement(w) /\ SumFunction(Weights(p)) = Entitled(p)
                    BY <1>1, <2>1, <4>3, WeightsAreEntitlements
                <5>2. PodShare(w) = (At(world.use, t) * Entitlement(w)) \div Entitled(p)
                    BY <3>2, <4>2, <4>3, <5>1 DEF PodShare, Share
                <5> QED
                    BY <3>6, <4>1, <4>2, <5>2
            <4>4. CASE w \notin DOMAIN Weights(p)
                <5>1. Entitlement(w) = 0
                    BY <1>1, <2>1, <3>1, <4>4, WeightsAreEntitlements
                <5>2. (At(world.use, t) * Entitlement(w)) \div Entitled(p) = 0
                    BY <3>3, <3>4, <4>2, <5>1, NothingEntitled
                <5>3. PodShare(w) = 0
                    BY <3>2, <4>4 DEF PodShare
                <5> QED
                    BY <3>6, <4>1, <4>2, <5>2, <5>3
            <4> QED
                BY <4>3, <4>4
        <3> QED
            BY <2>1, <3>7, <3>8 DEF MergeInv
    <2>5. {w \in Shown : Attributed(w) > 0} \subseteq Items
        BY <2>4 DEF Items, At
    <2>6. Items \subseteq Shown \cup {PodTotal(p) : p \in Pods \ Hidden}
        BY <2>1, ItemFacts
    <2> QED
        BY <2>2, <2>3, <2>4, <2>5, <2>6
<1>2. CalculatorInv => OrderIrrelevant
    BY <1>1 DEF OrderIrrelevant
<1> QED
    BY <1>2, CalculatorAlways, PTL

(***************************************************************************)
(* One container asked for is never told of more usage than there is for   *)
(* it, and of all its own (AskedIsPartOfAll, indicators.go:75,             *)
(* workload_details.go:131): a query with a container selects no sample    *)
(* without one, so there is nothing to divide.                             *)
(***************************************************************************)
THEOREM AskedForOne == IndicatorsSpec => []AskedIsPartOfAll
<1>1. ASSUME CalculatorInv, filter # NoContainer
      PROVE  /\ \A w \in Items : w \in Shown /\ w[2] = filter
             /\ \A w \in {v \in Shown : v[2] = filter} :
                  /\ At(req, w) = At(world.req, w)
                  /\ At(use, w) <= Attributed(w)
                  /\ At(world.use, PodTotal(w[1])) = 0 => At(use, w) = Attributed(w)
    <2>1. WorldInv /\ MergeInv
        BY <1>1 DEF CalculatorInv
    <2>2. ASSUME NEW w \in Shown, w[2] = filter
          PROVE  /\ At(req, w) = At(world.req, w)
                 /\ At(use, w) <= Attributed(w)
                 /\ At(world.use, PodTotal(w[1])) = 0 => At(use, w) = Attributed(w)
        <3>1. PICK p \in Pods \ Hidden : w \in Containers(p)
            BY DEF Shown
        <3> DEFINE t == PodTotal(p)
                   s == (At(world.use, t) * Entitlement(w)) \div Entitled(p)
        <3>2. w[1] = p /\ w \in OfPod(p) /\ Queried(w) /\ ~ IsObservability(w)
            BY <2>1, <2>2, <3>1, ShownFacts DEF Queried, Containers
        <3>3. At(req, w) = At(world.req, w)
            BY <2>1, <3>2, IndexedFacts DEF MergeInv, At
        <3>4. Undivided(p)
            BY <1>1, <2>1, ShownFacts DEF MergeInv, Divided
        <3>5. At(use, w) = At(world.use, w) /\ At(use, w) \in Nat
            BY <2>1, <3>1, <3>2, <3>4, ShownFacts, SamplesFacts DEF Undivided
        <3>6. At(world.use, t) \in Nat
            BY <2>1, ValuesAssumption DEF WorldInv, At
        <3>7. Entitlement(w) \in Nat /\ Entitled(p) \in Nat
            BY <2>1, EntitledFacts
        <3>8. Attributed(w) = At(world.use, w) + (IF Entitled(p) = 0 THEN 0 ELSE s)
            BY <3>2 DEF Attributed
        <3>9. Entitled(p) # 0 => s \in Nat
            BY <3>6, <3>7, ShareIsNat
        <3>10. Entitled(p) # 0 /\ At(world.use, t) = 0 => s = 0
            BY <3>7, NothingShared
        <3> HIDE DEF s
        <3> QED
            BY <3>2, <3>3, <3>5, <3>8, <3>9, <3>10
    <2>3. \A w \in Items : w \in Shown /\ w[2] = filter
        BY <1>1, <2>1, ItemFacts
    <2> QED
        BY <2>2, <2>3
<1>2. CalculatorInv => AskedIsPartOfAll
    BY <1>1 DEF AskedIsPartOfAll
<1> QED
    BY <1>2, CalculatorAlways, PTL

-----------------------------------------------------------------------------
(***************************************************************************)
(* The pages of the items.                                                 *)
(***************************************************************************)
\* The items beyond a page are those that come after all the items it ends with.
LEMMA PageAbove ==
    ASSUME NEW i \in Nat \ {0}, NEW p \in Nat, NEW size \in Nat \ {0}
    PROVE  /\ PageOfItem(i, size) \in Nat
           /\ PageOfItem(i, size) > p <=> p * size < i
<1> DEFINE a == i + size - 1
           q == a \div size
<1>1. a \in Nat
    OBVIOUS
<1> HIDE DEF a
<1>2. q \in Nat /\ size * q <= a /\ a < size * q + size
    BY <1>1, Quotient
<1>3. PageOfItem(i, size) = q
    BY DEF PageOfItem, a
<1> HIDE DEF q
<1>4. p * size \in Nat /\ q * size \in Nat /\ q * size = size * q /\ (p + 1) * size = p * size + size
    BY <1>2, Products
<1>5. (p + 1 <= q => (p + 1) * size <= q * size) /\ (q <= p => q * size <= p * size)
    BY <1>2, Products
<1> DEFINE x == p * size
           y == q * size
<1>6. /\ x \in Nat /\ y \in Nat /\ y <= i + size - 1 /\ i + size - 1 < y + size
      /\ (p + 1 <= q => x + size <= y) /\ (q <= p => y <= x)
    BY <1>2, <1>4, <1>5 DEF a
<1> HIDE DEF x, y
<1>7. q > p <=> x < i
    BY <1>2, <1>6
<1> QED
    BY <1>2, <1>3, <1>7 DEF x

\* What an int can hold does not wrap around, and nothing wraps to anything else.
LEMMA WrapFacts ==
    /\ MaxInt \in Int /\ IntSize \in Nat
    /\ \A x \in Nat : x <= MaxInt => Wrap(x) = x
    /\ \A x \in Nat : Wrap(x) \in Int
<1> DEFINE h == IntSize \div 2
<1>1. IntSize \in Nat /\ h \in Nat /\ 2 * h <= IntSize /\ MaxInt = h - 1
    BY PagingAssumption DEF MaxInt
<1>2. \A x : Wrap(x) = ((x + h) % IntSize) - h
    BY DEF Wrap
<1>3. IntSize # 0
    <2>1. MaxInt >= 0
        <3>1. Cardinality(Keys) \in Nat
            BY KeyFacts, FS_CardinalityType
        <3> QED
            BY <1>1, <3>1, KeysAssumption, PagingAssumption
    <2> QED
        BY <1>1, <2>1
<1> HIDE DEF h
<1>4. ASSUME NEW x \in Nat, x <= MaxInt
      PROVE  Wrap(x) = x
    <2>1. x + h \in Nat /\ x + h < IntSize
        BY <1>1, <1>4
    <2>2. (x + h) % IntSize = x + h
        BY <1>1, <2>1, Remainder
    <2> QED
        BY <1>1, <1>2, <2>2
<1>5. ASSUME NEW x \in Nat
      PROVE  Wrap(x) \in Int
    <2>1. (x + h) % IntSize \in Int
        BY <1>1, <1>3
    <2> QED
        BY <1>1, <1>2, <2>1
<1> QED
    BY <1>1, <1>4, <1>5

LEMMA SliceFacts ==
    ASSUME NEW n \in Nat, n + MaxPageSize <= MaxInt,
           NEW page \in Nat \ {0}, NEW size \in 1..MaxPageSize
    PROVE  LET c == Slice(n, page, size)
           IN  /\ c.from \in Nat /\ c.to \in Nat /\ c.from <= c.to /\ c.to <= n
               /\ c.to - c.from <= MaxPageSize
               /\ (page - 1) * size <= MaxInt =>
                    \A i \in 1..n :
                        i \in (c.from + 1)..c.to
                            <=> (page - 1) * size < i /\ i <= (page - 1) * size + size
<1> DEFINE o == Offset(page, size)
           start == IF o < 0 THEN 0 ELSE o
           c == Slice(n, page, size)
           x == (page - 1) * size
<1>1. MaxPageSize \in Nat /\ size \in Nat /\ size # 0 /\ size <= MaxPageSize /\ x \in Nat
    <2>1. MaxPageSize \in Nat
        BY PagingAssumption
    <2>2. size \in Nat /\ page - 1 \in Nat
        BY <2>1
    <2> QED
        BY <2>1, <2>2, Products
<1>2. o = Wrap(x)
    BY DEF Offset
<1>3. c = IF start < n THEN [from |-> start, to |-> Least(Wrap(start + size), n)] ELSE [from |-> 0, to |-> 0]
    BY DEF Slice
<1> HIDE DEF x, o, c
<1>4. o \in Int /\ start \in Nat
    BY <1>1, <1>2, WrapFacts
<1>5. x <= MaxInt => start = x
    BY <1>1, <1>2, WrapFacts
<1> HIDE DEF start
<1>6. start < n => Wrap(start + size) = start + size
    <2>1. start + size \in Nat
        BY <1>1, <1>4
    <2>2. start < n => start + size <= MaxInt
        BY <1>1, <1>4, WrapFacts
    <2> QED
        BY <2>1, <2>2, WrapFacts
<1>7. CASE start < n
    <2>1. c.from = start /\ c.to = IF start + size <= n THEN start + size ELSE n
        BY <1>3, <1>6, <1>7 DEF Least
    <2>2. c.from \in Nat /\ c.to \in Nat /\ c.from <= c.to /\ c.to <= n /\ c.to - c.from <= MaxPageSize
        BY <1>1, <1>4, <1>7, <2>1
    <2>3. x <= MaxInt => \A i \in 1..n : i \in (c.from + 1)..c.to <=> x < i /\ i <= x + size
        BY <1>1, <1>4, <1>5, <2>1
    <2> QED
        BY <2>2, <2>3 DEF c, x
<1>8. CASE ~ (start < n)
    <2>1. c.from = 0 /\ c.to = 0
        BY <1>3, <1>8
    <2>2. x <= MaxInt => \A i \in 1..n : i \in (c.from + 1)..c.to <=> x < i /\ i <= x + size
        BY <1>1, <1>4, <1>5, <1>8, <2>1
    <2>3. c.from \in Nat /\ c.to \in Nat /\ c.from <= c.to /\ c.to <= n /\ c.to - c.from <= MaxPageSize
        BY <1>1, <2>1
    <2> QED
        BY <2>2, <2>3 DEF c, x
<1> QED
    BY <1>7, <1>8

\* What a request names becomes a page and a size.
LEMMA ParamFacts ==
    ASSUME NEW q \in PageQueries
    PROVE  PageOf(q) \in Nat \ {0} /\ PageSizeOf(q) \in 1..MaxPageSize
<1>1. q.page \in Params /\ q.pageSize \in Params /\ q.limit \in Params
    BY PageQueriesAssumption
<1>2. MaxInt \in Int
    BY WrapFacts
<1>3. \A r \in Params : Positive(r) => r[1] \in Nat \ {0}
    BY <1>2 DEF Params, Positive
<1>4. PageOf(q) \in Nat \ {0}
    BY <1>1, <1>3 DEF PageOf
<1> DEFINE asked == IF q.pageSize # <<>> THEN q.pageSize ELSE q.limit
           size == IF Positive(asked) THEN asked[1] ELSE DefaultPageSize
<1>5. size \in Nat \ {0}
    BY <1>1, <1>3, PagingAssumption
<1>6. PageSizeOf(q) = Least(size, MaxPageSize)
    BY DEF PageSizeOf
<1> HIDE DEF size
<1> QED
    BY <1>4, <1>5, <1>6, PagingAssumption DEF Least

\* A response is that of a calculation that failed, or one of a page.
PageResponse(q, n) ==
    [status |-> 200, query |-> q, totalItems |-> n,
     content |-> Slice(n, PageOf(q), PageSizeOf(q)),
     hasNext |-> PageOf(q) < TotalPages(n, PageSizeOf(q)), hasPrevious |-> PageOf(q) > 1]

ResponseInv ==
    \/ response \in {NoResponse, [status |-> 502]}
    \/ \E q \in PageQueries, n \in 0..Cardinality(Keys) : response = PageResponse(q, n)

LEMMA ResponseAlways == IndicatorsSpec => []ResponseInv
<1>1. IndicatorsInit => ResponseInv
    BY DEF IndicatorsInit, ResponseInv
<1>2. CalculatorInv /\ ResponseInv /\ [IndicatorsNext]_indicatorsVars => ResponseInv'
    <2> SUFFICES ASSUME CalculatorInv, ResponseInv, [IndicatorsNext]_indicatorsVars
                 PROVE  ResponseInv'
        OBVIOUS
    <2>1. CASE UNCHANGED response
        BY <2>1 DEF ResponseInv
    <2>2. CASE BadGateway
        BY <2>2 DEF BadGateway, EndsWith, ResponseInv
    <2>3. ASSUME NEW q \in PageQueries, Responds(q)
          PROVE  ResponseInv'
        <3>1. Items \subseteq Keys
            BY ItemFacts DEF CalculatorInv
        <3>2. Cardinality(Items) \in 0..Cardinality(Keys)
            <4>1. IsFiniteSet(Items) /\ Cardinality(Items) <= Cardinality(Keys)
                BY <3>1, KeyFacts, FS_Subset
            <4> QED
                BY <4>1, KeyFacts, FS_CardinalityType
        <3>3. response' = PageResponse(q, Cardinality(Items))
            BY <2>3 DEF Responds, EndsWith, PageResponse
        <3>4. \E r \in PageQueries, n \in 0..Cardinality(Keys) : response' = PageResponse(r, n)
            BY <3>2, <3>3
        <3>5. \A r, n : PageResponse(r, n)' = PageResponse(r, n)
            BY DEF PageResponse
        <3> QED
            BY <3>4 DEF ResponseInv
    <2> QED
        BY <2>1, <2>2, <2>3 DEF IndicatorsNext, Calculates, indicatorsVars
<1> QED
    BY <1>1, <1>2, CalculatorAlways, PTL DEF IndicatorsSpec

(***************************************************************************)
(* Whatever numbers a request names, the page is the right one             *)
(* (PageIsRight, indicators.go:95-108): a slice of the items, no longer    *)
(* than a page; the items that belong on it unless the offset overflows;   *)
(* and a next page is announced exactly if there is an item for it.        *)
(***************************************************************************)
THEOREM PagesAreRight == IndicatorsSpec => []PageIsRight
<1> DEFINE Right(page, size, shown, total, next) ==
             /\ 0 <= shown.from /\ shown.from <= shown.to /\ shown.to <= total
             /\ shown.to - shown.from <= MaxPageSize
             /\ (page - 1) * size <= MaxInt =>
                  \A i \in 1..total :
                     i \in (shown.from + 1)..shown.to <=> PageOfItem(i, size) = page
             /\ next <=> \E i \in 1..total : PageOfItem(i, size) > page
<1>1. ASSUME NEW q \in PageQueries, NEW n \in 0..Cardinality(Keys)
      PROVE  Right(PageOf(q), PageSizeOf(q), Slice(n, PageOf(q), PageSizeOf(q)), n,
                   PageOf(q) < TotalPages(n, PageSizeOf(q)))
    <2> DEFINE page == PageOf(q)
               size == PageSizeOf(q)
               shown == Slice(n, page, size)
               x == (page - 1) * size
    <2>1. page \in Nat \ {0} /\ size \in 1..MaxPageSize /\ size \in Nat \ {0} /\ page - 1 \in Nat
        BY ParamFacts, PagingAssumption
    <2>2. n \in Nat /\ n + MaxPageSize <= MaxInt
        <3>1. Cardinality(Keys) \in Nat
            BY KeyFacts, FS_CardinalityType
        <3> QED
            BY <3>1, KeysAssumption, PagingAssumption, WrapFacts
    <2> HIDE DEF page, size
    <2>3. /\ 0 <= shown.from /\ shown.from <= shown.to /\ shown.to <= n
          /\ shown.to - shown.from <= MaxPageSize
          /\ x <= MaxInt =>
               \A i \in 1..n : i \in (shown.from + 1)..shown.to <=> x < i /\ i <= x + size
        BY <2>1, <2>2, SliceFacts
    <2>4. x \in Nat /\ page * size = x + size
        <3>1. (page - 1) + 1 = page
            BY <2>1
        <3> QED
            BY <2>1, <3>1, Products
    <2>5. \A i \in Nat \ {0} :
            /\ PageOfItem(i, size) \in Nat
            /\ PageOfItem(i, size) > page - 1 <=> x < i
            /\ PageOfItem(i, size) > page <=> page * size < i
        BY <2>1, PageAbove
    <2> HIDE DEF shown, x
    <2>6. \A i \in 1..n : PageOfItem(i, size) = page <=> x < i /\ i <= x + size
        <3> SUFFICES ASSUME NEW i \in 1..n
                     PROVE  PageOfItem(i, size) = page <=> x < i /\ i <= x + size
            OBVIOUS
        <3>1. i \in Nat \ {0} /\ i \in Int
            BY <2>2
        <3>2. /\ PageOfItem(i, size) \in Nat
              /\ PageOfItem(i, size) > page - 1 <=> x < i
              /\ PageOfItem(i, size) > page <=> x + size < i
            BY <2>4, <2>5, <3>1
        <3> QED
            BY <2>1, <2>4, <3>1, <3>2
    <2>7. (page < TotalPages(n, size)) <=> \E i \in 1..n : PageOfItem(i, size) > page
        <3>1. CASE n = 0
            BY <2>1, <3>1 DEF TotalPages
        <3>2. CASE n > 0
            <4>1. TotalPages(n, size) = PageOfItem(n, size) /\ n \in Nat \ {0} /\ n \in 1..n
                BY <2>2, <3>2 DEF TotalPages, PageOfItem
            <4>2. (page < TotalPages(n, size)) <=> x + size < n
                BY <2>1, <2>4, <2>5, <4>1
            <4>3. \A i \in 1..n : i \in Nat \ {0} /\ i <= n
                BY <2>2
            <4>4. \A i \in 1..n : PageOfItem(i, size) > page <=> x + size < i
                BY <2>4, <2>5, <4>3
            <4> QED
                BY <2>1, <2>2, <2>4, <4>1, <4>2, <4>3, <4>4
        <3> QED
            BY <2>2, <3>1, <3>2
    <2> QED
        BY <2>3, <2>6, <2>7 DEF page, size, shown, x
<1>2. ResponseInv => PageIsRight
    <2> SUFFICES ASSUME ResponseInv, response # NoResponse, response.status = 200
                 PROVE  Right(PageOf(response.query), PageSizeOf(response.query), response.content,
                              response.totalItems, response.hasNext)
        BY DEF PageIsRight
    <2>1. response # [status |-> 502]
        OBVIOUS
    <2>2. PICK q \in PageQueries, n \in 0..Cardinality(Keys) : response = PageResponse(q, n)
        BY <2>1 DEF ResponseInv
    <2>3. /\ response.query = q /\ response.totalItems = n
          /\ response.content = Slice(n, PageOf(q), PageSizeOf(q))
          /\ response.hasNext = (PageOf(q) < TotalPages(n, PageSizeOf(q)))
        BY <2>2 DEF PageResponse
    <2> HIDE DEF Right
    <2> QED
        BY <1>1, <2>3
<1> QED
    BY <1>2, ResponseAlways, PTL

-----------------------------------------------------------------------------
(***************************************************************************)
(* The invariant of the audit.  Nothing is read but of identities that are *)
(* settled, so that no snapshot can appear under them any more; what was   *)
(* read of a snapshot is what it has, as long as it is there; and the rows *)
(* of a scrape are all of one snapshot's, or none.                         *)
(***************************************************************************)
Settled == (1..usedIds.snapshots) \ openIds.snapshots

HistoryInv ==
    /\ usedIds \in [snapshots : Nat, reports : Nat]
    /\ openIds \in [snapshots : SUBSET Nat, reports : SUBSET Nat]
    /\ usedIds.snapshots <= MaxIds
    /\ openIds.snapshots \subseteq 1..usedIds.snapshots
    /\ snapshots \subseteq [id : Settled, measured : {TRUE}, items : SUBSET Workloads]
    /\ \A s, t \in snapshots : s.id = t.id => s = t

StepInv ==
    /\ step \in {"idle", "scrapes", "indicators", "items", "judge", "answered"}
    /\ erased \in BOOLEAN
    /\ ids \subseteq Settled
    /\ step \in {"idle", "scrapes"} => ids = {}
    /\ step \in {"idle", "scrapes", "indicators"} => totals = {}
    /\ step \in {"idle", "scrapes", "indicators", "items"} => itemRows = {}
    /\ step # "answered" => answer = NoAnswer
    /\ step = "answered" => answer = Judge

TotalsInv ==
    /\ totals \subseteq [id : ids, reported : Nat]
    /\ \A t, u \in totals : t.id = u.id => t = u
    /\ \A t \in totals, s \in snapshots : s.id = t.id => t.reported = CostOf(s.items)

WholeInv ==
    ~ erased =>
        /\ \A i \in ids : \E s \in snapshots : s.id = i
        /\ step \in {"items", "judge", "answered"} => \A i \in ids : \E t \in totals : t.id = i

RowsOf(i) == {x \in itemRows : x.id = i}

\* The rows read of a scrape are those of W.
ReadOf(i, W) ==
    /\ RowsOf(i) = {Row(i, w) : w \in W}
    /\ \A t \in totals : t.id = i /\ W # {} => t.reported = CostOf(W)
    /\ \A s \in snapshots : s.id = i => s.items = W

ItemsInv ==
    /\ \A x \in itemRows : x.id \in ids
    /\ step \in {"judge", "answered"} => \A i \in ids : \E W \in SUBSET Workloads : ReadOf(i, W)

AuditInv == HistoryInv /\ StepInv /\ TotalsInv /\ WholeInv /\ ItemsInv

-----------------------------------------------------------------------------
\* What a column keeps is half a decimal away at most.
LEMMA Rounding ==
    ASSUME NEW x \in Nat
    PROVE  Stored(x) \in Nat /\ 2 * Stored(x) <= 2 * x + Grain /\ 2 * x <= 2 * Stored(x) + Grain
<1> DEFINE a == 2 * x + Grain
           b == 2 * Grain
           q == a \div b
<1>1. a \in Nat /\ b \in Nat \ {0} /\ Grain \in Nat
    BY GrainAssumption
<1>2. Stored(x) = q * Grain
    BY DEF Stored
<1>3. q \in Nat /\ b * q <= a /\ a < b * q + b
    <2> HIDE DEF a, b
    <2> QED
        BY <1>1, Quotient
<1>4. q * Grain \in Nat /\ b * q = 2 * (q * Grain)
    <2> HIDE DEF q, a
    <2>1. q * Grain \in Nat /\ q * Grain = Grain * q
        BY <1>1, <1>3, Products
    <2>2. (2 * Grain) * q = 2 * (Grain * q)
        BY <1>1, <1>3
    <2> QED
        BY <2>1, <2>2
<1> DEFINE y == q * Grain
<1>5. y \in Nat /\ 2 * y <= 2 * x + Grain /\ 2 * x + Grain < 2 * y + 2 * Grain
    BY <1>3, <1>4
<1> HIDE DEF y
<1> QED
    BY <1>1, <1>2, <1>5 DEF y

\* The cost follows, and is one decimal away at most.
LEMMA CostRounding ==
    ASSUME NEW r \in Nat, NEW u \in Nat
    PROVE  /\ Cost(r, u) \in Nat /\ Cost(Stored(r), Stored(u)) \in Nat
           /\ Cost(r, u) <= Cost(Stored(r), Stored(u)) + Grain
           /\ Cost(Stored(r), Stored(u)) <= Cost(r, u) + Grain
<1> DEFINE a == Stored(r)
           b == Stored(u)
<1>1. /\ a \in Nat /\ 2 * a <= 2 * r + Grain /\ 2 * r <= 2 * a + Grain
      /\ b \in Nat /\ 2 * b <= 2 * u + Grain /\ 2 * u <= 2 * b + Grain
    BY Rounding
<1> HIDE DEF a, b
<1>2. Grain \in Nat
    BY GrainAssumption
<1>3. /\ Cost(r, u) \in Nat /\ Cost(a, b) \in Nat
      /\ Cost(r, u) <= Cost(a, b) + Grain /\ Cost(a, b) <= Cost(r, u) + Grain
    BY <1>1, <1>2 DEF Cost
<1> QED
    BY <1>3 DEF a, b

MeasuredCosts(W) == [w \in W |-> Cost(Requested[w], Used[w])]
StoredCosts(W) == [w \in W |-> Cost(Stored(Requested[w]), Stored(Used[w]))]
RowCosts(i) == [x \in RowsOf(i) |-> Cost(x.requested, x.used)]

LEMMA CostFacts ==
    ASSUME NEW W \in SUBSET Workloads
    PROVE  /\ IsFiniteSet(W)
           /\ CostOf(W) = SumFunctionOnSet(MeasuredCosts(W), W)
           /\ SumFunction(StoredCosts(W)) = SumFunctionOnSet(StoredCosts(W), W)
           /\ \A w \in W : /\ MeasuredCosts(W)[w] \in Nat /\ StoredCosts(W)[w] \in Nat
                           /\ MeasuredCosts(W)[w] <= StoredCosts(W)[w] + Grain
                           /\ StoredCosts(W)[w] <= MeasuredCosts(W)[w] + Grain
           /\ CostOf(W) \in Nat /\ SumFunction(StoredCosts(W)) \in Nat
<1>1. IsFiniteSet(W)
    BY WorkloadsAssumption, FS_Subset
<1>2. /\ CostOf(W) = SumFunctionOnSet(MeasuredCosts(W), W)
      /\ SumFunction(StoredCosts(W)) = SumFunctionOnSet(StoredCosts(W), W)
    BY DEF CostOf, SumFunction, MeasuredCosts, StoredCosts
<1>3. ASSUME NEW w \in W
      PROVE  /\ MeasuredCosts(W)[w] \in Nat /\ StoredCosts(W)[w] \in Nat
             /\ MeasuredCosts(W)[w] <= StoredCosts(W)[w] + Grain
             /\ StoredCosts(W)[w] <= MeasuredCosts(W)[w] + Grain
    <2>1. Requested[w] \in Nat /\ Used[w] \in Nat
        BY MeasuredAssumption
    <2> QED
        BY <2>1, CostRounding DEF MeasuredCosts, StoredCosts
<1>4. CostOf(W) \in Nat
    BY <1>1, <1>2, <1>3, SumIsNat
<1>5. SumFunction(StoredCosts(W)) \in Nat
    BY <1>1, <1>2, <1>3, SumIsNat
<1> QED
    BY <1>1, <1>2, <1>3, <1>4, <1>5

\* Rows of a scrape: as many as its items, with what is stored of them.
LEMMA RowsFacts ==
    ASSUME NEW i, NEW W \in SUBSET Workloads, RowsOf(i) = {Row(i, w) : w \in W}
    PROVE  /\ IsFiniteSet(RowsOf(i)) /\ Cardinality(RowsOf(i)) = Cardinality(W)
           /\ RowsOf(i) = {} <=> W = {}
           /\ \A x \in RowsOf(i) : x \in [id : {i}, w : Workloads, requested : Nat, used : Nat]
           /\ SumFunction(RowCosts(i)) = SumFunction(StoredCosts(W))
           /\ SumFunction(RowCosts(i)) \in Nat
<1> DEFINE b == [w \in W |-> Row(i, w)]
           f == StoredCosts(W)
           g == RowCosts(i)
           R == {b[w] : w \in W}
<1>1. R = RowsOf(i)
    OBVIOUS
<1>2. \A v, w \in W : b[v] = b[w] => v = w
    BY DEF Row
<1>3. IsFiniteSet(W) /\ \A w \in W : f[w] \in Nat
    BY CostFacts
<1>4. \A w \in W : g[b[w]] = f[w]
    BY <1>1 DEF RowCosts, StoredCosts, Row
<1>5. /\ IsFiniteSet(R) /\ Cardinality(R) = Cardinality(W)
      /\ SumFunctionOnSet(g, R) = SumFunctionOnSet(f, W)
    <2> HIDE DEF b, f, g
    <2>1. \A w \in W : f[w] \in Nat /\ g[b[w]] = f[w]
        BY <1>3, <1>4
    <2>2. IsFiniteSet(W) /\ \A v, w \in W : b[v] = b[w] => v = w
        BY <1>2, <1>3
    <2> QED
        BY <2>1, <2>2, SumOfImage
<1>6. SumFunction(g) = SumFunctionOnSet(g, RowsOf(i))
    BY DEF SumFunction, RowCosts
<1>7. \A x \in RowsOf(i) : x \in [id : {i}, w : Workloads, requested : Nat, used : Nat]
    BY Rounding, MeasuredAssumption DEF Row
<1> QED
    BY <1>1, <1>5, <1>6, <1>7, CostFacts

-----------------------------------------------------------------------------
LEMMA AuditInitially == AuditInit => AuditInv
<1> SUFFICES ASSUME AuditInit PROVE AuditInv
    OBVIOUS
<1>1. HistoryInv
    BY MaxIdsAssumption DEF AuditInit, Init, HistoryInv, Settled
<1>2. StepInv /\ TotalsInv /\ WholeInv /\ ItemsInv
    BY DEF AuditInit, StepInv, TotalsInv, WholeInv, ItemsInv
<1> QED
    BY <1>1, <1>2 DEF AuditInv

\* Saving and erasing leave alone what is settled.
LEMMA EnvironmentSteps ==
    ASSUME HistoryInv, Environment
    PROVE  /\ HistoryInv' /\ UNCHANGED handler
           /\ Settled \subseteq Settled'
           /\ \A s \in snapshots' : s \in snapshots \/ s.id \notin Settled
           /\ snapshots \subseteq snapshots' \/ snapshots' = {}
<1>1. CASE usedIds.snapshots < MaxIds /\ TakeSnapshotId
    <2> DEFINE n == usedIds.snapshots
    <2>1. /\ usedIds' \in [snapshots : Nat, reports : Nat] /\ usedIds'.snapshots = n + 1
          /\ openIds' \in [snapshots : SUBSET Nat, reports : SUBSET Nat]
          /\ openIds'.snapshots = openIds.snapshots \cup {n + 1}
          /\ snapshots' = snapshots /\ n \in Nat
        BY <1>1 DEF TakeSnapshotId, HistoryInv
    <2>2. Settled' = Settled
        <3>1. 1..(n + 1) = (1..n) \cup {n + 1}
            BY <2>1
        <3>2. n + 1 \notin 1..n
            BY <2>1
        <3> QED
            BY <2>1, <3>1, <3>2 DEF Settled, HistoryInv
    <2>3. usedIds'.snapshots <= MaxIds /\ openIds'.snapshots \subseteq 1..usedIds'.snapshots
        BY <1>1, <2>1, MaxIdsAssumption DEF HistoryInv
    <2>4. HistoryInv'
        BY <2>1, <2>2, <2>3 DEF HistoryInv
    <2> QED
        BY <2>1, <2>2, <2>4 DEF Environment
<1>2. CASE GiveUp
    <2>1. PICK S \in SUBSET openIds.snapshots, R \in SUBSET openIds.reports :
            openIds' = [snapshots |-> S, reports |-> R]
        BY <1>2 DEF GiveUp
    <2>2. usedIds' = usedIds /\ snapshots' = snapshots /\ openIds'.snapshots = S
        BY <1>2, <2>1 DEF GiveUp
    <2>3. Settled \subseteq Settled'
        BY <2>2 DEF Settled
    <2>4. openIds' \in [snapshots : SUBSET Nat, reports : SUBSET Nat]
        BY <2>1 DEF HistoryInv
    <2>5. HistoryInv'
        <3>1. snapshots' \subseteq [id : Settled', measured : {TRUE}, items : SUBSET Workloads]
            BY <2>2, <2>3 DEF HistoryInv
        <3> QED
            BY <2>2, <2>4, <3>1 DEF HistoryInv
    <2> QED
        BY <2>2, <2>3, <2>5 DEF Environment
<1>3. CASE AddSnapshot
    <2>1. PICK i \in openIds.snapshots, m \in SUBSET Workloads :
            /\ snapshots' = snapshots \cup {[id |-> i, measured |-> TRUE, items |-> m]}
            /\ openIds' = [openIds EXCEPT !.snapshots = @ \ {i}]
        BY <1>3 DEF AddSnapshot
    <2>2. /\ usedIds' = usedIds /\ openIds'.snapshots = openIds.snapshots \ {i}
          /\ openIds' \in [snapshots : SUBSET Nat, reports : SUBSET Nat]
        BY <1>3, <2>1 DEF AddSnapshot, HistoryInv
    <2>3. Settled \subseteq Settled' /\ i \in Settled' /\ i \notin Settled
        BY <2>2 DEF Settled, HistoryInv
    <2>4. HistoryInv'
        <3> DEFINE n == [id |-> i, measured |-> TRUE, items |-> m]
                   Snapshots(S) == [id : S, measured : {TRUE}, items : SUBSET Workloads]
        <3>1. snapshots' \subseteq Snapshots(Settled')
            <4>1. n \in Snapshots(Settled')
                BY <2>3
            <4>2. snapshots \subseteq Snapshots(Settled')
                BY <2>3 DEF HistoryInv
            <4> HIDE DEF Snapshots
            <4> QED
                BY <2>1, <4>1, <4>2
        <3>2. n.id = i /\ \A s \in snapshots : s.id # i
            BY <2>3 DEF HistoryInv
        <3>3. snapshots' = snapshots \cup {n} /\ \A s, t \in snapshots : s.id = t.id => s = t
            BY <2>1 DEF HistoryInv
        <3>4. \A s, t \in snapshots' : s.id = t.id => s = t
            <4> HIDE DEF n
            <4> QED
                BY <3>2, <3>3
        <3> QED
            BY <2>2, <3>1, <3>4 DEF HistoryInv
    <2> QED
        BY <2>1, <2>3, <2>4 DEF Environment
<1>4. CASE Erase
    <2>1. snapshots' = {} /\ usedIds' = usedIds /\ openIds' = openIds
        BY <1>4 DEF Erase
    <2>2. Settled' = Settled
        BY <2>1 DEF Settled
    <2> QED
        BY <2>1, <2>2 DEF HistoryInv, Environment
<1> QED
    BY <1>1, <1>2, <1>3, <1>4 DEF Environment

LEMMA AuditSteps ==
    ASSUME AuditInv, [AuditNext]_auditVars
    PROVE  AuditInv'
<1>1. HistoryInv /\ StepInv /\ TotalsInv /\ WholeInv /\ ItemsInv
    BY DEF AuditInv
<1>2. CASE Environment
    <2>1. /\ HistoryInv' /\ Settled \subseteq Settled'
          /\ \A s \in snapshots' : s \in snapshots \/ s.id \notin Settled
          /\ snapshots \subseteq snapshots' \/ snapshots' = {}
        BY <1>1, <1>2, EnvironmentSteps
    <2>2. /\ step' = step /\ ids' = ids /\ totals' = totals /\ itemRows' = itemRows /\ answer' = answer
          /\ erased' = (erased \/ (snapshots # {} /\ snapshots' = {}))
        BY <1>2 DEF Environment, handler
    <2>3. Judge' = Judge
        BY <2>2 DEF Judge, Audited, Recalculated
    <2>4. StepInv'
        BY <1>1, <2>1, <2>2, <2>3 DEF StepInv
    <2>5. \A s \in snapshots' : s.id \in ids => s \in snapshots
        BY <1>1, <2>1 DEF StepInv
    <2>6. TotalsInv'
        <3>1. \A t \in totals : t.id \in ids
            BY <1>1 DEF TotalsInv
        <3> QED
            BY <1>1, <2>2, <2>5, <3>1 DEF TotalsInv
    <2>7. WholeInv'
        <3>1. SUFFICES ASSUME ~ erased' PROVE WholeInv'
            BY DEF WholeInv
        <3>2. ~ erased /\ (snapshots = {} \/ snapshots \subseteq snapshots')
            BY <2>1, <2>2, <3>1
        <3>3. \A i \in ids : \E s \in snapshots' : s.id = i
            BY <1>1, <3>2 DEF WholeInv
        <3> QED
            BY <1>1, <2>2, <3>2, <3>3 DEF WholeInv
    <2>8. ItemsInv'
        <3>1. \A i : RowsOf(i)' = RowsOf(i)
            BY <2>2 DEF RowsOf
        <3>2. ASSUME NEW i \in ids, NEW W, ReadOf(i, W)
              PROVE  ReadOf(i, W)'
            BY <2>2, <2>5, <3>1, <3>2 DEF ReadOf
        <3>3. step \in {"judge", "answered"} =>
                \A i \in ids : \E W \in SUBSET Workloads : ReadOf(i, W)'
            BY <1>1, <3>2 DEF ItemsInv
        <3> QED
            BY <1>1, <2>2, <3>3 DEF ItemsInv
    <2> QED
        BY <2>1, <2>4, <2>6, <2>7, <2>8 DEF AuditInv
<1>3. ASSUME UNCHANGED vars
      PROVE  HistoryInv' /\ Settled' = Settled /\ snapshots' = snapshots
    BY <1>1, <1>3 DEF HistoryInv, Settled, vars
<1>4. CASE Request
    <2>1. /\ UNCHANGED vars /\ step' = "scrapes" /\ ids' = {} /\ totals' = {} /\ itemRows' = {}
          /\ answer' = NoAnswer /\ erased' = FALSE
        BY <1>4 DEF Request
    <2> QED
        BY <1>3, <2>1 DEF AuditInv, StepInv, TotalsInv, WholeInv, ItemsInv
<1>5. CASE LoadScrapes
    <2>1. /\ UNCHANGED vars /\ totals' = totals /\ itemRows' = itemRows /\ answer' = answer
          /\ step' = (IF ids' = {} THEN "answered" ELSE "indicators") /\ erased' = FALSE
          /\ totals = {} /\ itemRows = {} /\ answer = NoAnswer
        BY <1>1, <1>5 DEF LoadScrapes, StepInv
    <2>2. \A i \in ids' : \E s \in snapshots : s.id = i
        BY <1>5 DEF LoadScrapes
    <2>3. ids' \subseteq Settled
        <3>1. \A s \in snapshots : s.id \in Settled
            BY <1>1 DEF HistoryInv
        <3> QED
            BY <2>2, <3>1
    <2>4. ids' = {} => Judge' = NoAnswer
        <3>1. SUFFICES ASSUME ids' = {} PROVE Judge' = NoAnswer
            OBVIOUS
        <3>2. Audited' = {}
            BY <2>1 DEF Audited
        <3>3. \A f : DOMAIN f = {} => SumFunction(f) = 0
            BY SumOfNone DEF SumFunction
        <3>4. Cardinality({}) = 0
            BY FS_EmptySet
        <3> QED
            BY <3>1, <3>2, <3>3, <3>4 DEF Judge, NoAnswer
    <2>5. StepInv'
        BY <1>3, <2>1, <2>3, <2>4 DEF StepInv
    <2>6. TotalsInv' /\ WholeInv' /\ ItemsInv'
        BY <1>3, <2>1, <2>2 DEF TotalsInv, WholeInv, ItemsInv
    <2> QED
        BY <1>3, <2>1, <2>5, <2>6 DEF AuditInv
<1>6. CASE LoadIndicators
    <2>1. /\ UNCHANGED vars /\ ids' = ids /\ itemRows' = itemRows /\ answer' = answer
          /\ erased' = erased /\ step = "indicators" /\ step' = "items" /\ itemRows = {}
          /\ answer = NoAnswer
        BY <1>1, <1>6 DEF LoadIndicators, StepInv
    <2>2. \A t \in totals' : \E s \in snapshots :
            s.id \in ids /\ t = [id |-> s.id, reported |-> CostOf(s.items)]
        BY <1>6 DEF LoadIndicators
    <2>3. \A s \in snapshots : s.id \in ids => [id |-> s.id, reported |-> CostOf(s.items)] \in totals'
        BY <1>1, <1>6 DEF LoadIndicators, HistoryInv
    <2>4. TotalsInv'
        <3>1. \A t \in totals' : t.id \in ids /\ t \in [id : ids, reported : Nat]
            <4>1. \A s \in snapshots : CostOf(s.items) \in Nat
                BY <1>1, CostFacts DEF HistoryInv
            <4> QED
                BY <2>2, <4>1
        <3>2. \A t, u \in totals' : t.id = u.id => t = u
            BY <1>1, <2>2 DEF HistoryInv
        <3>3. \A t \in totals', s \in snapshots : s.id = t.id => t.reported = CostOf(s.items)
            BY <1>1, <2>2 DEF HistoryInv
        <3> QED
            BY <1>3, <2>1, <3>1, <3>2, <3>3 DEF TotalsInv
    <2>5. WholeInv'
        <3>1. \A s \in snapshots : s.id \in ids => \E t \in totals' : t.id = s.id
            BY <2>3
        <3> QED
            BY <1>1, <1>3, <2>1, <3>1 DEF WholeInv
    <2>6. StepInv' /\ ItemsInv'
        BY <1>1, <1>3, <2>1 DEF StepInv, ItemsInv
    <2> QED
        BY <1>3, <2>1, <2>4, <2>5, <2>6 DEF AuditInv
<1>7. CASE LoadItems
    <2>1. /\ UNCHANGED vars /\ ids' = ids /\ totals' = totals /\ answer' = answer
          /\ erased' = erased /\ step = "items" /\ step' = "judge" /\ answer = NoAnswer
        BY <1>1, <1>7 DEF LoadItems, StepInv
    <2>2. itemRows' = UNION {{Row(s.id, w) : w \in s.items} : s \in {t \in snapshots : t.id \in ids}}
        BY <1>7 DEF LoadItems
    <2>3. \A i, w : Row(i, w).id = i
        BY DEF Row
    <2>4. \A x \in itemRows' : x.id \in ids
        BY <2>2, <2>3
    <2>5. ASSUME NEW i \in ids
          PROVE  \E W \in SUBSET Workloads : ReadOf(i, W)'
        <3>1. CASE \E s \in snapshots : s.id = i
            <4>1. PICK s \in snapshots : s.id = i
                BY <3>1
            <4>2. \A t \in snapshots : t.id = i => t = s
                BY <1>1, <4>1 DEF HistoryInv
            <4>3. RowsOf(i)' = {Row(i, w) : w \in s.items}
                BY <2>2, <2>3, <4>1, <4>2 DEF RowsOf
            <4>4. \A t \in totals : t.id = i => t.reported = CostOf(s.items)
                BY <1>1, <4>1 DEF TotalsInv
            <4>5. s.items \in SUBSET Workloads
                BY <1>1 DEF HistoryInv
            <4>6. ReadOf(i, s.items)'
                BY <1>3, <2>1, <4>2, <4>3, <4>4 DEF ReadOf
            <4> QED
                BY <4>5, <4>6
        <3>2. CASE ~ \E s \in snapshots : s.id = i
            <4>1. RowsOf(i)' = {}
                BY <2>2, <2>3, <3>2 DEF RowsOf
            <4>2. ReadOf(i, {})'
                BY <1>3, <2>1, <3>2, <4>1 DEF ReadOf
            <4> QED
                BY <4>2
        <3> QED
            BY <3>1, <3>2
    <2>6. ItemsInv'
        BY <2>1, <2>4, <2>5 DEF ItemsInv
    <2>7. StepInv' /\ TotalsInv' /\ WholeInv'
        BY <1>1, <1>3, <2>1 DEF StepInv, TotalsInv, WholeInv
    <2> QED
        BY <1>3, <2>1, <2>6, <2>7 DEF AuditInv
<1>8. CASE Respond
    <2>1. /\ UNCHANGED vars /\ ids' = ids /\ totals' = totals /\ itemRows' = itemRows
          /\ answer' = Judge /\ erased' = erased /\ step = "judge" /\ step' = "answered"
        BY <1>8 DEF Respond
    <2>2. Judge' = Judge
        BY <2>1 DEF Judge, Audited, Recalculated
    <2>3. StepInv' /\ TotalsInv' /\ WholeInv'
        BY <1>1, <1>3, <2>1, <2>2 DEF StepInv, TotalsInv, WholeInv
    <2>4. \A i, W : ReadOf(i, W)' <=> ReadOf(i, W)
        BY <1>3, <2>1 DEF ReadOf, RowsOf
    <2>5. ItemsInv'
        BY <1>1, <2>1, <2>4 DEF ItemsInv
    <2> QED
        BY <1>3, <2>1, <2>3, <2>5 DEF AuditInv
<1>9. CASE Fails
    <2>1. /\ UNCHANGED vars /\ step' = "idle" /\ ids' = {} /\ totals' = {} /\ itemRows' = {}
          /\ answer' = answer /\ erased' = erased /\ answer = NoAnswer
        BY <1>1, <1>9 DEF Fails, StepInv
    <2>2. StepInv'
        BY <1>1, <1>3, <2>1 DEF StepInv
    <2>3. TotalsInv' /\ WholeInv' /\ ItemsInv'
        BY <1>3, <2>1 DEF TotalsInv, WholeInv, ItemsInv
    <2> QED
        BY <1>3, <2>1, <2>2, <2>3 DEF AuditInv
<1>10. CASE UNCHANGED auditVars
    <2>1. /\ UNCHANGED vars /\ ids' = ids /\ totals' = totals /\ itemRows' = itemRows
          /\ answer' = answer /\ erased' = erased /\ step' = step
        BY <1>10 DEF auditVars, handler
    <2>2. Judge' = Judge
        BY <2>1 DEF Judge, Audited, Recalculated
    <2>3. StepInv' /\ TotalsInv' /\ WholeInv'
        BY <1>1, <1>3, <2>1, <2>2 DEF StepInv, TotalsInv, WholeInv
    <2>4. \A i, W : ReadOf(i, W)' <=> ReadOf(i, W)
        BY <1>3, <2>1 DEF ReadOf, RowsOf
    <2>5. ItemsInv'
        BY <1>1, <2>1, <2>4 DEF ItemsInv
    <2> QED
        BY <1>3, <2>1, <2>3, <2>5 DEF AuditInv
<1> QED
    BY <1>2, <1>4, <1>5, <1>6, <1>7, <1>8, <1>9, <1>10 DEF AuditNext

LEMMA AuditAlways == AuditSpec => []AuditInv
<1>1. AuditInit => AuditInv
    BY AuditInitially
<1>2. AuditInv /\ [AuditNext]_auditVars => AuditInv'
    BY AuditSteps
<1> QED
    BY <1>1, <1>2, PTL DEF AuditSpec

\* Once all rows are read: what is finite.
LEMMA AuditIsFinite ==
    ASSUME AuditInv
    PROVE  /\ IsFiniteSet(ids) /\ Cardinality(ids) \in Nat
           /\ IsFiniteSet(Audited) /\ Cardinality(Audited) \in Nat
           /\ Cardinality(Audited) <= Cardinality(ids)
           /\ IsFiniteSet(Auditable)
           /\ step \in {"judge", "answered"} => IsFiniteSet(itemRows)
<1>1. HistoryInv /\ StepInv /\ TotalsInv /\ ItemsInv
    BY DEF AuditInv
<1>2. IsFiniteSet(ids)
    <2>1. ids \subseteq 1..usedIds.snapshots /\ usedIds.snapshots \in Nat
        BY <1>1 DEF HistoryInv, StepInv, Settled
    <2>2. IsFiniteSet(1..usedIds.snapshots)
        BY <2>1, FS_Interval
    <2> QED
        BY <2>1, <2>2, FS_Subset
<1>3. IsFiniteSet(Audited) /\ Cardinality(Audited) <= Cardinality(ids)
    <2> DEFINE f == [t \in Audited |-> t.id]
    <2>1. f \in Injection(Audited, ids)
        BY <1>1 DEF TotalsInv, Audited, Injection, IsInjective
    <2> HIDE DEF f
    <2> QED
        BY <1>2, <2>1, FS_Injection
<1>4. IsFiniteSet(Auditable)
    <2> DEFINE f == [s \in Auditable |-> s.id]
    <2>1. f \in Injection(Auditable, ids)
        BY <1>1 DEF HistoryInv, Auditable, Injection, IsInjective
    <2> HIDE DEF f
    <2> QED
        BY <1>2, <2>1, FS_Injection
<1>5. ASSUME step \in {"judge", "answered"}
      PROVE  IsFiniteSet(itemRows)
    <2> DEFINE P == ids \X Workloads
               f == [p \in P |-> Row(p[1], p[2])]
               T == {Row(p[1], p[2]) : p \in P}
    <2>1. IsFiniteSet(P)
        BY <1>2, WorkloadsAssumption, FS_Product
    <2>2. f \in Surjection(P, T)
        BY DEF Surjection
    <2>3. itemRows \subseteq T
        <3>1. ASSUME NEW x \in itemRows
              PROVE  x \in T
            <4>1. x.id \in ids
                BY <1>1 DEF ItemsInv
            <4>2. PICK W \in SUBSET Workloads : RowsOf(x.id) = {Row(x.id, w) : w \in W}
                BY <1>1, <1>5, <4>1 DEF ItemsInv, ReadOf
            <4>3. PICK w \in W : x = Row(x.id, w)
                BY <4>2 DEF RowsOf
            <4>4. <<x.id, w>> \in P /\ x = Row(<<x.id, w>>[1], <<x.id, w>>[2])
                BY <4>1, <4>3
            <4> QED
                BY <4>4
        <3> QED
            BY <3>1
    <2> HIDE DEF f, P, T
    <2> QED
        BY <2>1, <2>2, <2>3, FS_Surjection, FS_Subset
<1> QED
    BY <1>2, <1>3, <1>4, <1>5, FS_CardinalityType

\* What is reported of a scrape, and what is recalculated.
LEMMA OneScrape ==
    ASSUME AuditInv, step \in {"judge", "answered"}, NEW t \in Audited
    PROVE  /\ t.id \in ids /\ t.reported \in Nat /\ Recalculated(t) \in Nat
           /\ Cardinality(RowsOf(t.id)) \in Nat
           /\ t.reported <= Recalculated(t) + Grain * Cardinality(RowsOf(t.id))
           /\ Recalculated(t) <= t.reported + Grain * Cardinality(RowsOf(t.id))
<1> DEFINE i == t.id
<1>1. t \in totals /\ i \in ids /\ t.reported \in Nat /\ RowsOf(i) # {}
    BY DEF Audited, RowsOf, AuditInv, TotalsInv
<1>2. PICK W \in SUBSET Workloads : ReadOf(i, W)
    BY <1>1 DEF AuditInv, ItemsInv
<1>3. RowsOf(i) = {Row(i, w) : w \in W}
    BY <1>2 DEF ReadOf
<1>4. /\ IsFiniteSet(W) /\ W # {} /\ Cardinality(RowsOf(i)) = Cardinality(W)
      /\ SumFunction(RowCosts(i)) = SumFunction(StoredCosts(W)) /\ SumFunction(RowCosts(i)) \in Nat
    BY <1>1, <1>3, RowsFacts, CostFacts
<1>5. t.reported = CostOf(W)
    BY <1>1, <1>2, <1>4 DEF ReadOf
<1>6. Recalculated(t) = SumFunction(StoredCosts(W))
    BY <1>4 DEF Recalculated, RowCosts, RowsOf
<1> DEFINE f == MeasuredCosts(W)
           g == StoredCosts(W)
           e == [w \in W |-> Grain]
<1>7. /\ \A w \in W : f[w] \in Nat /\ g[w] \in Nat /\ e[w] \in Nat /\ f[w] <= g[w] + e[w]
      /\ \A w \in W : g[w] \in Nat /\ f[w] \in Nat /\ e[w] \in Nat /\ g[w] <= f[w] + e[w]
      /\ \A w \in W : e[w] = Grain
      /\ Grain \in Nat
    BY CostFacts, GrainAssumption
<1>8. t.reported = SumFunctionOnSet(f, W) /\ Recalculated(t) = SumFunctionOnSet(g, W)
    BY <1>5, <1>6, CostFacts
<1> HIDE DEF f, g, e
<1>9. SumFunctionOnSet(e, W) = Grain * Cardinality(W)
    BY <1>4, <1>7, SumCounts
<1>10. /\ SumFunctionOnSet(f, W) <= SumFunctionOnSet(g, W) + SumFunctionOnSet(e, W)
       /\ SumFunctionOnSet(g, W) <= SumFunctionOnSet(f, W) + SumFunctionOnSet(e, W)
    BY <1>4, <1>7, SumExceeds
<1>11. Cardinality(W) \in Nat
    BY <1>4, FS_CardinalityType
<1> QED
    BY <1>1, <1>4, <1>6, <1>8, <1>9, <1>10, <1>11

ReportedOf == [t \in Audited |-> t.reported]
RecalculatedOf == [t \in Audited |-> Recalculated(t)]

\* And of all the scrapes.
LEMMA AllScrapes ==
    ASSUME AuditInv, step \in {"judge", "answered"}
    PROVE  /\ Judge.reported \in Nat /\ Judge.recalculated \in Nat
           /\ Grain * Cardinality(itemRows) \in Nat
           /\ Judge.reported <= Judge.recalculated + Grain * Cardinality(itemRows)
           /\ Judge.recalculated <= Judge.reported + Grain * Cardinality(itemRows)
<1> DEFINE S == Audited
           n == [t \in S |-> Cardinality({x \in itemRows : x.id = t.id})]
           e == [t \in S |-> Grain * Cardinality({x \in itemRows : x.id = t.id})]
           f == ReportedOf
           g == RecalculatedOf
<1>1. IsFiniteSet(S) /\ IsFiniteSet(itemRows) /\ Cardinality(itemRows) \in Nat /\ Grain \in Nat
    BY AuditIsFinite, FS_CardinalityType, GrainAssumption
<1>2. ASSUME NEW t \in S
      PROVE  /\ f[t] \in Nat /\ g[t] \in Nat /\ n[t] \in Nat /\ e[t] = Grain * n[t]
             /\ f[t] <= g[t] + e[t] /\ g[t] <= f[t] + e[t]
    BY OneScrape DEF ReportedOf, RecalculatedOf, RowsOf
<1>3. \A s, t \in S : s.id = t.id => s = t
    BY DEF AuditInv, TotalsInv, Audited
<1>4. \A t \in S : n[t] = Cardinality({x \in itemRows : x.id = t.id})
    OBVIOUS
<1>5. Judge.reported = SumFunctionOnSet(f, S) /\ Judge.recalculated = SumFunctionOnSet(g, S)
    BY DEF Judge, SumFunction, ReportedOf, RecalculatedOf
<1> HIDE DEF S, n, e, f, g
<1>6. \A t \in S : e[t] \in Nat
    BY <1>1, <1>2, Products
<1>7. /\ SumFunctionOnSet(f, S) <= SumFunctionOnSet(g, S) + SumFunctionOnSet(e, S)
      /\ SumFunctionOnSet(g, S) <= SumFunctionOnSet(f, S) + SumFunctionOnSet(e, S)
    <2>1. /\ \A t \in S : f[t] \in Nat /\ g[t] \in Nat /\ e[t] \in Nat /\ f[t] <= g[t] + e[t]
          /\ \A t \in S : g[t] \in Nat /\ f[t] \in Nat /\ e[t] \in Nat /\ g[t] <= f[t] + e[t]
        BY <1>2, <1>6
    <2> QED
        BY <1>1, <2>1, SumExceeds
<1>8. /\ SumFunctionOnSet(f, S) \in Nat /\ SumFunctionOnSet(g, S) \in Nat
      /\ SumFunctionOnSet(e, S) \in Nat
    <2>1. /\ \A t \in S : f[t] \in Nat
          /\ \A t \in S : g[t] \in Nat
        BY <1>2
    <2> QED
        BY <1>1, <1>6, <2>1, SumIsNat
<1>9. SumFunctionOnSet(n, S) \in Nat /\ SumFunctionOnSet(n, S) <= Cardinality(itemRows)
    BY <1>1, <1>3, <1>4, SumOfCounts
<1>10. SumFunctionOnSet(e, S) = Grain * SumFunctionOnSet(n, S)
    <2>1. \A t \in S : e[t] \in Nat /\ n[t] \in Nat /\ e[t] * 1 = Grain * n[t]
        BY <1>2, <1>6
    <2>2. SumFunctionOnSet(e, S) * 1 = Grain * SumFunctionOnSet(n, S)
        BY <1>1, <2>1, SumOfShares
    <2> QED
        BY <1>8, <2>2
<1>11. /\ Grain * SumFunctionOnSet(n, S) <= Grain * Cardinality(itemRows)
       /\ Grain * Cardinality(itemRows) \in Nat
    BY <1>1, <1>9, Products
<1> DEFINE a == SumFunctionOnSet(f, S)
           b == SumFunctionOnSet(g, S)
           c == SumFunctionOnSet(e, S)
           d == Grain * Cardinality(itemRows)
<1>12. a \in Nat /\ b \in Nat /\ c \in Nat /\ d \in Nat /\ a <= b + c /\ b <= a + c /\ c <= d
    BY <1>7, <1>8, <1>10, <1>11
<1> HIDE DEF a, b, c, d
<1>13. a <= b + d /\ b <= a + d
    BY <1>12
<1> QED
    BY <1>5, <1>12, <1>13 DEF a, b, d

-----------------------------------------------------------------------------
(***************************************************************************)
(* The audit's state keeps its types, and never are more scrapes audited   *)
(* than read (audit.go:218).                                               *)
(***************************************************************************)
THEOREM AuditTypeCorrect == AuditSpec => []AuditTypeOK
<1>1. ASSUME AuditInv PROVE AuditTypeOK
    <2>1. HistoryInv /\ StepInv /\ TotalsInv /\ ItemsInv
        BY <1>1 DEF AuditInv
    <2>2. ids \subseteq 1..MaxIds
        BY <2>1, MaxIdsAssumption DEF HistoryInv, StepInv, Settled
    <2>3. itemRows \subseteq [id : ids, w : Workloads, requested : Nat, used : Nat]
        <3>1. ASSUME NEW x \in itemRows
              PROVE  x \in [id : ids, w : Workloads, requested : Nat, used : Nat]
            <4>1. x.id \in ids /\ x \in RowsOf(x.id) /\ step \in {"judge", "answered"}
                BY <2>1 DEF ItemsInv, StepInv, RowsOf
            <4>2. PICK W \in SUBSET Workloads : RowsOf(x.id) = {Row(x.id, w) : w \in W}
                BY <2>1, <4>1 DEF ItemsInv, ReadOf
            <4>3. x \in [id : {x.id}, w : Workloads, requested : Nat, used : Nat]
                BY <4>1, <4>2, RowsFacts
            <4> QED
                BY <4>1, <4>3
        <3> QED
            BY <3>1
    <2>4. answer \in AuditResponse /\ answer.audited <= answer.scrapes
        <3>1. CASE step # "answered"
            <4>1. NoAnswer \in AuditResponse
                BY DEF NoAnswer, AuditResponse
            <4>2. NoAnswer.audited <= NoAnswer.scrapes
                BY DEF NoAnswer
            <4> QED
                BY <2>1, <3>1, <4>1, <4>2 DEF StepInv
        <3>2. CASE step = "answered"
            <4>1. answer = Judge
                BY <2>1, <3>2 DEF StepInv
            <4>2. /\ Judge.scrapes = Cardinality(ids) /\ Judge.audited = Cardinality(Audited)
                  /\ Judge.conclusive \in BOOLEAN
                  /\ Judge = [scrapes |-> Judge.scrapes, audited |-> Judge.audited,
                              reported |-> Judge.reported, recalculated |-> Judge.recalculated,
                              conclusive |-> Judge.conclusive, within |-> Judge.within]
                BY DEF Judge
            <4>3. Judge.within \in BOOLEAN
                BY DEF Judge, WithinTolerance
            <4>4. Judge.reported \in Nat /\ Judge.recalculated \in Nat
                BY <1>1, <3>2, AllScrapes
            <4>5. /\ Judge.scrapes \in Nat /\ Judge.audited \in Nat
                  /\ Judge.audited <= Judge.scrapes
                BY <1>1, <4>2, AuditIsFinite
            <4> DEFINE J == Judge
            <4> HIDE DEF J
            <4>6. Judge \in AuditResponse
                BY <4>2, <4>3, <4>4, <4>5 DEF AuditResponse
            <4> QED
                BY <4>1, <4>5, <4>6
        <3> QED
            BY <3>1, <3>2
    <2> QED
        BY <2>1, <2>2, <2>3, <2>4 DEF AuditTypeOK, StepInv, TotalsInv
<1> QED
    BY <1>1, AuditAlways, PTL

(***************************************************************************)
(* A conclusive audit differs from what was reported by the rounding of    *)
(* the columns only (NoFalseDivergence, audit.go:95-125 and 155-215), in   *)
(* whatever way saves and erasures fall between its three reads.           *)
(***************************************************************************)
THEOREM NoFalseAlarm == AuditSpec => []NoFalseDivergence
<1>1. ASSUME AuditInv, step = "answered", answer.conclusive
      PROVE  LET error == Grain * Cardinality(itemRows)
             IN  /\ Distance(answer.reported, answer.recalculated) <= error
                 /\ 10 * error < answer.recalculated => answer.within
    <2> DEFINE a == answer.reported
               b == answer.recalculated
               d == Grain * Cardinality(itemRows)
    <2>1. answer = Judge
        BY <1>1 DEF AuditInv, StepInv
    <2>2. a \in Nat /\ b \in Nat /\ d \in Nat /\ a <= b + d /\ b <= a + d
        BY <1>1, <2>1, AllScrapes
    <2>3. answer.within <=> WithinTolerance(a, b)
        <3>1. Judge.within <=> Judge.conclusive /\ WithinTolerance(Judge.reported, Judge.recalculated)
            BY DEF Judge
        <3> QED
            BY <1>1, <2>1, <3>1
    <2> HIDE DEF a, b, d
    <2>4. Distance(a, b) <= d
        BY <2>2 DEF Distance
    <2>5. 10 * d < b => WithinTolerance(a, b)
        BY <2>2 DEF Distance, WithinTolerance
    <2> QED
        BY <2>3, <2>4, <2>5 DEF a, b, d
<1>2. AuditInv => NoFalseDivergence
    BY <1>1 DEF NoFalseDivergence
<1> QED
    BY <1>2, AuditAlways, PTL

(***************************************************************************)
(* Without an erasure nothing that could be audited is left out            *)
(* (CompleteUnlessErased, audit.go:127-153).                               *)
(***************************************************************************)
THEOREM OnlyErasuresHide == AuditSpec => []CompleteUnlessErased
<1>1. ASSUME AuditInv, step = "answered", ~ erased
      PROVE  /\ answer.audited = Cardinality(Auditable)
             /\ answer.recalculated = SumFunction([s \in Auditable |-> StoredCost(s)])
    <2> DEFINE b == [s \in Auditable |-> CHOOSE t \in totals : t.id = s.id]
               f == [s \in Auditable |-> StoredCost(s)]
               g == RecalculatedOf
               S == Auditable
    <2>1. HistoryInv /\ StepInv /\ TotalsInv /\ WholeInv /\ ItemsInv
        BY <1>1 DEF AuditInv
    <2>2. ASSUME NEW s \in S
          PROVE  /\ s \in snapshots /\ s.id \in ids /\ s.items # {} /\ s.items \in SUBSET Workloads
                 /\ b[s] \in totals /\ b[s].id = s.id
                 /\ RowsOf(s.id) = {Row(s.id, w) : w \in s.items}
        <3>1. s \in snapshots /\ s.id \in ids /\ s.items # {} /\ s.items \in SUBSET Workloads
            BY <2>1 DEF Auditable, HistoryInv
        <3>2. \E t \in totals : t.id = s.id
            BY <1>1, <2>1, <3>1 DEF WholeInv
        <3>3. PICK W \in SUBSET Workloads : ReadOf(s.id, W)
            BY <1>1, <2>1, <3>1 DEF ItemsInv
        <3> QED
            BY <3>1, <3>2, <3>3 DEF ReadOf
    <2>3. ASSUME NEW s \in S
          PROVE  b[s] \in Audited /\ f[s] \in Nat /\ g[b[s]] = f[s]
        <3>1. RowsOf(s.id) # {} /\ SumFunction(RowCosts(s.id)) = SumFunction(StoredCosts(s.items))
            <4>1. PICK W \in SUBSET Workloads : W = s.items
                BY <2>2
            <4>2. RowsOf(s.id) = {Row(s.id, w) : w \in W} /\ W # {}
                BY <2>2, <4>1
            <4> HIDE DEF b, f, g, S
            <4>3. RowsOf(s.id) # {} /\ SumFunction(RowCosts(s.id)) = SumFunction(StoredCosts(W))
                BY <4>2, RowsFacts
            <4> QED
                BY <4>1, <4>3
        <3>2. b[s] \in Audited
            BY <2>2, <3>1 DEF Audited, RowsOf
        <3>3. g[b[s]] = SumFunction(RowCosts(s.id))
            BY <2>2, <3>2 DEF RecalculatedOf, Recalculated, RowCosts, RowsOf
        <3>4. f[s] = SumFunction(StoredCosts(s.items))
            BY DEF StoredCost, StoredCosts
        <3> QED
            BY <2>2, <3>1, <3>2, <3>3, <3>4, CostFacts
    <2>4. \A r, s \in S : b[r] = b[s] => r = s
        BY <2>1, <2>2 DEF HistoryInv
    <2>5. {b[s] : s \in S} = Audited
        <3>1. ASSUME NEW t \in Audited
              PROVE  \E s \in S : b[s] = t
            <4>1. t \in totals /\ t.id \in ids /\ RowsOf(t.id) # {}
                BY <2>1 DEF Audited, TotalsInv, RowsOf
            <4>2. PICK s \in snapshots : s.id = t.id
                BY <1>1, <2>1, <4>1 DEF WholeInv
            <4>3. PICK W \in SUBSET Workloads : ReadOf(t.id, W)
                BY <1>1, <2>1, <4>1 DEF ItemsInv
            <4>4. s \in S
                BY <4>1, <4>2, <4>3 DEF ReadOf, Auditable
            <4>5. b[s] = t
                BY <2>1, <2>2, <4>1, <4>2, <4>4 DEF TotalsInv
            <4> QED
                BY <4>4, <4>5
        <3>2. \A s \in S : b[s] \in Audited
            BY <2>3
        <3> HIDE DEF b, S
        <3> QED
            BY <3>1, <3>2
    <2>6. IsFiniteSet(S)
        BY <1>1, AuditIsFinite
    <2>7. answer = Judge
        BY <1>1, <2>1 DEF StepInv
    <2>8. /\ answer.audited = Cardinality(Audited)
          /\ answer.recalculated = SumFunctionOnSet(g, Audited)
          /\ SumFunction(f) = SumFunctionOnSet(f, S)
        BY <2>7 DEF Judge, SumFunction, RecalculatedOf
    <2>9. /\ Cardinality({b[s] : s \in S}) = Cardinality(S)
          /\ SumFunctionOnSet(g, {b[s] : s \in S}) = SumFunctionOnSet(f, S)
        <3>1. \A s \in S : f[s] \in Nat /\ g[b[s]] = f[s]
            BY <2>3
        <3> HIDE DEF b, f, g, S
        <3> QED
            BY <2>4, <2>6, <3>1, SumOfImage
    <2> QED
        BY <2>5, <2>8, <2>9
<1>2. AuditInv => CompleteUnlessErased
    BY <1>1 DEF CompleteUnlessErased
<1> QED
    BY <1>2, AuditAlways, PTL
=============================================================================
