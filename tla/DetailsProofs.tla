--------------------------- MODULE DetailsProofs ---------------------------
(***************************************************************************)
(* Proofs of the properties of Details, for all names and parameters.      *)
(* Three lemmas about names carry them: the order of strings is total and  *)
(* has a first name in every finite set; what the queries select begins    *)
(* with what the second filter wants; and LIKE selects what the queries    *)
(* select, and nothing else if there is no underscore.                     *)
(***************************************************************************)
EXTENDS Details, FiniteSetTheorems, SequenceTheorems, WellFoundedInduction, TLAPS

Names == Seq(Nat)

\* A set of natural numbers has a least one.
LEMMA LeastExists ==
    ASSUME NEW T \in SUBSET Nat, T # {}
    PROVE  \E n \in T : \A m \in T : n <= m
<1> DEFINE L == OpToRel(<, Nat)
<1>1. IsWellFoundedOn(L, Nat)
    BY NatLessThanWellFounded
<1>2. \A m, n \in Nat : m < n => <<m, n>> \in L
    BY DEF OpToRel
<1> HIDE DEF L
<1>3. PICK n \in T : \A m \in T : ~ (<<m, n>> \in L)
    BY <1>1, WFMin
<1>4. \A m \in T : ~ (m < n)
    BY <1>2, <1>3
<1> QED
    BY <1>3, <1>4

\* A prefix agrees at each of its places.
LEMMA PrefixByPlaces ==
    ASSUME NEW s \in Names, NEW t \in Names
    PROVE  IsPrefix(s, t) <=> Len(s) <= Len(t) /\ \A i \in 1..Len(s) : s[i] = t[i]
<1>1. SUFFICES ASSUME Len(s) <= Len(t)
               PROVE  SubSeq(t, 1, Len(s)) = s <=> \A i \in 1..Len(s) : s[i] = t[i]
    <2>1. SubSeq(s, 1, Len(s)) = s
        BY DEF Names
    <2> QED
        BY <1>1, <2>1 DEF IsPrefix
<1> DEFINE u == SubSeq(t, 1, Len(s))
<1>2. Len(s) \in Nat /\ \A i \in 1..Len(s) : t[i] \in Nat
    BY <1>1 DEF Names
<1>3. u \in Seq(Nat) /\ Len(u) = Len(s) /\ \A i \in 1..Len(s) : u[i] = t[i]
    BY <1>2, SubSeqProperties
<1> QED
    BY <1>3, SeqEqual DEF Names
-----------------------------------------------------------------------------
(***************************************************************************)
(* The order of names.  Past its end a name has something that is before   *)
(* every character: then a name precedes another if it has less at the     *)
(* first place where they differ.                                          *)
(***************************************************************************)
CharAt(s, i) == IF i \in DOMAIN s THEN s[i] + 1 ELSE 0

Differ(s, t, i) == CharAt(s, i) < CharAt(t, i) /\ \A j \in 1..(i - 1) : CharAt(s, j) = CharAt(t, j)

LEMMA CharAtType ==
    ASSUME NEW s \in Names, NEW i \in Nat
    PROVE  /\ CharAt(s, i) \in Nat
           /\ CharAt(s, i) > 0 <=> i \in 1..Len(s)
BY DEF CharAt, Names

LEMMA SameCharacters ==
    ASSUME NEW s \in Names, NEW t \in Names, \A i \in Nat \ {0} : CharAt(s, i) = CharAt(t, i)
    PROVE  s = t
<1>1. Len(s) \in Nat /\ Len(t) \in Nat
    BY DEF Names
<1>2. ~ (Len(s) < Len(t))
    <2>1. SUFFICES ASSUME Len(s) < Len(t)
                   PROVE  FALSE
        OBVIOUS
    <2>2. Len(t) \in 1..Len(t) /\ Len(t) \notin 1..Len(s)
        BY <1>1, <2>1
    <2>3. CharAt(t, Len(t)) > 0 /\ ~ (CharAt(s, Len(t)) > 0)
        BY <1>1, <2>2, CharAtType
    <2> QED
        BY <1>1, <2>2, <2>3
<1>3. ~ (Len(t) < Len(s))
    <2>1. SUFFICES ASSUME Len(t) < Len(s)
                   PROVE  FALSE
        OBVIOUS
    <2>2. Len(s) \in 1..Len(s) /\ Len(s) \notin 1..Len(t)
        BY <1>1, <2>1
    <2>3. CharAt(s, Len(s)) > 0 /\ ~ (CharAt(t, Len(s)) > 0)
        BY <1>1, <2>2, CharAtType
    <2> QED
        BY <1>1, <2>2, <2>3
<1>4. Len(s) = Len(t)
    BY <1>1, <1>2, <1>3
<1>5. ASSUME NEW i \in 1..Len(s)
      PROVE  s[i] = t[i]
    <2>1. CharAt(s, i) = s[i] + 1 /\ CharAt(t, i) = t[i] + 1
        BY <1>4 DEF CharAt, Names
    <2>2. CharAt(s, i) = CharAt(t, i) /\ s[i] \in Nat /\ t[i] \in Nat
        BY <1>1, <1>4 DEF Names
    <2> QED
        BY <2>1, <2>2
<1> QED
    BY <1>4, <1>5, SeqEqual DEF Names

LEMMA PrecedesAtAPlace ==
    ASSUME NEW s \in Names, NEW t \in Names
    PROVE  Precedes(s, t) <=> \E i \in Nat \ {0} : Differ(s, t, i)
<1>1. /\ Len(s) \in Nat /\ Len(t) \in Nat
      /\ DOMAIN s = 1..Len(s) /\ DOMAIN t = 1..Len(t)
      /\ s \in [1..Len(s) -> Nat] /\ t \in [1..Len(t) -> Nat]
    BY DEF Names
<1>2. ASSUME IsStrictPrefix(s, t)
      PROVE  \E i \in Nat \ {0} : Differ(s, t, i)
    <2>1. Len(s) <= Len(t) /\ \A i \in 1..Len(s) : s[i] = t[i]
        BY <1>2, PrefixByPlaces DEF IsStrictPrefix
    <2>2. Len(s) # Len(t)
        BY <1>2, <2>1, SeqEqual DEF IsStrictPrefix, Names
    <2> DEFINE i == Len(s) + 1
    <2>3. i \in 1..Len(t) /\ i \notin 1..Len(s)
        <3>1. Len(s) \in Nat /\ Len(t) \in Nat /\ Len(s) <= Len(t)
            BY <1>1, <2>1
        <3> QED
            BY <2>2, <3>1
    <2>4. CharAt(s, i) < CharAt(t, i)
        BY <1>1, <2>3 DEF CharAt
    <2>5. ASSUME NEW j \in 1..(i - 1)
          PROVE  CharAt(s, j) = CharAt(t, j)
        <3>1. j \in 1..Len(s) /\ j \in 1..Len(t)
            BY <1>1, <2>1
        <3> QED
            BY <1>1, <2>1, <3>1 DEF CharAt
    <2> QED
        BY <1>1, <2>4, <2>5 DEF Differ
<1>3. ASSUME NEW i \in DOMAIN s \cap DOMAIN t, s[i] < t[i], \A j \in 1..(i - 1) : s[j] = t[j]
      PROVE  Differ(s, t, i) /\ i \in Nat \ {0}
    BY <1>1, <1>3 DEF Differ, CharAt
<1>4. ASSUME NEW i \in Nat \ {0}, Differ(s, t, i)
      PROVE  Precedes(s, t)
    <2>1. i \in 1..Len(t)
        BY <1>1, <1>4 DEF Differ, CharAt
    <2>2. \A j \in 1..(i - 1) : j \in 1..Len(s) => s[j] = t[j]
        <3>1. TAKE j \in 1..(i - 1)
        <3>2. CharAt(s, j) = CharAt(t, j) /\ j \in 1..Len(t)
            BY <1>1, <1>4, <2>1 DEF Differ
        <3> QED
            BY <1>1, <3>2 DEF CharAt
    <2>3. CASE i \in 1..Len(s)
        <3>1. s[i] < t[i]
            BY <1>1, <1>4, <2>1, <2>3 DEF Differ, CharAt
        <3>2. i \in DOMAIN s \cap DOMAIN t
            BY <1>1, <2>1, <2>3
        <3>3. \A j \in 1..(i - 1) : s[j] = t[j]
            BY <1>1, <2>2, <2>3
        <3> QED
            BY <3>1, <3>2, <3>3 DEF Precedes
    <2>4. CASE i \notin 1..Len(s)
        <3>1. Len(s) < Len(t) /\ \A j \in 1..Len(s) : s[j] = t[j]
            BY <1>1, <2>1, <2>2, <2>4
        <3>2. IsPrefix(s, t) /\ s # t
            BY <1>1, <3>1, PrefixByPlaces
        <3> QED
            BY <3>2 DEF Precedes, IsStrictPrefix
    <2> QED
        BY <2>3, <2>4
<1> QED
    BY <1>2, <1>3, <1>4 DEF Precedes

LEMMA PrecedesTotal ==
    ASSUME NEW s \in Names, NEW t \in Names, s # t
    PROVE  Precedes(s, t) \/ Precedes(t, s)
<1> DEFINE D == {i \in Nat \ {0} : CharAt(s, i) # CharAt(t, i)}
<1>1. D # {}
    BY SameCharacters
<1>2. PICK i \in D : \A j \in D : i <= j
    BY <1>1, LeastExists
<1>3. \A j \in 1..(i - 1) : CharAt(s, j) = CharAt(t, j)
    BY <1>2
<1>4. CharAt(s, i) \in Nat /\ CharAt(t, i) \in Nat /\ CharAt(s, i) # CharAt(t, i)
    BY CharAtType
<1>5. Differ(s, t, i) \/ Differ(t, s, i)
    BY <1>3, <1>4 DEF Differ
<1> QED
    BY <1>5, PrecedesAtAPlace

LEMMA PrecedesTransitive ==
    ASSUME NEW s \in Names, NEW t \in Names, NEW u \in Names, Precedes(s, t), Precedes(t, u)
    PROVE  Precedes(s, u)
<1>1. PICK i \in Nat \ {0} : Differ(s, t, i)
    BY PrecedesAtAPlace
<1>2. PICK k \in Nat \ {0} : Differ(t, u, k)
    BY PrecedesAtAPlace
<1>3. \A j \in Nat : CharAt(s, j) \in Nat /\ CharAt(t, j) \in Nat /\ CharAt(u, j) \in Nat
    BY CharAtType
<1>4. CASE i < k
    <2>1. i \in 1..(k - 1) /\ \A j \in 1..(i - 1) : j \in 1..(k - 1)
        BY <1>4
    <2>2. CharAt(s, i) < CharAt(u, i)
        BY <1>1, <1>2, <1>3, <2>1 DEF Differ
    <2>3. \A j \in 1..(i - 1) : CharAt(s, j) = CharAt(u, j)
        BY <1>1, <1>2, <2>1 DEF Differ
    <2> QED
        BY <2>2, <2>3, PrecedesAtAPlace DEF Differ
<1>5. CASE ~ (i < k)
    <2>1. k \in 1..i /\ \A j \in 1..(k - 1) : j \in 1..(i - 1)
        BY <1>5
    <2>2. CharAt(s, k) <= CharAt(t, k)
        BY <1>1, <1>3, <2>1 DEF Differ
    <2>3. CharAt(s, k) < CharAt(u, k)
        BY <1>2, <1>3, <2>2 DEF Differ
    <2>4. \A j \in 1..(k - 1) : CharAt(s, j) = CharAt(u, j)
        BY <1>1, <1>2, <2>1 DEF Differ
    <2> QED
        BY <2>3, <2>4, PrecedesAtAPlace DEF Differ
<1> QED
    BY <1>4, <1>5

\* A name in S that precedes all the others.
IsFirst(p, S) == p \in S /\ \A q \in S : p = q \/ Precedes(p, q)

LEMMA FirstExists ==
    ASSUME NEW S \in SUBSET Names, IsFiniteSet(S), S # {}
    PROVE  \E p \in S : IsFirst(p, S)
<1> DEFINE Without(n) == \E T \in SUBSET S : /\ T # {} /\ Cardinality(T) = n
                                             /\ \A p \in T : ~ IsFirst(p, T)
           B == {n \in Nat : Without(n)}
<1>1. \A T \in SUBSET S : IsFiniteSet(T) /\ Cardinality(T) \in Nat
    BY FS_Subset, FS_CardinalityType
<1>2. SUFFICES ASSUME B # {}
               PROVE  FALSE
    BY <1>1
<1>3. PICK n \in B : \A m \in B : n <= m
    <2>1. B \subseteq Nat
        OBVIOUS
    <2> HIDE DEF B
    <2> QED
        BY <1>2, <2>1, LeastExists
<1>4. PICK T \in SUBSET S : T # {} /\ Cardinality(T) = n /\ \A p \in T : ~ IsFirst(p, T)
    BY <1>3
<1>5. PICK x \in T : TRUE
    BY <1>4
<1>6. Cardinality(T \ {x}) = n - 1 /\ T \ {x} \in SUBSET S /\ n - 1 \in Nat
    BY <1>1, <1>4, FS_RemoveElement
<1>7. ~ Without(n - 1)
    BY <1>3, <1>6
<1>8. CASE T \ {x} = {}
    BY <1>4, <1>8 DEF IsFirst
<1>9. CASE T \ {x} # {}
    <2>1. PICK p \in T \ {x} : IsFirst(p, T \ {x})
        BY <1>6, <1>7, <1>9
    <2>2. Precedes(p, x) \/ Precedes(x, p)
        BY <2>1, PrecedesTotal
    <2>3. CASE Precedes(p, x)
        BY <1>4, <2>1, <2>3 DEF IsFirst
    <2>4. CASE Precedes(x, p)
        <3>1. ASSUME NEW q \in T
              PROVE  x = q \/ Precedes(x, q)
            BY <2>1, <2>4, PrecedesTransitive DEF IsFirst
        <3> QED
            BY <1>4, <3>1 DEF IsFirst
    <2> QED
        BY <2>2, <2>3, <2>4
<1> QED
    BY <1>8, <1>9
-----------------------------------------------------------------------------
(***************************************************************************)
(* The loop over the items stops at the first that fits.                   *)
(***************************************************************************)
LEMMA FirstOfFits ==
    ASSUME NEW S \in SUBSET Names, IsFiniteSet(S), NEW pod
    PROVE  IF Fitting(S, pod) = {} THEN FirstOf(S, pod) = None
           ELSE IsFirst(FirstOf(S, pod), Fitting(S, pod))
<1> DEFINE F == Fitting(S, pod)
<1>1. F \in SUBSET S /\ F \in SUBSET Names /\ IsFiniteSet(F)
    BY FS_Subset DEF Fitting
<1>2. CASE F = {}
    BY <1>2 DEF FirstOf
<1>3. CASE F # {}
    <2>1. \E p \in F : IsFirst(p, F)
        BY <1>1, <1>3, FirstExists
    <2>2. FirstOf(S, pod) = CHOOSE p \in F : \A q \in F : p = q \/ Precedes(p, q)
        BY <1>3 DEF FirstOf
    <2> HIDE DEF F
    <2>3. \E p \in F : \A q \in F : p = q \/ Precedes(p, q)
        BY <2>1 DEF IsFirst
    <2> QED
        BY <1>3, <2>2, <2>3 DEF IsFirst, F
<1> QED
    BY <1>2, <1>3

\* A name comes before all others that begin with it.
LEMMA NotBeforeItsPrefix ==
    ASSUME NEW s \in Names, NEW t \in Names, IsPrefix(s, t)
    PROVE  ~ Precedes(t, s)
<1>1. SUFFICES ASSUME NEW i \in Nat \ {0}, Differ(t, s, i)
               PROVE  FALSE
    BY PrecedesAtAPlace
<1>2. Len(s) \in Nat /\ Len(t) \in Nat /\ s \in [1..Len(s) -> Nat] /\ t \in [1..Len(t) -> Nat]
    BY DEF Names
<1>3. CharAt(s, i) \in Nat /\ CharAt(t, i) \in Nat /\ CharAt(t, i) < CharAt(s, i)
    BY <1>1, CharAtType DEF Differ
<1>4. i \in 1..Len(s)
    BY <1>3, CharAtType
<1>5. i \in 1..Len(t) /\ s[i] = t[i]
    BY <1>2, <1>4, PrefixByPlaces
<1> QED
    BY <1>2, <1>3, <1>4, <1>5 DEF CharAt
-----------------------------------------------------------------------------
(***************************************************************************)
(* What a pattern selects.                                                 *)
(***************************************************************************)
LEMMA PodPatternType ==
    ASSUME NEW pod \in Names
    PROVE  /\ PodPattern(pod) \in Names
           /\ Len(pod) <= Len(PodPattern(pod))
           /\ \A i \in 1..Len(pod) : PodPattern(pod)[i] = pod[i]
           /\ Range(PodPattern(pod)) \subseteq Range(pod) \cup {Percent}
<1>1. CASE Percent \in Range(pod)
    BY <1>1 DEF PodPattern, Names
<1>2. CASE Percent \notin Range(pod)
    <2> DEFINE p == Append(pod, Percent)
    <2>1. Percent \in Nat
        BY DEF Percent
    <2>2. /\ p \in Seq(Nat) /\ Len(p) = Len(pod) + 1
          /\ \A i \in 1..Len(pod) : p[i] = pod[i]
          /\ p[Len(pod) + 1] = Percent
        BY <2>1, AppendProperties DEF Names
    <2>3. DOMAIN p = 1..(Len(pod) + 1) /\ DOMAIN pod = 1..Len(pod) /\ Len(pod) \in Nat
        BY <2>2 DEF Names
    <2> HIDE DEF p
    <2>4. Range(p) \subseteq Range(pod) \cup {Percent}
        BY <2>2, <2>3 DEF Range
    <2>5. PodPattern(pod) = p
        BY <1>2 DEF PodPattern, p
    <2> QED
        BY <2>2, <2>3, <2>4, <2>5 DEF Names
<1> QED
    BY <1>1, <1>2

\* What comes before the first wildcard.
LEMMA BeforeWildcardIs ==
    ASSUME NEW pod \in Names
    PROVE  /\ BeforeWildcard(pod) \in Names
           /\ Len(BeforeWildcard(pod)) <= Len(pod)
           /\ \A i \in 1..Len(BeforeWildcard(pod)) :
                 BeforeWildcard(pod)[i] = pod[i] /\ pod[i] # Percent
<1>1. DOMAIN pod = 1..Len(pod) /\ Len(pod) \in Nat /\ pod \in [1..Len(pod) -> Nat]
    BY DEF Names
<1>2. CASE Percent \notin Range(pod)
    BY <1>1, <1>2 DEF BeforeWildcard, Range
<1>3. CASE Percent \in Range(pod)
    <2> DEFINE W == {i \in 1..Len(pod) : pod[i] = Percent}
               First(i) == pod[i] = Percent /\ \A j \in 1..(i - 1) : pod[j] # Percent
               f == CHOOSE i \in DOMAIN pod : First(i)
    <2>1. W # {} /\ W \in SUBSET Nat
        BY <1>1, <1>3 DEF Range
    <2>2. PICK i \in W : \A j \in W : i <= j
        BY <2>1, LeastExists
    <2>3. ASSUME NEW j \in 1..(i - 1)
          PROVE  pod[j] # Percent
        <3>1. j \in 1..Len(pod) /\ ~ (i <= j)
            BY <1>1
        <3> QED
            BY <2>2, <3>1
    <2>4. i \in DOMAIN pod /\ First(i)
        BY <1>1, <2>2, <2>3
    <2>5. f \in DOMAIN pod /\ First(f)
        BY <2>4
    <2>6. BeforeWildcard(pod) = SubSeq(pod, 1, f - 1)
        BY <1>3 DEF BeforeWildcard
    <2> HIDE DEF f
    <2>7. f - 1 \in Nat /\ f - 1 <= Len(pod) /\ \A j \in 1..(f - 1) : pod[j] \in Nat
        BY <1>1, <2>5
    <2> DEFINE b == SubSeq(pod, 1, f - 1)
    <2>8. /\ b \in Seq(Nat) /\ Len(b) = f - 1
          /\ \A j \in 1..(f - 1) : b[j] = pod[j]
        BY <2>7, SubSeqProperties
    <2> HIDE DEF b
    <2> QED
        BY <2>5, <2>6, <2>7, <2>8 DEF Names, b
<1> QED
    BY <1>2, <1>3

\* Whatever the queries select, the second filter accepts: up to the first wildcard each
\* character of the pattern matches one character, itself.
LEMMA SelectedFits ==
    ASSUME NEW name \in Names, NEW pod \in Names, LiveSelects(name, pod)
    PROVE  PodPrefixMatch(name, pod)
<1> DEFINE b == BeforeWildcard(pod)
           p == PodPattern(pod)
<1>1. /\ b \in Names /\ Len(b) \in Nat /\ Len(b) <= Len(pod) /\ Len(pod) \in Nat
      /\ \A i \in 1..Len(b) : b[i] = pod[i] /\ pod[i] # Percent
    BY BeforeWildcardIs DEF Names
<1>2. /\ p \in Names /\ Len(p) \in Nat /\ Len(pod) <= Len(p) /\ \A i \in 1..Len(pod) : p[i] = pod[i]
      /\ DOMAIN p = 1..Len(p)
    BY PodPatternType DEF Names
<1>3. Len(name) \in Nat
    BY DEF Names
<1>4. CASE pod = None
    <2>1. Len(b) = 0
        BY <1>1, <1>4 DEF None
    <2> QED
        BY <1>1, <1>3, <2>1, PrefixByPlaces DEF PodPrefixMatch
<1>5. CASE pod # None
    <2>1. Matches(name, p, {})
        BY <1>5 DEF LiveSelects
    <2> HIDE DEF b, p
    <2>2. PICK cut \in [0..Len(p) -> 0..Len(name)] :
              /\ cut[0] = 0
              /\ \A j \in DOMAIN p :
                    \/ p[j] = Percent /\ cut[j - 1] <= cut[j]
                    \/ p[j] # Percent /\ cut[j] = cut[j - 1] + 1 /\ p[j] = name[cut[j]]
        BY <2>1 DEF Matches
    <2>3. \A i \in 1..Len(b) : /\ i \in DOMAIN p /\ i \in 0..Len(p) /\ i - 1 \in 0..Len(p)
                               /\ p[i] = b[i] /\ p[i] # Percent
        BY <1>1, <1>2
    <2>4. \A i \in 1..Len(b) : cut[i] = cut[i - 1] + 1 /\ b[i] = name[cut[i]]
        BY <2>2, <2>3
    <2> DEFINE B == {i \in 0..Len(b) : cut[i] # i}
    <2>5. B = {}
        <3>1. SUFFICES ASSUME B # {}
                       PROVE  FALSE
            OBVIOUS
        <3>2. PICK i \in B : \A j \in B : i <= j
            <4>1. B \in SUBSET Nat
                BY <1>1
            <4> HIDE DEF B
            <4> QED
                BY <3>1, <4>1, LeastExists
        <3>3. i \in 1..Len(b) /\ i - 1 \in 0..Len(b)
            BY <1>1, <2>2, <3>2
        <3>4. cut[i - 1] = i - 1
            BY <3>2, <3>3
        <3> QED
            BY <2>4, <3>2, <3>3, <3>4
    <2>6. \A i \in 1..Len(b) : cut[i] = i /\ cut[i] <= Len(name)
        BY <1>1, <2>2, <2>3, <2>5
    <2>7. Len(b) <= Len(name) /\ \A i \in 1..Len(b) : b[i] = name[i]
        BY <1>1, <1>3, <2>4, <2>6
    <2> QED
        BY <1>1, <2>7, PrefixByPlaces DEF PodPrefixMatch, b
<1> QED
    BY <1>4, <1>5

\* LIKE selects what the queries select.
LEMMA LikeSelectsMore ==
    ASSUME NEW name, NEW pod, LiveSelects(name, pod)
    PROVE  LikeSelects(name, pod)
BY DEF LiveSelects, LikeSelects, Matches

\* It selects nothing else if there is no underscore.
LEMMA LikeSelectsNoMore ==
    ASSUME NEW name, NEW pod \in Names, LikeSelects(name, pod), Underscore \notin Range(pod)
    PROVE  LiveSelects(name, pod)
<1> DEFINE p == PodPattern(pod)
<1>1. Underscore \notin Range(p)
    BY PodPatternType DEF Underscore, Percent
<1>2. \A j \in DOMAIN p : p[j] \notin {Underscore}
    BY <1>1 DEF Range
<1>3. SUFFICES ASSUME Matches(name, p, {Underscore})
               PROVE  Matches(name, p, {})
    BY DEF LiveSelects, LikeSelects
<1> HIDE DEF p
<1> QED
    BY <1>2, <1>3 DEF Matches
-----------------------------------------------------------------------------
(***************************************************************************)
(* The inductive invariant.  The items are what the queries select and the *)
(* current pod is the first that fits (Live); the bounds are those that    *)
(* the parameters name, at some instant (Bounded); and the points are the  *)
(* newest of the rows that the statement selects (Answered), of a history  *)
(* that does not change after the answer.                                  *)
(***************************************************************************)
Selected == {r \in history : LikeSelects(r.pod, asked.pod) /\ InBounds(r)}

Live ==
    /\ items \subseteq {p \in Pods : LiveSelects(p, asked.pod)}
    /\ current = FirstOf(items, asked.pod)

PeriodEnding(n) ==
    bounds = [start |-> <<n - asked.dates.period[1]>>, end |-> <<n>>]

Bounded ==
    IF pc \in {"history", "answered"}
    THEN IF asked.dates.period # None THEN \E n \in Nat : PeriodEnding(n)
         ELSE bounds.start = asked.dates.start /\ (bounds.start # None \/ bounds.end = asked.dates.end)
    ELSE pc # "failed" => bounds = NoBounds

Answered == IF pc = "answered" THEN points \in NewestRows(Selected) ELSE points = {}

TypeInv ==
    /\ TypeOK
    /\ asked \in [pod : Names, dates : [period : Params, start : Params, end : Params],
                  limit : Params]
    /\ bounds \in [start : Params, end : Params]

DetailsInv ==
    /\ TypeInv
    /\ Live
    /\ Bounded
    /\ Answered

-----------------------------------------------------------------------------
LEMMA ParamsFacts ==
    /\ None \in Params /\ \A n \in Int : <<n>> \in Params /\ <<n>>[1] = n /\ <<n>> # None
    /\ \A p \in Params : p # None => p[1] \in Int
<1>1. ASSUME NEW n \in Int
      PROVE  <<n>> \in Params /\ <<n>>[1] = n /\ <<n>> # None
    <2>1. <<n>> \in [1..1 -> Int]
        OBVIOUS
    <2> QED
        BY <2>1 DEF Params, None
<1>2. \A p \in Params : p # None => p[1] \in Int
    BY DEF Params, None
<1> QED
    BY <1>1, <1>2 DEF Params

LEMMA RowsFinite ==
    IsFiniteSet(Rows) /\ \A R \in SUBSET Rows : IsFiniteSet(R) /\ Cardinality(R) \in Nat
<1>1. IsFiniteSet(0..MaxTime) /\ IsFiniteSet(Pods)
    BY PodsAssumption, TimeAssumption, FS_Interval
<1>2. IsFiniteSet((0..MaxTime) \X Pods)
    BY <1>1, FS_Product
<1> DEFINE f == [q \in (0..MaxTime) \X Pods |-> [at |-> q[1], pod |-> q[2]]]
<1>3. f \in Surjection((0..MaxTime) \X Pods, Rows)
    <2>1. ASSUME NEW r \in Rows
          PROVE  \E q \in (0..MaxTime) \X Pods : f[q] = r
        <3>1. <<r.at, r.pod>> \in (0..MaxTime) \X Pods /\ f[<<r.at, r.pod>>] = r
            BY DEF Rows
        <3> QED
            BY <3>1
    <2> QED
        BY <2>1 DEF Surjection, Rows
<1>4. IsFiniteSet(Rows)
    BY <1>2, <1>3, FS_Surjection
<1> QED
    BY <1>4, FS_Subset, FS_CardinalityType

LEMMA NewestRowsSubset ==
    ASSUME NEW R, NEW P \in NewestRows(R)
    PROVE  P \subseteq R
BY DEF NewestRows

\* The current pod is one of the items, one that fits, or there is none.
LEMMA FirstOfType ==
    ASSUME NEW S \in SUBSET Pods, NEW pod
    PROVE  FirstOf(S, pod) \in S \cup {None}
<1>1. S \in SUBSET Names /\ IsFiniteSet(S)
    BY PodsAssumption, FS_Subset DEF Names
<1> QED
    BY <1>1, FirstOfFits DEF IsFirst, Fitting

LEMMA DetailsInit ==
    ASSUME Init
    PROVE  DetailsInv
<1>1. 0 \in 0..MaxTime /\ None \in Names /\ None \in Params
    BY TimeAssumption, ParamsFacts DEF Names, None
<1>2. FirstOf({}, None) = None
    BY DEF FirstOf, Fitting
<1>3. TypeOK
    BY <1>1 DEF Init, TypeOK, NothingAsked
<1>4. asked \in [pod : Names, dates : [period : Params, start : Params, end : Params],
                 limit : Params]
    BY <1>1 DEF Init, NothingAsked
<1>5. bounds \in [start : Params, end : Params]
    BY <1>1 DEF Init, NoBounds
<1>6. Live
    BY <1>2 DEF Init, Live, NothingAsked
<1>7. Bounded /\ Answered
    BY DEF Init, Bounded, Answered
<1> QED
    BY <1>3, <1>4, <1>5, <1>6, <1>7 DEF DetailsInv, TypeInv

\* What the parameters name is a pair of bounds.
LEMMA ParsedDates ==
    ASSUME TypeInv
    PROVE  /\ ParseDateFilters(asked.dates) \in [start : Params, end : Params]
           /\ now \in Nat
           /\ LET b == ParseDateFilters(asked.dates)
              IN  IF asked.dates.period # None
                  THEN b = [start |-> <<now - asked.dates.period[1]>>, end |-> <<now>>]
                  ELSE b.start = asked.dates.start /\ (b.start # None \/ b.end = asked.dates.end)
<1> DEFINE d == asked.dates
<1>1. d \in [period : Params, start : Params, end : Params] /\ now \in Nat
    BY TimeAssumption DEF TypeInv, TypeOK
<1>2. <<now>> \in Params /\ <<now>> # None
    BY <1>1, ParamsFacts
<1>3. CASE d.period # None
    <2>1. now - d.period[1] \in Int
        BY <1>1, <1>3, ParamsFacts
    <2>2. <<now - d.period[1]>> \in Params
        BY <2>1, ParamsFacts
    <2> QED
        BY <1>1, <1>2, <1>3, <2>2 DEF ParseDateFilters
<1>4. CASE d.period = None
    BY <1>1, <1>2, <1>4 DEF ParseDateFilters
<1> QED
    BY <1>3, <1>4

LEMMA TypeStep ==
    ASSUME TypeInv, Answered, [Next]_vars
    PROVE  TypeInv'
<1> USE DEF TypeInv, TypeOK, request
<1>1. now \in 0..MaxTime /\ MaxTime \in Nat
    BY TimeAssumption
<1>2. CASE Tick
    <2>1. now' \in 0..MaxTime
        BY <1>1, <1>2 DEF Tick
    <2> QED
        BY <1>2, <2>1 DEF Tick, Rows
<1>3. CASE Save
    <2>1. PICK t \in 0..now, S \in SUBSET Pods : history' = history \cup {[at |-> t, pod |-> p] : p \in S}
        BY <1>3 DEF Save
    <2>2. \A p \in S : [at |-> t, pod |-> p] \in Rows
        BY <1>1, <2>1 DEF Rows
    <2>3. history' \subseteq Rows /\ points \subseteq history'
        BY <2>1, <2>2
    <2> QED
        BY <1>3, <2>3 DEF Save, Rows
<1>4. CASE Erase
    BY <1>4 DEF Erase, Pending, Answered
<1>5. CASE Ask
    <2>1. PICK p \in AskedPods, d \in AskedDates, l \in AskedLimits :
              asked' = [pod |-> p, dates |-> d, limit |-> l]
        BY <1>5 DEF Ask
    <2>2. p \in Names /\ d \in [period : Params, start : Params, end : Params] /\ l \in Params
        BY AskedAssumption DEF Names
    <2>3. NoBounds \in [start : Params, end : Params]
        BY ParamsFacts DEF NoBounds
    <2> QED
        BY <1>5, <2>1, <2>2, <2>3 DEF Ask, Rows
<1>6. CASE CalculationFails
    BY <1>6 DEF CalculationFails, Rows
<1>7. CASE Calculates
    <2>1. items' \in SUBSET Pods /\ current' = FirstOf(items', asked.pod)
        BY <1>7 DEF Calculates
    <2>2. current' \in items' \cup {None}
        BY <2>1, FirstOfType
    <2> QED
        BY <1>7, <2>1, <2>2 DEF Calculates, Rows
<1>8. CASE ParsesDates
    <2>1. bounds' \in [start : Params, end : Params]
        BY <1>8, ParsedDates DEF ParsesDates
    <2> QED
        BY <1>8, <2>1 DEF ParsesDates, Rows
<1>9. CASE ReadsHistory
    <2>1. points' \subseteq history
        BY <1>9, NewestRowsSubset DEF ReadsHistory
    <2> QED
        BY <1>9, <2>1 DEF ReadsHistory, Rows
<1>10. CASE ReadFails
    BY <1>10 DEF ReadFails, Rows
<1>11. CASE UNCHANGED vars
    BY <1>11 DEF vars, Rows
<1> QED
    BY <1>2, <1>3, <1>4, <1>5, <1>6, <1>7, <1>8, <1>9, <1>10, <1>11 DEF Next

LEMMA LiveStep ==
    ASSUME Live, [Next]_vars
    PROVE  Live'
<1>1. CASE Ask
    <2>1. FirstOf({}, asked'.pod) = None
        BY DEF FirstOf, Fitting
    <2> QED
        BY <1>1, <2>1 DEF Ask, Live
<1>2. CASE Calculates
    BY <1>2 DEF Calculates, Live
<1>3. CASE UNCHANGED <<asked, items, current>>
    BY <1>3 DEF Live
<1> QED
    BY <1>1, <1>2, <1>3 DEF Next, vars, request, Tick, Save, Erase, CalculationFails, ParsesDates,
        ReadsHistory, ReadFails

LEMMA BoundedStep ==
    ASSUME TypeInv, Bounded, [Next]_vars
    PROVE  Bounded'
<1>1. CASE Ask
    BY <1>1 DEF Ask, Bounded
<1>2. CASE ParsesDates
    <2>1. CASE Malformed(asked.dates)
        BY <1>2, <2>1 DEF ParsesDates, Bounded
    <2>2. CASE ~ Malformed(asked.dates)
        <3>1. bounds' = ParseDateFilters(asked.dates) /\ asked' = asked
            BY <1>2, <2>2 DEF ParsesDates
        <3>2. pc' = "history"
            BY <1>2, <2>2 DEF ParsesDates
        <3>3. CASE asked.dates.period # None
            <4>1. now \in Nat /\ PeriodEnding(now)'
                  BY <1>2, <3>1, <3>3, ParsedDates DEF PeriodEnding, ParsesDates
            <4> QED
                BY <1>2, <3>1, <3>2, <3>3, <4>1 DEF Bounded, PeriodEnding, ParsesDates
        <3>4. CASE asked.dates.period = None
            BY <3>1, <3>2, <3>4, ParsedDates DEF Bounded
        <3> QED
            BY <3>3, <3>4
    <2> QED
        BY <2>1, <2>2
<1>3. CASE UNCHANGED <<asked, bounds>> /\ pc' = pc
    BY <1>3 DEF Bounded, PeriodEnding
<1>4. CASE UNCHANGED <<asked, bounds>> /\ pc = "calculate" /\ pc' = "dates"
    BY <1>4 DEF Bounded
<1>5. CASE UNCHANGED <<asked, bounds>> /\ pc = "history" /\ pc' \in {"answered", "failed"}
    BY <1>5 DEF Bounded, PeriodEnding
<1> QED
    BY <1>1, <1>2, <1>3, <1>4, <1>5
    DEF Next, vars, request, Tick, Save, Erase, CalculationFails, Calculates, ReadsHistory, ReadFails

LEMMA AnsweredStep ==
    ASSUME Answered, [Next]_vars
    PROVE  Answered'
<1>1. CASE ReadsHistory
    <2>1. points' \in NewestRows(Selected) /\ UNCHANGED <<history, asked, bounds>>
        BY <1>1 DEF ReadsHistory, Selected
    <2>2. NewestRows(Selected)' = NewestRows(Selected)
        BY <2>1 DEF NewestRows, Selected, Limit, LimitIgnoringDates, Dated, InBounds
    <2> QED
        BY <1>1, <2>1, <2>2 DEF ReadsHistory, Answered
<1>2. CASE UNCHANGED vars
    <2>1. NewestRows(Selected)' = NewestRows(Selected)
        BY <1>2 DEF NewestRows, Selected, Limit, LimitIgnoringDates, Dated, InBounds, vars, request
    <2> QED
        BY <1>2, <2>1 DEF vars, request, Answered
<1>3. CASE pc' # "answered" /\ points' = {}
    BY <1>3 DEF Answered
<1>4. CASE pc # "answered" /\ pc' # "answered" /\ points' = points
    BY <1>4 DEF Answered
<1> QED
    BY <1>1, <1>2, <1>3, <1>4
    DEF Next, request, Pending, Tick, Save, Erase, Ask, CalculationFails, Calculates, ParsesDates, ReadFails

LEMMA DetailsStep ==
    ASSUME DetailsInv, [Next]_vars
    PROVE  DetailsInv'
BY TypeStep, LiveStep, BoundedStep, AnsweredStep DEF DetailsInv

(***************************************************************************)
(* The details keep their types, for all names and parameters (TypeOK).    *)
(***************************************************************************)
THEOREM TypeCorrect == Spec => []TypeOK
<1>1. DetailsInv => TypeOK
    BY DEF DetailsInv, TypeInv
<1> QED
    BY <1>1, DetailsInit, DetailsStep, PTL DEF Spec
-----------------------------------------------------------------------------
(***************************************************************************)
(* A request that spells a pod out is answered with its values, and what   *)
(* the queries select the second filter accepts (ExactPodFirst).           *)
(***************************************************************************)
LEMMA ExactFirst ==
    ASSUME DetailsInv
    PROVE  ExactPodFirst
<1>1. /\ items \in SUBSET Pods /\ items \in SUBSET Names /\ IsFiniteSet(items)
      /\ asked.pod \in Names
    BY PodsAssumption, FS_Subset DEF DetailsInv, TypeInv, TypeOK, Names
<1>2. current = FirstOf(items, asked.pod) /\ \A p \in items : LiveSelects(p, asked.pod)
    BY DEF DetailsInv, Live
<1>3. Fitting(items, asked.pod) # {} => IsFirst(current, Fitting(items, asked.pod))
    BY <1>1, <1>2, FirstOfFits
<1>4. ASSUME asked.pod \in items
      PROVE  current = asked.pod
    <2> DEFINE p == asked.pod
    <2>1. BeforeWildcard(p) = p
        BY <1>1, <1>4, PodsAssumption DEF BeforeWildcard
    <2>2. PodPrefixMatch(p, p)
        BY <1>1, <2>1, PrefixByPlaces DEF PodPrefixMatch, Names
    <2>3. p \in Fitting(items, p)
        BY <1>4, <2>2 DEF Fitting
    <2>4. /\ current \in items /\ PodPrefixMatch(current, p)
          /\ current = p \/ Precedes(current, p)
        BY <1>3, <2>3 DEF IsFirst, Fitting
    <2>5. IsPrefix(p, current)
        BY <2>1, <2>4 DEF PodPrefixMatch
    <2> QED
        BY <1>1, <2>4, <2>5, NotBeforeItsPrefix
<1>5. ASSUME items # {}
      PROVE  current # None
    <2>1. PICK p \in items : TRUE
        BY <1>5
    <2>2. p \in Fitting(items, asked.pod)
        BY <1>1, <1>2, SelectedFits DEF Fitting
    <2>3. current \in items
        BY <1>3, <2>2 DEF IsFirst, Fitting
    <2> QED
        BY <1>1, <2>3, PodsAssumption
<1> QED
    BY <1>4, <1>5 DEF ExactPodFirst

(***************************************************************************)
(* A pod that is spelled out is shown itself and not one that has its name *)
(* as a prefix (ExactPodFirst).                                            *)
(***************************************************************************)
THEOREM ExactPodShown == Spec => []ExactPodFirst
<1> QED
    BY ExactFirst, DetailsInit, DetailsStep, PTL DEF Spec
-----------------------------------------------------------------------------
LEMMA LimitFacts ==
    ASSUME TypeInv
    PROVE  /\ LimitIgnoringDates \in 1..MaxLimit /\ MaxLimit \in Nat
           /\ asked.limit = None => LimitIgnoringDates = DefaultLimit
           /\ IF Dated /\ asked.limit = None THEN Limit = NoLimit
              ELSE Limit = LimitIgnoringDates /\ Limit # NoLimit
<1>1. asked.limit \in Params
    BY DEF TypeInv
<1>2. asked.limit # None => asked.limit[1] \in Int
    BY <1>1, ParamsFacts
<1>3. LimitIgnoringDates \in 1..MaxLimit /\ MaxLimit \in Nat
    BY <1>2, LimitsAssumption DEF LimitIgnoringDates, Smaller
<1> QED
    BY <1>3 DEF Limit, NoLimit, LimitIgnoringDates

\* The points are some of the rows that the statement selects; if not all, then as many as the
\* limit, and newer than the others.
LEMMA NewestPoints ==
    ASSUME DetailsInv, pc = "answered"
    PROVE  /\ points \subseteq Selected
           /\ IsFiniteSet(points) /\ Cardinality(points) \in Nat
           /\ Limit # NoLimit => Cardinality(points) <= Limit
           /\ \A r \in Selected \ points : CutOff(r)
<1>1. points \in NewestRows(Selected) /\ Selected \in SUBSET Rows
    BY DEF DetailsInv, Answered, TypeInv, TypeOK, Selected
<1>2. points \subseteq Selected
    BY <1>1, NewestRowsSubset
<1>3. IsFiniteSet(Selected) /\ IsFiniteSet(points) /\ Cardinality(points) \in Nat
      /\ Cardinality(Selected) \in Nat
    BY <1>1, <1>2, RowsFinite
<1>4. Limit \in Nat
    BY LimitFacts DEF DetailsInv, NoLimit
<1>5. CASE Limit = NoLimit
    BY <1>1, <1>2, <1>3, <1>5 DEF NewestRows
<1>6. CASE Limit # NoLimit
    <2>1. /\ Cardinality(points) = Smaller(Limit, Cardinality(Selected))
          /\ \A q \in points, r \in Selected \ points : q.at >= r.at
        BY <1>1, <1>6 DEF NewestRows
    <2>2. ASSUME NEW r \in Selected \ points
          PROVE  CutOff(r)
        <3>1. Cardinality(points) # Cardinality(Selected)
            BY <1>2, <1>3, FS_Subset
        <3>2. Cardinality(points) = Limit
            BY <1>3, <1>4, <2>1, <3>1 DEF Smaller
        <3>3. \A q \in points : q.at \in Int /\ r.at \in Int
            BY <1>1, <1>2 DEF Rows
        <3> QED
            BY <1>6, <2>1, <3>2, <3>3 DEF CutOff
    <2>3. Cardinality(points) <= Limit
        BY <1>3, <1>4, <2>1 DEF Smaller
    <2> QED
        BY <1>2, <1>3, <2>2, <2>3
<1> QED
    BY <1>5, <1>6

(***************************************************************************)
(* The history has every row of the pod whose values are shown, up to the  *)
(* limit, because LIKE selects what the queries select; and without an     *)
(* underscore no row of a pod that they would not select (PartsAgree).     *)
(***************************************************************************)
LEMMA Agreement ==
    ASSUME DetailsInv
    PROVE  PartsAgree
<1>1. SUFFICES ASSUME pc = "answered"
               PROVE  /\ \A r \in history \ points : r.pod = current /\ InBounds(r) => CutOff(r)
                      /\ Underscore \notin Range(asked.pod) =>
                            \A r \in points : LiveSelects(r.pod, asked.pod)
    BY DEF PartsAgree
<1>2. history \subseteq Rows /\ current \in items \cup {None} /\ asked.pod \in Names
    BY DEF DetailsInv, TypeInv, TypeOK
<1>3. ASSUME NEW r \in history \ points, r.pod = current, InBounds(r)
      PROVE  CutOff(r)
    <2>1. current \in items
        BY <1>2, <1>3, PodsAssumption DEF Rows
    <2>2. LikeSelects(current, asked.pod)
        BY <2>1, LikeSelectsMore DEF DetailsInv, Live
    <2> QED
        BY <1>1, <1>3, <2>2, NewestPoints DEF Selected
<1>4. ASSUME Underscore \notin Range(asked.pod), NEW r \in points
      PROVE  LiveSelects(r.pod, asked.pod)
    <2>1. LikeSelects(r.pod, asked.pod)
        BY <1>1, NewestPoints DEF Selected
    <2> QED
        BY <1>2, <1>4, <2>1, LikeSelectsNoMore
<1> QED
    BY <1>3, <1>4

(***************************************************************************)
(* The current values and the history of an answer are about the same      *)
(* workload (PartsAgree).                                                  *)
(***************************************************************************)
THEOREM PartsAlwaysAgree == Spec => []PartsAgree
<1> QED
    BY Agreement, DetailsInit, DetailsStep, PTL DEF Spec
-----------------------------------------------------------------------------
(***************************************************************************)
(* Who names dates and no limit sees all, everyone else the newest rows up *)
(* to the limit, and a period is as long as it says (NewestRowsShown).     *)
(***************************************************************************)
LEMMA Newest ==
    ASSUME DetailsInv
    PROVE  NewestRowsShown
<1>1. SUFFICES ASSUME pc = "answered"
               PROVE  NewestRowsShown
    BY DEF NewestRowsShown
<1>2. /\ history \subseteq Rows /\ points \subseteq history /\ TypeInv
      /\ asked \in [pod : Names, dates : [period : Params, start : Params, end : Params],
                    limit : Params]
    BY DEF DetailsInv, TypeInv, TypeOK
<1>3. ASSUME NEW r \in history \ points, LikeSelects(r.pod, asked.pod), InBounds(r)
      PROVE  CutOff(r) /\ ~ (Dated /\ asked.limit = None)
    <2>1. CutOff(r)
        BY <1>1, <1>3, NewestPoints DEF Selected
    <2> QED
        BY <1>2, <2>1, LimitFacts DEF CutOff
<1>4. ASSUME Cardinality(points) > MaxLimit
      PROVE  Dated /\ asked.limit = None
    BY <1>1, <1>2, <1>4, NewestPoints, LimitFacts
<1>5. ASSUME asked = [NothingAsked EXCEPT !.pod = asked.pod]
      PROVE  Cardinality(points) <= DefaultLimit
    <2>1. asked.dates = [period |-> None, start |-> None, end |-> None] /\ asked.limit = None
        BY <1>5 DEF NothingAsked
    <2>2. ~ Dated
        BY <1>1, <2>1 DEF DetailsInv, Bounded, Dated
    <2> QED
        BY <1>1, <1>2, <2>1, <2>2, NewestPoints, LimitFacts
<1>6. ASSUME asked.dates.period # None, NEW r \in points, NEW q \in points
      PROVE  r.at - q.at <= asked.dates.period[1]
    <2>1. PICK n \in Nat : PeriodEnding(n)
        BY <1>1, <1>6 DEF DetailsInv, Bounded
    <2>2. asked.dates.period[1] \in Int
        BY <1>2, <1>6, ParamsFacts
    <2>3. /\ bounds.start # None /\ bounds.start[1] = n - asked.dates.period[1]
          /\ bounds.end # None /\ bounds.end[1] = n
        BY <2>1, <2>2, ParamsFacts DEF PeriodEnding
    <2>4. InBounds(r) /\ InBounds(q)
        BY <1>1, NewestPoints DEF Selected
    <2>5. r.at \in Int /\ q.at \in Int
        BY <1>2 DEF Rows
    <2> QED
        BY <2>2, <2>3, <2>4, <2>5 DEF InBounds
<1> QED
    BY <1>3, <1>4, <1>5, <1>6 DEF NewestRowsShown

(***************************************************************************)
(* The history is the whole of the period that was named, or else the      *)
(* newest rows up to the limit (NewestRowsShown).                          *)
(***************************************************************************)
THEOREM NewestAlwaysShown == Spec => []NewestRowsShown
<1> QED
    BY Newest, DetailsInit, DetailsStep, PTL DEF Spec
=============================================================================
