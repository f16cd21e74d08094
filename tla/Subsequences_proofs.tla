------------------------- MODULE Subsequences_proofs -------------------------
(***************************************************************************)
(* What At returns, for every sequence and every set of its places.  The   *)
(* induction is on the length, from the least natural number that would be *)
(* a counterexample: the induction theorems of the library take an         *)
(* operator, which the provers cannot instantiate.                         *)
(***************************************************************************)
EXTENDS Subsequences, FiniteSetTheorems, WellFoundedInduction, TLAPS

\* Every non-empty set of natural numbers has a least one.
LEMMA LeastNatural ==
  ASSUME NEW T \in SUBSET Nat, T # {}
  PROVE  \E n \in T : \A m \in T : n <= m
  <1> DEFINE R == OpToRel(<, Nat)
  <1>1. IsWellFoundedOn(R, Nat)
    BY NatLessThanWellFounded
  <1>2. \A x, y \in Nat : x < y => <<x, y>> \in R
    BY DEF OpToRel
  <1> HIDE DEF R
  <1>3. PICK n \in T : \A m \in T : ~(<<m, n>> \in R)
    BY <1>1, WFMin
  <1>4. \A m \in T : ~(m < n)
    BY <1>2, <1>3
  <1>5. \A m \in T : n <= m
    BY <1>4
  <1> QED
    BY <1>5

\* Every non-empty set of places of a sequence has a first one.
LEMMA FirstPlace ==
  ASSUME NEW n \in Nat, NEW T \in SUBSET (1..n), T # {}
  PROVE  \E i \in T : \A j \in 1..(i - 1) : j \notin T
  <1>1. T \in SUBSET Nat
    OBVIOUS
  <1>2. PICK i \in T : \A j \in T : i <= j
    BY <1>1, LeastNatural
  <1>3. \A j \in 1..(i - 1) : ~(i <= j)
    BY <1>1
  <1> QED
    BY <1>2, <1>3

\* Every non-empty set of places of a sequence has a last one.
LEMMA LastPlace ==
  ASSUME NEW n \in Nat, NEW T \in SUBSET (1..n), T # {}
  PROVE  \E i \in T : \A j \in T : j <= i
  <1> DEFINE D == {n - i : i \in T}
  <1>1. D \in SUBSET Nat /\ D # {}
    <2>1. \A i \in T : n - i \in Nat
      OBVIOUS
    <2> QED
      BY <2>1
  <1>2. PICK d \in D : \A e \in D : d <= e
    BY <1>1, LeastNatural
  <1>3. PICK i \in T : d = n - i
    BY <1>2
  <1>4. \A j \in T : n - i <= n - j
    BY <1>2, <1>3
  <1>5. \A j \in T : j <= i
    BY <1>4
  <1> QED
    BY <1>5

\* A set of places is finite, and so is what stands before any of them.
LEMMA PlacesFinite ==
  ASSUME NEW n \in Nat, NEW I \in SUBSET (1..n)
  PROVE  /\ IsFiniteSet(I) /\ Cardinality(I) \in Nat
         /\ \A i \in I : /\ IsFiniteSet({j \in I : j <= i})
                         /\ Rank(I, i) \in 1..Cardinality(I)
  <1>1. IsFiniteSet(1..n)
    BY FS_Interval
  <1>2. IsFiniteSet(I) /\ Cardinality(I) \in Nat
    BY <1>1, FS_Subset, FS_CardinalityType
  <1>3. ASSUME NEW i \in I
        PROVE  IsFiniteSet({j \in I : j <= i}) /\ Rank(I, i) \in 1..Cardinality(I)
    <2> DEFINE B == {j \in I : j <= i}
    <2>1. B \subseteq I /\ i \in B
      OBVIOUS
    <2> HIDE DEF B
    <2>2. IsFiniteSet(B) /\ Cardinality(B) \in Nat /\ Cardinality(B) <= Cardinality(I)
      BY <1>2, <2>1, FS_Subset, FS_CardinalityType
    <2>3. Cardinality(B) # 0
      BY <2>1, <2>2, FS_EmptySet
    <2> QED
      BY <1>2, <2>2, <2>3 DEF B, Rank
  <1> QED
    BY <1>2, <1>3

\* No two members have the same place.
LEMMA RankInjective ==
  ASSUME NEW n \in Nat, NEW I \in SUBSET (1..n), NEW i \in I, NEW k \in I,
         Rank(I, i) = Rank(I, k)
  PROVE  i = k
  <1>1. ASSUME NEW x \in I, NEW y \in I, x < y, Rank(I, x) = Rank(I, y) PROVE FALSE
    <2> DEFINE X == {j \in I : j <= x}
               Y == {j \in I : j <= y}
    <2>1. X \subseteq Y /\ y \in Y /\ y \notin X
      <3>1. \A j \in I : j \in Int
        OBVIOUS
      <3>2. y <= y /\ ~(y <= x) /\ \A j \in I : j <= x => j <= y
        BY <1>1, <3>1
      <3> QED
        BY <3>2
    <2>2. IsFiniteSet(Y) /\ Cardinality(Y) = Cardinality(X)
      BY <1>1, PlacesFinite DEF Rank
    <2> HIDE DEF X, Y
    <2>3. X = Y
      BY <2>1, <2>2, FS_Subset
    <2> QED
      BY <2>1, <2>3
  <1>2. i \in Int /\ k \in Int
    OBVIOUS
  <1> QED
    BY <1>1, <1>2

\* Every place up to the last is somebody's.
LEMMA RankOnto ==
  \A n \in Nat : \A I \in SUBSET (1..n) : \A k \in 1..Cardinality(I) : \E i \in I : Rank(I, i) = k
  <1> DEFINE Onto(n) == \A I \in SUBSET (1..n) :
                          \A k \in 1..Cardinality(I) : \E i \in I : Rank(I, i) = k
             Bad == {n \in Nat : ~Onto(n)}
  <1>1. Onto(0)
    <2>1. \A I \in SUBSET (1..0) : I = {}
      OBVIOUS
    <2>2. Cardinality({}) = 0 /\ 1..0 = {}
      BY FS_EmptySet
    <2> QED
      BY <2>1, <2>2
  <1>2. ASSUME NEW n \in Nat, Onto(n) PROVE Onto(n + 1)
    <2> SUFFICES ASSUME NEW I \in SUBSET (1..(n + 1)), NEW k \in 1..Cardinality(I)
                 PROVE  \E i \in I : Rank(I, i) = k
      OBVIOUS
    <2>0. n + 1 \in Nat /\ \A j \in I : j \in Int /\ 1 <= j /\ j <= n + 1
      OBVIOUS
    <2>1. CASE n + 1 \notin I
      <3>1. I \in SUBSET (1..n)
        <4>1. \A i \in I : i \in 1..n
          BY <2>0, <2>1
        <4> QED
          BY <4>1
      <3> QED
        BY <1>2, <3>1
    <2>2. CASE n + 1 \in I
      <3> DEFINE J == I \ {n + 1}
      <3>1. J \in SUBSET (1..n) /\ IsFiniteSet(I)
        <4>1. \A j \in J : j \in 1..n
          BY <2>0
        <4> QED
          BY <2>0, <4>1, PlacesFinite
      <3>2. Cardinality(J) = Cardinality(I) - 1 /\ Cardinality(I) \in Nat
        BY <2>2, <3>1, FS_RemoveElement, FS_CardinalityType
      <3>3. CASE k \in 1..Cardinality(J)
        <4>1. PICK i \in J : Rank(J, i) = k
          BY <1>2, <3>1, <3>3
        <4>2. {j \in I : j <= i} = {j \in J : j <= i}
          BY <3>1
        <4> QED
          BY <4>1, <4>2 DEF Rank
      <3>4. CASE k = Cardinality(I)
        <4>1. {j \in I : j <= n + 1} = I
          BY <2>0
        <4> QED
          BY <2>2, <3>4, <4>1 DEF Rank
      <3> HIDE DEF J
      <3> QED
        BY <3>2, <3>3, <3>4
    <2> QED
      BY <2>1, <2>2
  <1> HIDE DEF Onto
  <1>3. ASSUME Bad # {} PROVE FALSE
    <2>1. PICK n \in Bad : \A m \in Bad : n <= m
      BY <1>3, LeastNatural
    <2>2. n \in Nat /\ ~Onto(n) /\ n # 0
      BY <1>1, <2>1
    <2>3. n - 1 \in Nat /\ n - 1 \notin Bad
      BY <2>1, <2>2
    <2>4. Onto(n - 1) /\ (n - 1) + 1 = n
      BY <2>2, <2>3
    <2> QED
      BY <1>2, <2>2, <2>3, <2>4
  <1>4. \A n \in Nat : Onto(n)
    BY <1>3
  <1> QED
    BY <1>4 DEF Onto

\* The members at the places I, each of them and no other.
LEMMA AtProperties ==
  ASSUME NEW S, NEW s \in Seq(S), NEW I \in SUBSET (DOMAIN s)
  PROVE  /\ At(s, I) \in Seq(S)
         /\ \A k \in DOMAIN At(s, I) : \E i \in I : At(s, I)[k] = s[i]
         /\ \A i \in I : \E k \in DOMAIN At(s, I) : At(s, I)[k] = s[i]
  <1>1. Len(s) \in Nat /\ I \in SUBSET (1..Len(s))
    OBVIOUS
  <1>2. Cardinality(I) \in Nat /\ DOMAIN At(s, I) = 1..Cardinality(I)
    BY <1>1, PlacesFinite DEF At
  <1> DEFINE place(k) == CHOOSE i \in I : Rank(I, i) = k
  <1>3. \A k \in 1..Cardinality(I) : place(k) \in I /\ Rank(I, place(k)) = k
    BY <1>1, RankOnto
  <1>4. \A k \in 1..Cardinality(I) : At(s, I)[k] = s[place(k)]
    BY DEF At
  <1> HIDE DEF place
  <1>5. ASSUME NEW i \in I
        PROVE  Rank(I, i) \in 1..Cardinality(I) /\ place(Rank(I, i)) = i
    <2>1. Rank(I, i) \in 1..Cardinality(I)
      BY <1>1, PlacesFinite
    <2>2. place(Rank(I, i)) \in I /\ Rank(I, place(Rank(I, i))) = Rank(I, i)
      BY <1>3, <2>1
    <2> QED
      BY <1>1, <2>1, <2>2, RankInjective
  <1>6. \A i \in I : s[i] \in S
    OBVIOUS
  <1>7. At(s, I) = [k \in 1..Cardinality(I) |-> s[place(k)]]
    BY DEF At, place
  <1>8. At(s, I) \in [1..Cardinality(I) -> S]
    BY <1>3, <1>6, <1>7
  <1>9. At(s, I) \in Seq(S)
    BY <1>2, <1>8
  <1> QED
    BY <1>2, <1>3, <1>4, <1>5, <1>9
=============================================================================
