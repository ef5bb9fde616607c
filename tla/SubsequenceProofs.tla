-------------------------- MODULE SubsequenceProofs --------------------------
(***************************************************************************)
(* What the proofs about lists have in common: a nonempty set of naturals  *)
(* has a least element, a nonempty finite one a largest, and a subsequence *)
(* has each of its elements once and in order.                             *)
(***************************************************************************)
EXTENDS Subsequence, SequenceTheorems, FiniteSetTheorems, WellFoundedInduction, TLAPS

\* A nonempty set of naturals has a least element.
LEMMA LeastNatural ==
    ASSUME NEW T \in SUBSET Nat, T # {}
    PROVE  \E k \in T : \A j \in T : k <= j
  <1> DEFINE Segments == {1 .. k : k \in T}
             R == StrictSubsetOrdering(Nat)
  <1>1. Segments \subseteq FiniteSubsetsOf(Nat) /\ Segments # {}
    <2>1. ASSUME NEW k \in T
          PROVE  1 .. k \in SUBSET Nat /\ IsFiniteSet(1 .. k)
      BY FS_Interval
    <2> QED
      BY <2>1 DEF FiniteSubsetsOf
  <1>2. IsWellFoundedOn(R, FiniteSubsetsOf(Nat))
    BY FS_StrictSubsetOrderingWellFounded
  <1> HIDE DEF R
  <1>3. PICK x \in Segments : \A y \in Segments : ~ (<<y, x>> \in R)
    BY <1>1, <1>2, WFMin
  <1>4. PICK k \in T : x = 1 .. k
    BY <1>3
  <1>5. ASSUME NEW j \in T, j < k
        PROVE  FALSE
    <2>1. k \in 1 .. k /\ k \notin 1 .. j /\ 1 .. j \subseteq 1 .. k
      BY <1>5
    <2>2. 1 .. j \in SUBSET Nat /\ 1 .. k \in SUBSET Nat
      OBVIOUS
    <2>3. <<1 .. j, 1 .. k>> \in R
      BY <2>1, <2>2 DEF R, StrictSubsetOrdering
    <2> QED
      BY <1>3, <1>4, <2>3
  <1> QED
    BY <1>5

\* A set that holds 0 and with each number below n the next one holds all up to n.
LEMMA UpTo ==
    ASSUME NEW n \in Nat, NEW T, 0 \in T, \A i \in 1 .. n : i - 1 \in T => i \in T
    PROVE  0 .. n \subseteq T
  <1> DEFINE U == (0 .. n) \ T
  <1>1. SUFFICES ASSUME U # {} PROVE FALSE
    OBVIOUS
  <1>2. PICK k \in U : \A j \in U : k <= j
    <2>1. U \in SUBSET Nat
      OBVIOUS
    <2> HIDE DEF U
    <2> QED
      BY <1>1, <2>1, LeastNatural
  <1>3. k \in 0 .. n /\ k \notin T /\ k # 0
    BY <1>2
  <1>4. k \in 1 .. n /\ k - 1 \in 0 .. n
    BY <1>3
  <1>5. k - 1 \in T
    BY <1>2, <1>4
  <1> QED
    BY <1>3, <1>4, <1>5

\* A nonempty set of naturals that has a bound has a largest element.
LEMMA LargestNatural ==
    ASSUME NEW n \in Nat, NEW T \in SUBSET (0 .. n), T # {}
    PROVE  \E k \in T : \A j \in T : k >= j
  <1> DEFINE U == {n - k : k \in T}
  <1>1. U \in SUBSET Nat /\ U # {}
    <2>1. \A k \in T : n - k \in Nat
      OBVIOUS
    <2> QED
      BY <2>1
  <1>2. PICK u \in U : \A v \in U : u <= v
    BY <1>1, LeastNatural
  <1>3. PICK k \in T : u = n - k
    BY <1>2
  <1>4. ASSUME NEW j \in T PROVE k >= j
    <2>1. n - j \in U
      OBVIOUS
    <2>2. n - k <= n - j
      BY <1>2, <1>3, <2>1
    <2>3. k \in 0 .. n /\ j \in 0 .. n
      OBVIOUS
    <2> QED
      BY <2>2, <2>3
  <1> QED
    BY <1>4

\* The place of a position is among the first so many, and later ones have later places.
LEMMA PlaceLemma ==
    ASSUME NEW S \in SUBSET Nat, IsFiniteSet(S)
    PROVE  /\ \A k \in S : Place(S, k) \in 1 .. Cardinality(S)
           /\ \A k, l \in S : k < l => Place(S, k) < Place(S, l)
  <1>1. ASSUME NEW k \in S
        PROVE  /\ IsFiniteSet({j \in S : j <= k})
               /\ Place(S, k) \in 1 .. Cardinality(S)
    <2> DEFINE T == {j \in S : j <= k}
    <2>1. T \in SUBSET S /\ k \in T
      OBVIOUS
    <2> HIDE DEF T
    <2>2. IsFiniteSet(T) /\ Cardinality(T) <= Cardinality(S)
      BY <2>1, FS_Subset
    <2>3. Cardinality(T) \in Nat /\ Cardinality(S) \in Nat /\ Cardinality(T) # 0
      BY <2>1, <2>2, FS_CardinalityType, FS_EmptySet
    <2>4. Place(S, k) = Cardinality(T)
      BY DEF Place, T
    <2> QED
      BY <2>2, <2>3, <2>4 DEF T
  <1>2. ASSUME NEW k \in S, NEW l \in S, k < l
        PROVE  Place(S, k) < Place(S, l)
    <2> DEFINE T == {j \in S : j <= k}
               U == {j \in S : j <= l}
    <2>1. k \in Nat /\ l \in Nat /\ \A j \in S : j \in Nat
      OBVIOUS
    <2>2. l \in U /\ l \notin T
      BY <1>2, <2>1
    <2>3. \A j \in S : j <= k => j <= l
      BY <1>2, <2>1
    <2>4. T \in SUBSET U /\ l \in U /\ l \notin T /\ T # U
      BY <2>2, <2>3
    <2>5. IsFiniteSet(U) /\ IsFiniteSet(T)
      BY <1>1
    <2>6. Place(S, k) = Cardinality(T) /\ Place(S, l) = Cardinality(U)
      BY DEF Place
    <2> HIDE DEF T, U
    <2>7. Cardinality(T) <= Cardinality(U) /\ Cardinality(T) # Cardinality(U)
      BY <2>4, <2>5, FS_Subset
    <2>8. Cardinality(T) \in Nat /\ Cardinality(U) \in Nat
      BY <2>5, FS_CardinalityType
    <2> QED
      BY <2>6, <2>7, <2>8
  <1> QED
    BY <1>1, <1>2

\* The n-th position is there, is unique, and later ones are further behind.
LEMMA PositionLemma ==
    ASSUME NEW S \in SUBSET Nat, IsFiniteSet(S)
    PROVE  /\ \A n \in 1 .. Cardinality(S) :
                 Position(S, n) \in S /\ Place(S, Position(S, n)) = n
           /\ \A k \in S : Position(S, Place(S, k)) = k
           /\ \A m, n \in 1 .. Cardinality(S) : m < n => Position(S, m) < Position(S, n)
  <1> DEFINE N == 1 .. Cardinality(S)
             f == [k \in S |-> Place(S, k)]
  <1>1. /\ \A k \in S : Place(S, k) \in N
        /\ \A k, l \in S : k < l => Place(S, k) < Place(S, l)
    BY PlaceLemma
  <1>2. IsFiniteSet(N) /\ Cardinality(N) = Cardinality(S) /\ N \subseteq Nat
    <2>1. Cardinality(S) \in Nat
      BY FS_CardinalityType
    <2> QED
      BY <2>1, FS_Interval
  <1> HIDE DEF N
  <1>3. \A k, l \in S : Place(S, k) = Place(S, l) => k = l
    <2> SUFFICES ASSUME NEW k \in S, NEW l \in S, Place(S, k) = Place(S, l), k # l
                 PROVE  FALSE
      OBVIOUS
    <2>1. k < l \/ l < k
      OBVIOUS
    <2>2. Place(S, k) \in Nat /\ Place(S, l) \in Nat
      BY <1>1, <1>2
    <2> QED
      BY <1>1, <2>1, <2>2
  <1>4. f \in Injection(S, N)
    BY <1>1, <1>3 DEF Injection, IsInjective
  <1>5. f \in Surjection(S, N)
    BY <1>2, <1>4, FS_Injection
  <1>6. \A n \in N : \E k \in S : Place(S, k) = n
    BY <1>5 DEF Surjection
  <1>7. \A n \in N : Position(S, n) \in S /\ Place(S, Position(S, n)) = n
    BY <1>6 DEF Position
  <1>8. \A k \in S : Position(S, Place(S, k)) = k
    BY <1>1, <1>3, <1>7
  <1>9. ASSUME NEW m \in N, NEW n \in N, m < n
        PROVE  Position(S, m) < Position(S, n)
    <2> DEFINE k == Position(S, m)
               l == Position(S, n)
    <2>1. k \in S /\ l \in S /\ Place(S, k) = m /\ Place(S, l) = n
      BY <1>7
    <2> HIDE DEF k, l
    <2>2. ~(l < k) /\ l # k /\ k \in Nat /\ l \in Nat
      BY <1>1, <1>2, <1>9, <2>1
    <2> QED
      BY <2>2 DEF k, l
  <1> QED
    BY <1>7, <1>8, <1>9 DEF N

\* What a loop appends that goes through a list without repetitions: each element
\* at a position of S, once, and no other.
LEMMA SubsequenceLemma ==
    ASSUME NEW T, NEW list \in Seq(T), NEW S \in SUBSET DOMAIN list,
           \A i, j \in DOMAIN list : list[i] = list[j] => i = j
    PROVE  /\ Subsequence(list, S) \in Seq(T)
           /\ \A n \in DOMAIN Subsequence(list, S) :
                 \E k \in S : Subsequence(list, S)[n] = list[k]
           /\ \A k \in S : \E n \in DOMAIN Subsequence(list, S) :
                 Subsequence(list, S)[n] = list[k]
           /\ \A m, n \in DOMAIN Subsequence(list, S) :
                 Subsequence(list, S)[m] = Subsequence(list, S)[n] => m = n
  <1> DEFINE sub == Subsequence(list, S)
  <1>1. /\ DOMAIN list = 1 .. Len(list) /\ Len(list) \in Nat
        /\ \A k \in DOMAIN list : list[k] \in T
    OBVIOUS
  <1>2. S \in SUBSET Nat /\ IsFiniteSet(S)
    <2>1. IsFiniteSet(1 .. Len(list))
      BY <1>1, FS_Interval
    <2> QED
      BY <1>1, <2>1, FS_Subset
  <1>3. Cardinality(S) \in Nat
    BY <1>2, FS_CardinalityType
  <1>4. /\ \A n \in 1 .. Cardinality(S) :
              Position(S, n) \in S /\ Place(S, Position(S, n)) = n
        /\ \A k \in S : Position(S, Place(S, k)) = k
    BY <1>2, PositionLemma
  <1>5. \A k \in S : Place(S, k) \in 1 .. Cardinality(S)
    BY <1>2, PlaceLemma
  <1>6. /\ DOMAIN sub = 1 .. Cardinality(S)
        /\ \A n \in 1 .. Cardinality(S) : sub[n] = list[Position(S, n)]
    BY DEF Subsequence
  <1>7. sub \in Seq(T)
    <2>1. \A n \in 1 .. Cardinality(S) : list[Position(S, n)] \in T
      BY <1>1, <1>4
    <2> QED
      BY <1>3, <2>1 DEF Subsequence
  <1> HIDE DEF sub
  <1>8. \A n \in DOMAIN sub : \E k \in S : sub[n] = list[k]
    BY <1>4, <1>6
  <1>9. \A k \in S : \E n \in DOMAIN sub : sub[n] = list[k]
    BY <1>4, <1>5, <1>6
  <1>10. ASSUME NEW m \in DOMAIN sub, NEW n \in DOMAIN sub, sub[m] = sub[n]
         PROVE  m = n
    <2>1. Position(S, m) = Position(S, n)
      BY <1>4, <1>6, <1>10
    <2> QED
      BY <1>4, <1>6, <2>1
  <1> QED
    BY <1>7, <1>8, <1>9, <1>10 DEF sub

\* M is list L, of length m, and behind it list K, of length n.
Joined(M, L, m, K, n) ==
    /\ DOMAIN M = 1 .. m + n
    /\ \A i \in 1 .. m : M[i] = L[i] /\ i \in 1 .. m + n
    /\ \A i \in 1 .. n : M[m + i] = K[i] /\ m + i \in 1 .. m + n
    /\ \A i \in 1 .. m + n : i \in 1 .. m \/ \E j \in 1 .. n : i = m + j

LEMMA ConcatLemma ==
    ASSUME NEW T, NEW L \in Seq(T), NEW K \in Seq(T)
    PROVE  L \o K \in Seq(T) /\ Joined(L \o K, L, Len(L), K, Len(K))
  <1> DEFINE m == Len(L)
             n == Len(K)
             M == L \o K
  <1>1. m \in Nat /\ n \in Nat
    OBVIOUS
  <1>2. M \in Seq(T)
    BY ConcatProperties, Zenon
  <1>3. DOMAIN M = 1 .. m + n
    <2>1. Len(M) = m + n
      BY ConcatProperties, Zenon
    <2> QED
      BY <1>2, <2>1
  <1> HIDE DEF M
  <1>4. \A i \in 1 .. m + n : M[i] = IF i <= m THEN L[i] ELSE K[i - m]
    BY ConcatProperties, Zenon DEF M
  <1> HIDE DEF m, n
  <1>5. \A i \in 1 .. m : M[i] = L[i] /\ i \in 1 .. m + n
    BY <1>1, <1>4
  <1>6. ASSUME NEW i \in 1 .. n
        PROVE  M[m + i] = K[i] /\ m + i \in 1 .. m + n
    <2>1. m + i \in 1 .. m + n /\ ~(m + i <= m) /\ (m + i) - m = i
      BY <1>1
    <2> QED
      BY <1>4, <2>1
  <1>7. ASSUME NEW i \in 1 .. m + n, i \notin 1 .. m
        PROVE  \E j \in 1 .. n : i = m + j
    <2>1. i - m \in 1 .. n /\ i = m + (i - m)
      BY <1>1, <1>7
    <2> QED
      BY <2>1
  <1> QED
    BY <1>2, <1>3, <1>5, <1>6, <1>7 DEF Joined, M, m, n
-----------------------------------------------------------------------------
\* The entries of log L at the positions D lead to `now`: each tells of a change,
\* starts where the one before has ended, and the last has ended there.
Linked(L, D, now) ==
    /\ \A i \in D : L[i].from # L[i].to
    /\ \A i, j \in D : i < j /\ (\A k \in D : ~(i < k /\ k < j)) => L[i].to = L[j].from
    /\ \A i \in D : (\A j \in D : j <= i) => L[i].to = now

\* An entry behind all others leads on.
LEMMA LinkedGrows ==
    ASSUME NEW L, NEW M, NEW D \in SUBSET Nat, NEW n \in Nat, NEW now, NEW next,
           Linked(L, D, now), \A i \in D : i < n /\ M[i] = L[i],
           M[n].from = now, M[n].to = next, now # next
    PROVE  Linked(M, D \cup {n}, next)
  <1>1. \A i \in D : i \in Nat /\ i # n
    OBVIOUS
  <1>2. \A i \in D \cup {n} : M[i].from # M[i].to
    BY DEF Linked
  <1>3. ASSUME NEW i \in D \cup {n}, NEW j \in D \cup {n}, i < j,
               \A k \in D \cup {n} : ~(i < k /\ k < j)
        PROVE  M[i].to = M[j].from
    <2>1. i \in D
      BY <1>1, <1>3
    <2>2. CASE j \in D
      BY <1>3, <2>1, <2>2 DEF Linked
    <2>3. CASE j = n
      <3>1. \A k \in D : k <= i
        BY <1>1, <1>3, <2>1, <2>3
      <3> QED
        BY <2>1, <2>3, <3>1 DEF Linked
    <2> QED
      BY <2>2, <2>3
  <1>4. ASSUME NEW i \in D \cup {n}, \A j \in D \cup {n} : j <= i
        PROVE  M[i].to = next
    BY <1>1, <1>4
  <1> QED
    BY <1>2, <1>3, <1>4 DEF Linked

\* Entries of others do not matter.
LEMMA LinkedKeeps ==
    ASSUME NEW L, NEW M, NEW D, NEW now, Linked(L, D, now), \A i \in D : M[i] = L[i]
    PROVE  Linked(M, D, now)
  BY DEF Linked
=============================================================================
