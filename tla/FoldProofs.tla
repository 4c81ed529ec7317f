------------------------------ MODULE FoldProofs ------------------------------
(***************************************************************************)
(* What the folds of the community modules compute, over any finite set: a *)
(* fold is a recursive function, of which it has to be shown that it       *)
(* exists and that the order in which it takes the elements does not       *)
(* matter.                                                                 *)
(***************************************************************************)
EXTENDS Integers, FiniteSets, FiniteSetsExt, FiniteSetTheorems, WellFoundedInduction, TLAPS

\* f gives every subset of S the sum of w over it.
Additive(f, w, S) ==
    /\ f \in [SUBSET S -> Int]
    /\ f[{}] = 0
    /\ \A T \in SUBSET S : \A x \in S \ T : f[T \cup {x}] = f[T] + w[x]

\* h is the recursive function a sum is defined by.
Recursion(h, w, S) ==
    h = [T \in SUBSET S |-> IF T = {} THEN 0
                            ELSE w[CHOOSE x \in T : TRUE] + h[T \ {CHOOSE x \in T : TRUE}]]

Total(w, S) == MapThenSumSet(LAMBDA x : w[x], S)

\* A nonempty set of naturals has a least element.
LEMMA LeastNatural ==
    ASSUME NEW A \in SUBSET Nat, A # {}
    PROVE  \E n \in A : \A k \in A : n <= k
<1>1. PICK n \in A : \A k \in A : ~(<<k, n>> \in OpToRel(<, Nat))
  BY NatLessThanWellFounded, WFMin, Zenon
<1>2. \A k \in A : ~(k < n)
  BY <1>1 DEF OpToRel
<1> QED BY <1>2

\* A set of numbers that has 0 and with every number the next.
LEMMA SetByNumbers ==
    ASSUME NEW G, 0 \in G, \A n \in G : n \in Nat => n + 1 \in G
    PROVE  Nat \subseteq G
<1> SUFFICES ASSUME Nat \ G # {} PROVE FALSE
  OBVIOUS
<1>1. PICK n \in Nat \ G : \A k \in Nat \ G : n <= k
  BY LeastNatural
<1>2. n # 0 /\ n - 1 \in Nat /\ ~(n <= n - 1) /\ (n - 1) + 1 = n
  BY <1>1
<1>3. n - 1 \in G
  BY <1>1, <1>2
<1>4. (n - 1) + 1 \in G
  BY <1>2, <1>3
<1> QED
  BY <1>1, <1>2, <1>4

\* The greatest of numbers that have a bound.
LEMMA MaxIs ==
    ASSUME NEW A \in SUBSET Nat, A # {}, NEW n \in Nat, \A k \in A : k <= n
    PROVE  Max(A) \in A /\ \A k \in A : Max(A) >= k
<1> DEFINE B == {b \in Nat : \E k \in A : b = n - k}
<1>1. \A k \in A : n - k \in Nat
  OBVIOUS
<1>a. B \in SUBSET Nat /\ B # {}
  BY <1>1
<1>2. PICK b \in B : \A k \in B : b <= k
  <2> HIDE DEF B
  <2> QED BY <1>a, LeastNatural
<1>3. PICK m \in A : b = n - m
  OBVIOUS
<1>4. ASSUME NEW k \in A PROVE m >= k
  <2>1. n - k \in B
    BY <1>1
  <2>2. n - m <= n - k
    BY <2>1, <1>2, <1>3
  <2> QED BY <2>2
<1> QED BY <1>4 DEF Max

\* The least of them.
LEMMA MinIs ==
    ASSUME NEW A \in SUBSET Nat, A # {}
    PROVE  Min(A) \in A /\ \A k \in A : Min(A) <= k
BY LeastNatural DEF Min

\* A family that holds the empty set, and with a set what is one element larger, holds S.
LEMMA SetByElements ==
    ASSUME NEW S, IsFiniteSet(S), NEW G \in SUBSET SUBSET S, {} \in G,
           \A T \in G : \A x \in S \ T : T \cup {x} \in G
    PROVE  S \in G
<1> DEFINE A == {n \in Nat : \E T \in G : Cardinality(S \ T) = n}
<1>1. A # {}
  <2>1. Cardinality(S) \in Nat /\ S \ {} = S
    BY FS_CardinalityType
  <2>2. Cardinality(S) \in A
    BY <2>1
  <2> QED BY <2>2
<1>2. PICK n \in A : \A k \in A : n <= k
  BY <1>1, LeastNatural
<1>3. PICK T \in G : Cardinality(S \ T) = n
  OBVIOUS
<1>4. CASE S \ T = {}
  BY <1>4
<1>5. CASE S \ T # {}
  <2>1. PICK x \in S \ T : TRUE
    BY <1>5
  <2>2. T \cup {x} \in G /\ S \ (T \cup {x}) = (S \ T) \ {x}
    OBVIOUS
  <2>3. IsFiniteSet(S \ T)
    BY FS_Difference
  <2>4. /\ Cardinality((S \ T) \ {x}) = Cardinality(S \ T) - 1
        /\ IsFiniteSet((S \ T) \ {x})
    <3> DEFINE D == S \ T
    <3>1. IsFiniteSet(D) /\ x \in D
      BY <2>1, <2>3
    <3> HIDE DEF D
    <3>2. IsFiniteSet(D \ {x}) /\ Cardinality(D \ {x}) = Cardinality(D) - 1
      BY <3>1, FS_RemoveElement
    <3> QED BY <3>2 DEF D
  <2>5. Cardinality((S \ T) \ {x}) \in Nat
    BY <2>4, FS_CardinalityType
  <2>6. n - 1 \in A
    BY <1>3, <2>2, <2>4, <2>5
  <2> QED BY <1>2, <2>6
<1> QED BY <1>4, <1>5

\* The sums over the subsets of a finite set exist.
LEMMA AdditiveExists ==
    ASSUME NEW S, IsFiniteSet(S), NEW w, \A x \in S : w[x] \in Int
    PROVE  \E f : Additive(f, w, S)
<1> DEFINE G == {T \in SUBSET S : \E f : Additive(f, w, T)}
<1>1. {} \in G
  <2>1. Additive([T \in SUBSET {} |-> 0], w, {})
    BY DEF Additive
  <2> QED BY <2>1
<1>2. ASSUME NEW T \in G, NEW x \in S \ T
      PROVE  T \cup {x} \in G
  <2>1. PICK f : Additive(f, w, T)
    OBVIOUS
  <2> DEFINE U == T \cup {x}
             h == [R \in SUBSET U |-> IF x \in R THEN f[R \ {x}] + w[x] ELSE f[R]]
  <2>2. h \in [SUBSET U -> Int]
    <3>1. ASSUME NEW R \in SUBSET U
          PROVE  h[R] \in Int
      <4>1. R \ {x} \in SUBSET T /\ (x \notin R => R \in SUBSET T)
        OBVIOUS
      <4> QED BY <2>1, <4>1 DEF Additive
    <3> QED BY <3>1
  <2>3. h[{}] = 0
    BY <2>1 DEF Additive
  <2>4. ASSUME NEW R \in SUBSET U, NEW y \in U \ R
        PROVE  h[R \cup {y}] = h[R] + w[y]
    <3>0. R \cup {y} \in SUBSET U
      OBVIOUS
    <3>1. CASE y = x
      <4>1. (R \cup {y}) \ {x} = R /\ x \notin R /\ x \in R \cup {y}
        BY <3>1
      <4> QED BY <3>0, <3>1, <4>1
    <3>2. CASE y # x /\ x \in R
      <4>1. (R \cup {y}) \ {x} = (R \ {x}) \cup {y} /\ R \ {x} \in SUBSET T /\ y \in T \ (R \ {x})
        BY <3>2
      <4>2. f[(R \ {x}) \cup {y}] = f[R \ {x}] + w[y] /\ f[R \ {x}] \in Int
        BY <2>1, <4>1 DEF Additive
      <4>3. h[R \cup {y}] = f[(R \ {x}) \cup {y}] + w[x] /\ h[R] = f[R \ {x}] + w[x]
        BY <3>0, <3>2, <4>1
      <4>4. w[x] \in Int /\ w[y] \in Int
        OBVIOUS
      <4> QED BY <4>2, <4>3, <4>4
    <3>3. CASE y # x /\ x \notin R
      <4>1. R \in SUBSET T /\ y \in T \ R /\ x \notin R \cup {y}
        BY <3>3
      <4>2. f[R \cup {y}] = f[R] + w[y]
        BY <2>1, <4>1 DEF Additive
      <4> QED BY <3>0, <3>3, <4>1, <4>2
    <3> QED BY <3>1, <3>2, <3>3
  <2> HIDE DEF h
  <2>5. Additive(h, w, U)
    BY <2>2, <2>3, <2>4 DEF Additive
  <2> QED BY <2>5
<1> HIDE DEF G
<1>3. G \in SUBSET SUBSET S
  BY DEF G
<1>4. S \in G
  BY <1>1, <1>2, <1>3, SetByElements
<1> QED BY <1>4 DEF G

\* The recursive function of the fold computes them.
LEMMA RecursionIsAdditive ==
    ASSUME NEW S, IsFiniteSet(S), NEW w, NEW f, Additive(f, w, S), \A x \in S : w[x] \in Int,
           NEW h, Recursion(h, w, S)
    PROVE  h[S] = f[S]
<1> DEFINE A == {n \in Nat : \E T \in SUBSET S : Cardinality(T) = n /\ h[T] # f[T]}
<1>1. ASSUME NEW T \in SUBSET S
      PROVE  IsFiniteSet(T) /\ Cardinality(T) \in Nat
  BY FS_Subset, FS_CardinalityType
<1>2. SUFFICES ASSUME A # {} PROVE FALSE
  <2>1. S \in SUBSET S
    OBVIOUS
  <2> QED BY <1>1, <2>1
<1>3. PICK n \in A : \A k \in A : n <= k
  BY <1>2, LeastNatural
<1>4. PICK T \in SUBSET S : Cardinality(T) = n /\ h[T] # f[T]
  OBVIOUS
<1>5. T # {}
  BY <1>4 DEF Additive, Recursion
<1> DEFINE x == CHOOSE y \in T : TRUE
<1>6. x \in T
  BY <1>5
<1>7. h[T] = w[x] + h[T \ {x}]
  BY <1>5 DEF Recursion
<1> HIDE DEF x
<1>8. T \ {x} \in SUBSET S /\ x \in S \ (T \ {x}) /\ (T \ {x}) \cup {x} = T
  BY <1>6
<1>9. Cardinality(T \ {x}) = n - 1 /\ Cardinality(T \ {x}) \in Nat
  <2>1. IsFiniteSet(T) /\ IsFiniteSet(T \ {x}) /\ Cardinality(T \ {x}) \in Nat
    BY <1>1, <1>8
  <2> QED BY <1>4, <1>6, <2>1, FS_RemoveElement
<1>10. h[T \ {x}] = f[T \ {x}]
  <2>1. h[T \ {x}] # f[T \ {x}] => n - 1 \in A
    BY <1>8, <1>9
  <2>2. n \in Nat
    OBVIOUS
  <2> HIDE DEF A
  <2> QED BY <1>3, <2>1, <2>2
<1>11. f[T] = f[T \ {x}] + w[x] /\ f[T \ {x}] \in Int /\ w[x] \in Int
  BY <1>8 DEF Additive
<1> QED BY <1>4, <1>7, <1>10, <1>11

\* So a sum is given by any additive function.
LEMMA TotalIs ==
    ASSUME NEW S, IsFiniteSet(S), NEW w, NEW f, Additive(f, w, S), \A x \in S : w[x] \in Int
    PROVE  Total(w, S) = f[S]
<1> DEFINE e(h) == [T \in SUBSET S |-> IF T = {} THEN 0
                                       ELSE w[CHOOSE x \in T : TRUE]
                                                    + h[T \ {CHOOSE x \in T : TRUE}]]
<1>1. f = e(f)
  <2>1. ASSUME NEW T \in SUBSET S, T # {}
        PROVE  f[T] = w[CHOOSE x \in T : TRUE] + f[T \ {CHOOSE x \in T : TRUE}]
    <3> DEFINE x == CHOOSE y \in T : TRUE
    <3>1. x \in T
      BY <2>1
    <3> HIDE DEF x
    <3>2. T \ {x} \in SUBSET S /\ x \in S \ (T \ {x}) /\ (T \ {x}) \cup {x} = T
      BY <3>1
    <3>3. f[T] = f[T \ {x}] + w[x] /\ f[T \ {x}] \in Int /\ w[x] \in Int
      BY <3>2 DEF Additive
    <3>4. f[T] = w[x] + f[T \ {x}]
      BY <3>3
    <3> QED BY <3>4 DEF x
  <2>2. f[{}] = 0 /\ DOMAIN f = SUBSET S /\ f = [T \in SUBSET S |-> f[T]]
    BY DEF Additive
  <2> QED BY <2>1, <2>2
<1> DEFINE h == CHOOSE k : k = e(k)
<1>2. h = e(h)
  BY <1>1
<1>3. Total(w, S) = h[S]
  BY DEF Total, MapThenSumSet, MapThenFoldSet
<1> HIDE DEF h
<1>4. Recursion(h, w, S)
  BY <1>2 DEF Recursion
<1>5. h[S] = f[S]
  BY <1>4, RecursionIsAdditive
<1> QED BY <1>3, <1>5

\* What a sum is over the empty set, and how it grows.
LEMMA TotalAdds ==
    ASSUME NEW S, IsFiniteSet(S), NEW w, \A x \in S : w[x] \in Int
    PROVE  /\ Total(w, S) \in Int
           /\ S = {} => Total(w, S) = 0
           /\ \A x \in S : Total(w, S) = Total(w, S \ {x}) + w[x]
<1>1. PICK f : Additive(f, w, S)
  BY AdditiveExists
<1>2. Total(w, S) = f[S]
  BY <1>1, TotalIs
<1>3. ASSUME NEW x \in S
      PROVE  Total(w, S) = Total(w, S \ {x}) + w[x]
  <2> DEFINE R == S \ {x}
             k == [T \in SUBSET R |-> f[T]]
  <2>1. Additive(k, w, R)
    <3>1. \A T \in SUBSET R : T \in SUBSET S /\ k[T] = f[T]
      OBVIOUS
    <3>2. \A T \in SUBSET R : \A y \in R \ T : T \cup {y} \in SUBSET R /\ y \in S \ T
      OBVIOUS
    <3>3. k \in [SUBSET R -> Int] /\ k[{}] = 0
      BY <1>1, <3>1 DEF Additive
    <3> QED BY <1>1, <3>1, <3>2, <3>3 DEF Additive
  <2>2. IsFiniteSet(R) /\ \A y \in R : w[y] \in Int
    BY FS_RemoveElement
  <2>3. k[R] = f[R]
    OBVIOUS
  <2> HIDE DEF k
  <2>4. Total(w, R) = f[R]
    BY <2>1, <2>2, <2>3, TotalIs
  <2>5. R \in SUBSET S /\ x \in S \ R /\ R \cup {x} = S
    OBVIOUS
  <2>6. f[S] = f[R] + w[x]
    BY <1>1, <2>5 DEF Additive
  <2> QED BY <1>2, <2>4, <2>6
<1>4. f[S] \in Int /\ (S = {} => f[S] = 0)
  BY <1>1 DEF Additive
<1> QED BY <1>2, <1>3, <1>4

\* A sum depends on the summands alone.
LEMMA TotalSame ==
    ASSUME NEW S, IsFiniteSet(S), NEW w, NEW v, \A x \in S : w[x] \in Int /\ v[x] = w[x]
    PROVE  Total(v, S) = Total(w, S)
<1>1. PICK f : Additive(f, w, S)
  BY AdditiveExists
<1>2. Additive(f, v, S)
  BY <1>1 DEF Additive
<1> QED BY <1>1, <1>2, TotalIs

\* Sums are added summand by summand.
LEMMA TotalPlus ==
    ASSUME NEW S, IsFiniteSet(S), NEW w, NEW v, NEW u,
           \A x \in S : w[x] \in Int /\ v[x] \in Int /\ u[x] = w[x] + v[x]
    PROVE  Total(u, S) = Total(w, S) + Total(v, S)
<1>1. PICK f : Additive(f, w, S)
  BY AdditiveExists
<1>2. PICK k : Additive(k, v, S)
  BY AdditiveExists
<1> DEFINE h == [T \in SUBSET S |-> f[T] + k[T]]
<1>3. Additive(h, u, S)
  <2>1. h \in [SUBSET S -> Int] /\ h[{}] = 0
    BY <1>1, <1>2 DEF Additive
  <2>2. ASSUME NEW T \in SUBSET S, NEW x \in S \ T
        PROVE  h[T \cup {x}] = h[T] + u[x]
    <3>1. f[T \cup {x}] = f[T] + w[x] /\ k[T \cup {x}] = k[T] + v[x]
      BY <1>1, <1>2 DEF Additive
    <3>2. f[T] \in Int /\ k[T] \in Int /\ w[x] \in Int /\ v[x] \in Int
      BY <1>1, <1>2 DEF Additive
    <3>3. T \cup {x} \in SUBSET S
      OBVIOUS
    <3> QED BY <3>1, <3>2, <3>3
  <2> QED BY <2>1, <2>2 DEF Additive
<1>4. h[S] = f[S] + k[S]
  OBVIOUS
<1> HIDE DEF h
<1>5. Total(u, S) = h[S] /\ Total(w, S) = f[S] /\ Total(v, S) = k[S]
  BY <1>1, <1>2, <1>3, TotalIs
<1> QED BY <1>4, <1>5

\* What is nothing adds nothing.
LEMMA TotalSupport ==
    ASSUME NEW S, IsFiniteSet(S), NEW T \in SUBSET S, NEW w,
           \A x \in S : w[x] \in Int, \A x \in S \ T : w[x] = 0
    PROVE  Total(w, T) = Total(w, S)
<1> DEFINE G == {R \in SUBSET (S \ T) : Total(w, T \cup R) = Total(w, T)}
<1>1. {} \in G
  <2>1. T \cup {} = T
    OBVIOUS
  <2> QED BY <2>1
<1>2. ASSUME NEW R \in G, NEW x \in (S \ T) \ R
      PROVE  R \cup {x} \in G
  <2>0. Total(w, T \cup R) = Total(w, T)
    OBVIOUS
  <2> DEFINE U == T \cup (R \cup {x})
  <2>1. U \ {x} = T \cup R /\ x \in U /\ U \in SUBSET S
    OBVIOUS
  <2>2. IsFiniteSet(U) /\ IsFiniteSet(T \cup R)
    BY <2>1, FS_Subset
  <2>3. Total(w, T \cup R) \in Int /\ w[x] = 0
    <3>1. \A y \in T \cup R : w[y] \in Int
      OBVIOUS
    <3> QED BY <2>2, <3>1, TotalAdds
  <2>4. \A y \in U : w[y] \in Int
    OBVIOUS
  <2> HIDE DEF U
  <2>5. Total(w, U) = Total(w, U \ {x}) + w[x]
    BY <2>1, <2>2, <2>4, TotalAdds
  <2>6. Total(w, U) = Total(w, T)
    <3>1. Total(w, U \ {x}) = Total(w, T)
      BY <2>0, <2>1
    <3>2. Total(w, T) \in Int /\ w[x] = 0
      BY <2>0, <2>3
    <3> HIDE DEF G
    <3> QED BY <2>5, <3>1, <3>2
  <2> QED BY <2>6 DEF U
<1>3. IsFiniteSet(S \ T) /\ G \in SUBSET SUBSET (S \ T)
  BY FS_Difference
<1> HIDE DEF G
<1>4. (S \ T) \in G
  BY <1>1, <1>2, <1>3, SetByElements
<1>5. T \cup (S \ T) = S
  OBVIOUS
<1> QED BY <1>4, <1>5 DEF G

\* The parts of a sum.
LEMMA TotalSplit ==
    ASSUME NEW S, IsFiniteSet(S), NEW T \in SUBSET S, NEW w, \A x \in S : w[x] \in Int
    PROVE  Total(w, S) = Total(w, S \ T) + Total(w, T)
<1> DEFINE v == [x \in S |-> IF x \in T THEN 0 ELSE w[x]]
           u == [x \in S |-> IF x \in T THEN w[x] ELSE 0]
<1>1. /\ \A x \in S : v[x] \in Int /\ u[x] \in Int /\ w[x] = v[x] + u[x]
      /\ \A x \in S \ T : v[x] = w[x] /\ u[x] = 0
      /\ \A x \in T : u[x] = w[x] /\ v[x] = 0
  OBVIOUS
<1>2. IsFiniteSet(S \ T) /\ IsFiniteSet(T) /\ S \ (S \ T) = T /\ S \ T \in SUBSET S
  BY FS_Subset
<1> HIDE DEF v, u
<1>3. Total(w, S) = Total(v, S) + Total(u, S)
  BY <1>1, TotalPlus
<1>4. Total(u, T) = Total(u, S)
  BY <1>1, TotalSupport
<1>5. Total(v, S \ T) = Total(v, S)
  <2> DEFINE R == S \ T
  <2>1. R \in SUBSET S /\ \A x \in S \ R : v[x] = 0
    BY <1>1
  <2> HIDE DEF R
  <2>2. Total(v, R) = Total(v, S)
    BY <1>1, <2>1, TotalSupport
  <2> QED BY <2>2 DEF R
<1>6. Total(v, S \ T) = Total(w, S \ T)
  <2> DEFINE R == S \ T
  <2>1. IsFiniteSet(R) /\ \A x \in R : w[x] \in Int /\ v[x] = w[x]
    BY <1>1, <1>2
  <2> HIDE DEF R
  <2>2. Total(v, R) = Total(w, R)
    BY <2>1, TotalSame
  <2> QED BY <2>2 DEF R
<1>7. Total(u, T) = Total(w, T)
  BY <1>1, <1>2, TotalSame
<1> QED BY <1>3, <1>4, <1>5, <1>6, <1>7
===============================================================================
