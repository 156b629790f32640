--------------------------- MODULE NaturalLemmas ----------------------------
(***************************************************************************)
(* Facts about natural numbers that the proofs about several modules use.  *)
(***************************************************************************)
EXTENDS Integers, FiniteSets, FiniteSetTheorems, FunctionTheorems,
        WellFoundedInduction, TLAPS

\* What a proof by induction says, of a set of numbers: it has a least one.
LEMMA Least ==
  ASSUME NEW S \in SUBSET Nat, S # {}
  PROVE  \E k \in S : \A i \in S : ~(i < k)
<1>. DEFINE R == OpToRel(<, Nat)
<1>1. IsWellFoundedOn(R, Nat)
  BY NatLessThanWellFounded, Zenon
<1>2. \A x, y \in Nat : <<x, y>> \in R <=> x < y
  BY DEF OpToRel
<1>. HIDE DEF R
<1>3. PICK x \in S : \A y \in S : ~(<<y, x>> \in R)
  BY <1>1, WFMin
<1>. QED
  BY <1>2, <1>3

\* What holds of the first value of a function, and of each one after one of
\* which it holds, holds of all.
LEMMA Reaches ==
  ASSUME NEW V, NEW k \in Nat, NEW f, f[0] \in V,
         \A n \in 1 .. k : f[n - 1] \in V => f[n] \in V
  PROVE  \A n \in 0 .. k : f[n] \in V
<1>. DEFINE S == {n \in 0 .. k : f[n] \notin V}
<1>. SUFFICES ASSUME S # {} PROVE FALSE
  OBVIOUS
<1>1. S \in SUBSET Nat
  OBVIOUS
<1>2. PICK m \in S : \A i \in S : ~(i < m)
  <2>. HIDE DEF S
  <2>. QED
    BY <1>1, Least
<1>3. m # 0
  BY <1>2
<1>4. m - 1 \in 0 .. k /\ m - 1 < m /\ m \in 1 .. k
  BY <1>2, <1>3
<1>5. m - 1 \notin S
  BY <1>2, <1>4
<1>. QED
  BY <1>2, <1>4, <1>5

\* A recursive definition, of a function whose values are in V, defines one.
Iterated(f, V, k, b, g) ==
  f \in [0 .. k -> V] /\ f[0] = b /\ \A n \in 1 .. k : f[n] = g[<<f[n - 1], n>>]

LEMMA Iterates ==
  ASSUME NEW V, NEW k \in Nat, NEW b \in V, NEW g \in [V \X (1 .. k) -> V]
  PROVE  \E f : Iterated(f, V, k, b, g)
<1>. DEFINE Good(f, m) ==
       f \in [0 .. m -> V] /\ f[0] = b /\ \A n \in 1 .. m : f[n] = g[<<f[n - 1], n>>]
            S == {m \in 0 .. k : ~\E f : Good(f, m)}
<1>1. SUFFICES ASSUME S # {} PROVE FALSE
  <2>1. k \in 0 .. k
    OBVIOUS
  <2>. QED
    BY <2>1 DEF Iterated
<1>2. S \in SUBSET Nat
  OBVIOUS
<1>3. PICK m \in S : \A i \in S : ~(i < m)
  <2>. HIDE DEF S
  <2>. QED
    BY <1>1, <1>2, Least
<1>4. m # 0
  <2>1. PICK f : f = [n \in 0 .. 0 |-> b]
    OBVIOUS
  <2>2. Good(f, 0)
    BY <2>1
  <2>. QED
    BY <1>3, <2>2
<1>5. m - 1 \in 0 .. k /\ m - 1 < m /\ m \in 1 .. k
  BY <1>3, <1>4
<1>6. PICK f : Good(f, m - 1)
  BY <1>3, <1>5
<1>7. PICK h : h = [n \in 0 .. m |-> IF n = m THEN g[<<f[m - 1], m>>] ELSE f[n]]
  OBVIOUS
<1>8. \A n \in 0 .. m - 1 : h[n] = f[n] /\ f[n] \in V
  BY <1>5, <1>6, <1>7
<1>9. h[m] = g[<<f[m - 1], m>>] /\ h[m - 1] = f[m - 1]
  BY <1>5, <1>7
<1>10. h[m] \in V
  <2>1. <<f[m - 1], m>> \in V \X (1 .. k)
    <3>1. m - 1 \in 0 .. m - 1
      BY <1>5
    <3>. QED
      BY <1>5, <1>8, <3>1
  <2>. QED
    BY <1>9, <2>1
<1>11. h \in [0 .. m -> V]
  <2>1. \A n \in 0 .. m : n = m \/ n \in 0 .. m - 1
    BY <1>5
  <2>2. \A n \in 0 .. m : h[n] \in V
    BY <1>8, <1>10, <2>1
  <2>. QED
    BY <1>7, <2>2
<1>12. h[0] = b
  BY <1>5, <1>6, <1>8
<1>13. \A n \in 1 .. m : h[n] = g[<<h[n - 1], n>>]
  <2>. SUFFICES ASSUME NEW n \in 1 .. m PROVE h[n] = g[<<h[n - 1], n>>]
    OBVIOUS
  <2>1. CASE n = m
    BY <1>9, <2>1
  <2>2. CASE n # m
    <3>1. n \in 1 .. m - 1 /\ n - 1 \in 0 .. m - 1 /\ n \in 0 .. m - 1
      BY <1>5, <2>2
    <3>. QED
      BY <1>6, <1>8, <3>1
  <2>. QED
    BY <2>1, <2>2
<1>. QED
  BY <1>3, <1>11, <1>12, <1>13

-----------------------------------------------------------------------------
(* Powers of two are counted: 2^n is the number of subsets of 1 .. n, so   *)
(* that their law follows from that of products.                           *)

LEMMA Powers == \A n \in Nat : /\ IsFiniteSet(SUBSET (1 .. n))
                              /\ Cardinality(SUBSET (1 .. n)) = 2^n
                              /\ 2^n \in Nat \ {0}
<1>. SUFFICES ASSUME NEW n \in Nat
              PROVE  /\ IsFiniteSet(SUBSET (1 .. n)) /\ Cardinality(SUBSET (1 .. n)) = 2^n
                     /\ 2^n \in Nat \ {0}
  OBVIOUS
<1>1. IsFiniteSet(1 .. n) /\ Cardinality(1 .. n) = n
  BY FS_Interval
<1>2. IsFiniteSet(SUBSET (1 .. n)) /\ Cardinality(SUBSET (1 .. n)) = 2^n
  BY <1>1, FS_SUBSET
<1>3. Cardinality(SUBSET (1 .. n)) \in Nat /\ Cardinality(SUBSET (1 .. n)) # 0
  <2>1. SUBSET (1 .. n) # {}
    OBVIOUS
  <2>. QED
    BY <1>2, <2>1, FS_CardinalityType, FS_EmptySet
<1>. QED
  BY <1>2, <1>3

LEMMA PowerSum == \A a, b \in Nat : 2^(a + b) = 2^a * 2^b
<1>. SUFFICES ASSUME NEW a \in Nat, NEW b \in Nat PROVE 2^(a + b) = 2^a * 2^b
  OBVIOUS
<1>1. PICK S, T : S = 1 .. a /\ T = a + 1 .. a + b
  OBVIOUS
<1>2. S \cup T = 1 .. a + b /\ S \cap T = {}
  BY <1>1
<1>3. /\ IsFiniteSet(S) /\ Cardinality(S) = a /\ IsFiniteSet(T) /\ Cardinality(T) = b
      /\ IsFiniteSet(S \cup T) /\ Cardinality(S \cup T) = a + b
  <2>1. a \in Int /\ 1 \in Int /\ a + 1 \in Int /\ a + b \in Int
    OBVIOUS
  <2>2. \A m \in Nat : IsFiniteSet(1 .. m) /\ Cardinality(1 .. m) = m
    BY FS_Interval
  <2>3. IsFiniteSet(a + 1 .. a + b) /\ Cardinality(a + 1 .. a + b) = b
    BY <2>1, FS_Interval
  <2>4. IsFiniteSet(1 .. a + b) /\ Cardinality(1 .. a + b) = a + b
    <3>1. PICK m \in Nat : m = a + b
      OBVIOUS
    <3>. QED
      BY <3>1, <2>2
  <2>. QED
    BY <1>1, <1>2, <2>2, <2>3, <2>4
<1>4. /\ IsFiniteSet(SUBSET S) /\ Cardinality(SUBSET S) = 2^a
      /\ IsFiniteSet(SUBSET T) /\ Cardinality(SUBSET T) = 2^b
      /\ IsFiniteSet(SUBSET (S \cup T)) /\ Cardinality(SUBSET (S \cup T)) = 2^(a + b)
  BY <1>3, FS_SUBSET
<1>5. PICK f : f = [X \in SUBSET (S \cup T) |-> <<X \cap S, X \cap T>>]
  OBVIOUS
<1>6. f \in [SUBSET (S \cup T) -> (SUBSET S) \X (SUBSET T)]
  BY <1>5
<1>7. \A X, Y \in SUBSET (S \cup T) : f[X] = f[Y] => X = Y
  <2>. SUFFICES ASSUME NEW X \in SUBSET (S \cup T), NEW Y \in SUBSET (S \cup T),
                       X \cap S = Y \cap S, X \cap T = Y \cap T
                PROVE  X = Y
    BY <1>5
  <2>. QED
    OBVIOUS
<1>8. \A p \in (SUBSET S) \X (SUBSET T) : \E X \in SUBSET (S \cup T) : f[X] = p
  <2>. SUFFICES ASSUME NEW p \in (SUBSET S) \X (SUBSET T)
                PROVE  \E X \in SUBSET (S \cup T) : f[X] = p
    OBVIOUS
  <2>1. PICK X \in SUBSET S, Y \in SUBSET T : p = <<X, Y>>
    OBVIOUS
  <2>2. (X \cup Y) \cap S = X /\ (X \cup Y) \cap T = Y
    BY <1>2
  <2>3. PICK Z \in SUBSET (S \cup T) : Z = X \cup Y
    OBVIOUS
  <2>4. f[Z] = <<Z \cap S, Z \cap T>>
    BY <1>5
  <2>. QED
    BY <2>1, <2>2, <2>3, <2>4
<1>9. f \in Bijection(SUBSET (S \cup T), (SUBSET S) \X (SUBSET T))
  BY <1>6, <1>7, <1>8, Fun_IsBij, Zenon
<1>10. Cardinality((SUBSET S) \X (SUBSET T)) = 2^(a + b)
  BY <1>4, <1>9, Fun_ExistsBij, FS_Bijection
<1>11. Cardinality((SUBSET S) \X (SUBSET T)) = 2^a * 2^b
  <2>1. Cardinality((SUBSET S) \X (SUBSET T)) = Cardinality(SUBSET S) * Cardinality(SUBSET T)
    BY <1>4, FS_Product, Zenon
  <2>. QED
    BY <1>4, <2>1
<1>. QED
  BY <1>10, <1>11

\* A number has a quotient and a remainder.
LEMMA Division ==
  \A n \in Nat, d \in Nat \ {0} :
    n \div d \in Nat /\ n % d \in 0 .. d - 1 /\ n = d * (n \div d) + (n % d)
<1>1. \A n \in Nat, d \in Nat \ {0} : n % d \in 0 .. d - 1
  OBVIOUS
<1>2. \A n \in Nat, d \in Nat \ {0} : n \div d \in Nat
  OBVIOUS
<1>3. \A n \in Nat, d \in Nat \ {0} : n = d * (n \div d) + (n % d)
  <2>1. \A n, d \in Int : d > 0 => n = d * (n \div d) + (n % d)
    OBVIOUS
  <2>2. \A n \in Nat, d \in Nat \ {0} : n \in Int /\ d \in Int /\ d > 0
    OBVIOUS
  <2>. QED
    BY <2>1, <2>2, Zenon
<1>. QED
  BY <1>1, <1>2, <1>3, Zenon

\* It has no other.
LEMMA DivisionUnique ==
  ASSUME NEW d \in Nat \ {0}, NEW q \in Nat, NEW r \in 0 .. d - 1,
         NEW n \in Nat, n = d * q + r
  PROVE  n \div d = q /\ n % d = r
<1>2. PICK p \in Nat, s \in 0 .. d - 1 :
        p = n \div d /\ s = n % d /\ n = d * p + s
  <2>1. n \div d \in Nat /\ n % d \in 0 .. d - 1 /\ n = d * (n \div d) + (n % d)
    BY Division, Zenon
  <2>. QED
    BY <2>1, Zenon
<1>3. ASSUME NEW u \in Nat, NEW v \in Nat, u < v PROVE d * u + d <= d * v
  <2>1. PICK w \in Nat : v = u + 1 + w
    <3>1. v - u - 1 \in Nat /\ v = u + 1 + (v - u - 1)
      BY <1>3
    <3>. QED
      BY <3>1
  <2>2. d * v = d * u + d + d * w /\ d * w \in Nat
    BY <2>1
  <2>. QED
    BY <2>2
<1>4. d * p \in Nat /\ d * q \in Nat
  OBVIOUS
<1>5. p = q
  BY <1>2, <1>3, <1>4
<1>. QED
  BY <1>2, <1>4, <1>5

-----------------------------------------------------------------------------
(* Finite sets and sums over them.                                         *)

\* What holds of the empty set, and of a set of which each element may be left
\* out, holds of all subsets of a finite set.
LEMMA SubsetsReach ==
  ASSUME NEW T, IsFiniteSet(T), NEW V, {} \in V,
         \A S \in SUBSET T : S # {} /\ (\A x \in S : S \ {x} \in V) => S \in V
  PROVE  \A S \in SUBSET T : S \in V
<1>. DEFINE Size(k) == \E S \in SUBSET T : S \notin V /\ Cardinality(S) = k
            K == {k \in Nat : Size(k)}
<1>1. \A S \in SUBSET T : IsFiniteSet(S) /\ Cardinality(S) \in Nat
  BY FS_Subset, FS_CardinalityType
<1>. SUFFICES ASSUME NEW S \in SUBSET T, S \notin V PROVE FALSE
  OBVIOUS
<1>2. K # {} /\ K \in SUBSET Nat
  <2>1. Cardinality(S) \in Nat /\ Size(Cardinality(S))
    BY <1>1
  <2>. QED
    BY <2>1
<1>3. PICK k \in K : \A i \in K : ~(i < k)
  <2>. HIDE DEF K
  <2>. QED
    BY <1>2, Least
<1>4. PICK U \in SUBSET T : U \notin V /\ Cardinality(U) = k
  OBVIOUS
<1>5. ASSUME NEW x \in U PROVE U \ {x} \in V
  <2>. SUFFICES ASSUME U \ {x} \notin V PROVE FALSE
    OBVIOUS
  <2>1. U \ {x} \in SUBSET T /\ Cardinality(U \ {x}) = k - 1
    BY <1>1, <1>4, FS_RemoveElement
  <2>2. Cardinality(U \ {x}) \in Nat
    BY <1>1, <2>1, Zenon
  <2>3. k - 1 \in Nat /\ k - 1 < k
    BY <2>1, <2>2
  <2>4. Size(k - 1)
    BY <2>1
  <2>. QED
    BY <1>3, <2>3, <2>4
<1>. QED
  BY <1>4, <1>5

Pick(s) == CHOOSE x \in s : TRUE

\* h adds up the values of f over each subset of T.
Summing(h, f, T) ==
  h = [s \in SUBSET T |-> IF s = {} THEN 0 ELSE f[Pick(s)] + h[s \ {Pick(s)}]]

Total(f, T) == (CHOOSE h : Summing(h, f, T))[T]

LEMMA Picks == \A s : s # {} => Pick(s) \in s
BY DEF Pick

LEMMA SummingAt ==
  ASSUME NEW T, NEW f, NEW h, Summing(h, f, T)
  PROVE  h[{}] = 0
BY DEF Summing

LEMMA SummingStep ==
  ASSUME NEW T, NEW f, NEW h, Summing(h, f, T), NEW S \in SUBSET T, NEW x \in S, x = Pick(S)
  PROVE  h[S] = f[x] + h[S \ {x}]
BY DEF Summing

LEMMA SummingIs ==
  ASSUME NEW T, NEW f, NEW h, h = [s \in SUBSET T |-> h[s]], h[{}] = 0,
         \A s \in SUBSET T : s # {} => h[s] = f[Pick(s)] + h[s \ {Pick(s)}]
  PROVE  Summing(h, f, T)
<1>1. \A s \in SUBSET T : h[s] = IF s = {} THEN 0 ELSE f[Pick(s)] + h[s \ {Pick(s)}]
  OBVIOUS
<1>2. [s \in SUBSET T |-> h[s]]
        = [s \in SUBSET T |-> IF s = {} THEN 0 ELSE f[Pick(s)] + h[s \ {Pick(s)}]]
  BY <1>1
<1>. QED
  BY <1>2 DEF Summing

\* There is such a function, and no other one.
LEMMA SummingNat ==
  ASSUME NEW T, IsFiniteSet(T), NEW f \in [T -> Nat], NEW h, Summing(h, f, T)
  PROVE  h \in [SUBSET T -> Nat]
<1>. DEFINE V == {S \in SUBSET T : h[S] \in Nat}
<1>1. {} \in V
  BY SummingAt
<1>2. ASSUME NEW S \in SUBSET T, S # {}, \A x \in S : S \ {x} \in V PROVE S \in V
  <2>1. PICK x \in S : x = Pick(S)
    BY <1>2, Picks
  <2>2. h[S] = f[x] + h[S \ {x}]
    BY <2>1, SummingStep
  <2>3. f[x] \in Nat /\ h[S \ {x}] \in Nat
    BY <1>2
  <2>. QED
    BY <2>2, <2>3
<1>. HIDE DEF V
<1>3. \A S \in SUBSET T : S \in V
  BY <1>1, <1>2, SubsetsReach
<1>. QED
  BY <1>3 DEF V, Summing

LEMMA SummingUnique ==
  ASSUME NEW T, IsFiniteSet(T), NEW f, NEW h, NEW g, Summing(h, f, T), Summing(g, f, T)
  PROVE  h[T] = g[T]
<1>. DEFINE V == {S \in SUBSET T : h[S] = g[S]}
<1>1. {} \in V
  BY SummingAt
<1>2. ASSUME NEW S \in SUBSET T, S # {}, \A x \in S : S \ {x} \in V PROVE S \in V
  <2>1. PICK x \in S : x = Pick(S)
    BY <1>2, Picks
  <2>2. h[S] = f[x] + h[S \ {x}]
    BY <2>1, SummingStep
  <2>3. g[S] = f[x] + g[S \ {x}]
    BY <2>1, SummingStep
  <2>4. h[S \ {x}] = g[S \ {x}]
    BY <1>2
  <2>. QED
    BY <2>2, <2>3, <2>4
<1>. HIDE DEF V
<1>3. \A S \in SUBSET T : S \in V
  BY <1>1, <1>2, SubsetsReach
<1>. QED
  BY <1>3 DEF V

\* One for the subsets of at most k elements.
Small(T, k) == {s \in SUBSET T : Cardinality(s) <= k}
SmallSums(h, f, T, k) ==
  /\ h \in [Small(T, k) -> Nat] /\ h[{}] = 0
  /\ \A s \in Small(T, k) : s # {} => h[s] = f[Pick(s)] + h[s \ {Pick(s)}]

LEMMA SumsExist ==
  ASSUME NEW T, IsFiniteSet(T), NEW f \in [T -> Nat]
  PROVE  \E h : Summing(h, f, T)
<1>. DEFINE Bad(k) == ~\E h : SmallSums(h, f, T, k)
            K == {k \in Nat : Bad(k)}
<1>0. \A s \in SUBSET T : IsFiniteSet(s) /\ Cardinality(s) \in Nat
  BY FS_Subset, FS_CardinalityType
<1>1. K = {}
  <2>. SUFFICES ASSUME K # {} PROVE FALSE
    OBVIOUS
  <2>1. PICK k \in K : \A i \in K : ~(i < k)
    <3>1. K \in SUBSET Nat
      OBVIOUS
    <3>. HIDE DEF K
    <3>. QED
      BY <3>1, Least
  <2>2. k \in Nat /\ Bad(k)
    OBVIOUS
  <2>3. CASE k = 0
    <3>1. PICK h : h = [s \in Small(T, 0) |-> 0]
      OBVIOUS
    <3>2. \A s \in Small(T, 0) : s = {}
      <4>1. \A s \in Small(T, 0) : IsFiniteSet(s) /\ Cardinality(s) = 0
        BY <1>0 DEF Small
      <4>. QED
        BY <4>1, FS_EmptySet
    <3>3. {} \in Small(T, 0)
      BY FS_EmptySet DEF Small
    <3>4. SmallSums(h, f, T, 0)
      BY <3>1, <3>2, <3>3 DEF SmallSums
    <3>. QED
      BY <2>2, <2>3, <3>4
  <2>4. CASE k # 0
    <3>1. k - 1 \in Nat /\ k - 1 < k
      BY <2>2, <2>4
    <3>2. PICK g : SmallSums(g, f, T, k - 1)
      <4>1. ~Bad(k - 1)
        BY <2>1, <3>1
      <4>. QED
        BY <4>1
    <3>3. PICK h : h = [s \in Small(T, k) |->
                          IF s \in Small(T, k - 1) THEN g[s] ELSE f[Pick(s)] + g[s \ {Pick(s)}]]
      OBVIOUS
    <3>4. /\ Small(T, k - 1) \subseteq Small(T, k)
          /\ {} \in Small(T, k - 1)
      <4>1. \A s \in SUBSET T : Cardinality(s) <= k - 1 => Cardinality(s) <= k
        BY <1>0, <2>2, <3>1
      <4>2. {} \in Small(T, k - 1)
        BY <3>1, FS_EmptySet DEF Small
      <4>. QED
        BY <4>1, <4>2 DEF Small
    <3>5. ASSUME NEW s \in Small(T, k), s # {}
          PROVE  /\ Pick(s) \in T /\ f[Pick(s)] \in Nat
                 /\ s \ {Pick(s)} \in Small(T, k - 1) /\ g[s \ {Pick(s)}] \in Nat
      <4>1. PICK x \in s : x = Pick(s)
        BY <3>5, Picks
      <4>2. s \in SUBSET T /\ s \ {x} \in SUBSET T /\ Cardinality(s) <= k
        BY DEF Small
      <4>3. Cardinality(s \ {x}) = Cardinality(s) - 1 /\ Cardinality(s) \in Nat
        BY <1>0, <4>2, FS_RemoveElement
      <4>4. Cardinality(s \ {x}) <= k - 1
        BY <2>2, <4>2, <4>3
      <4>5. s \ {x} \in Small(T, k - 1)
        BY <4>2, <4>4 DEF Small
      <4>. QED
        BY <3>2, <4>1, <4>2, <4>5 DEF SmallSums
    <3>6. h \in [Small(T, k) -> Nat]
      <4>1. ASSUME NEW s \in Small(T, k) PROVE h[s] \in Nat
        <5>1. CASE s \in Small(T, k - 1)
          BY <3>2, <3>3, <5>1 DEF SmallSums
        <5>2. CASE s \notin Small(T, k - 1)
          <6>1. s # {}
            BY <3>4, <5>2
          <6>2. f[Pick(s)] \in Nat /\ g[s \ {Pick(s)}] \in Nat
            BY <3>5, <6>1
          <6>3. h[s] = f[Pick(s)] + g[s \ {Pick(s)}]
            BY <3>3, <5>2
          <6>. QED
            BY <6>2, <6>3
        <5>. QED
          BY <5>1, <5>2
      <4>. QED
        BY <3>3, <4>1
    <3>7. ASSUME NEW s \in Small(T, k), s # {}
          PROVE  h[s] = f[Pick(s)] + h[s \ {Pick(s)}]
      <4>1. h[s \ {Pick(s)}] = g[s \ {Pick(s)}]
        BY <3>3, <3>4, <3>5, <3>7
      <4>2. CASE s \in Small(T, k - 1)
        <5>1. g[s] = f[Pick(s)] + g[s \ {Pick(s)}]
          BY <3>2, <3>7, <4>2 DEF SmallSums
        <5>. QED
          BY <3>3, <4>1, <4>2, <5>1
      <4>3. CASE s \notin Small(T, k - 1)
        BY <3>3, <4>1, <4>3
      <4>. QED
        BY <4>2, <4>3
    <3>8. h[{}] = 0
      BY <3>2, <3>3, <3>4 DEF SmallSums
    <3>9. SmallSums(h, f, T, k)
      BY <3>6, <3>7, <3>8 DEF SmallSums
    <3>. QED
      BY <2>2, <3>9
  <2>. QED
    BY <2>3, <2>4
<1>2. PICK h : SmallSums(h, f, T, Cardinality(T))
  BY <1>0, <1>1
<1>3. Small(T, Cardinality(T)) = SUBSET T
  <2>1. \A s \in SUBSET T : Cardinality(s) <= Cardinality(T)
    BY FS_Subset
  <2>. QED
    BY <2>1 DEF Small
<1>4. Summing(h, f, T)
  <2>1. h = [s \in SUBSET T |-> h[s]]
    BY <1>2, <1>3 DEF SmallSums
  <2>. QED
    BY <1>2, <1>3, <2>1, SummingIs DEF SmallSums
<1>. QED
  BY <1>4

\* So the total is what any of them says.
LEMMA TotalIs ==
  ASSUME NEW T, IsFiniteSet(T), NEW f \in [T -> Nat]
  PROVE  /\ \E h : Summing(h, f, T) /\ h \in [SUBSET T -> Nat] /\ Total(f, T) = h[T]
         /\ \A h : Summing(h, f, T) => Total(f, T) = h[T]
<1>1. PICK h : Summing(h, f, T)
  BY SumsExist
<1>2. PICK g : g = CHOOSE x : Summing(x, f, T)
  OBVIOUS
<1>3. Summing(g, f, T)
  BY <1>1, <1>2
<1>4. ASSUME NEW x, Summing(x, f, T) PROVE x \in [SUBSET T -> Nat] /\ Total(f, T) = x[T]
  BY <1>2, <1>3, <1>4, SummingNat, SummingUnique DEF Total
<1>. QED
  BY <1>1, <1>4

LEMMA TotalNat ==
  ASSUME NEW T, IsFiniteSet(T), NEW f \in [T -> Nat]
  PROVE  Total(f, T) \in Nat
<1>1. PICK h : Summing(h, f, T) /\ h \in [SUBSET T -> Nat] /\ Total(f, T) = h[T]
  BY TotalIs, Zenon
<1>. QED
  BY <1>1

\* It changes by what one value changes by.
LEMMA TotalSet ==
  ASSUME NEW T, IsFiniteSet(T), NEW f \in [T -> Nat], NEW g \in [T -> Nat], NEW u \in T,
         \A t \in T \ {u} : g[t] = f[t]
  PROVE  Total(g, T) + f[u] = Total(f, T) + g[u]
<1>1. PICK h : Summing(h, f, T) /\ h \in [SUBSET T -> Nat] /\ Total(f, T) = h[T]
  BY TotalIs, Zenon
<1>2. PICK k : Summing(k, g, T) /\ k \in [SUBSET T -> Nat] /\ Total(g, T) = k[T]
  BY TotalIs, Zenon
<1>. DEFINE V == {S \in SUBSET T : IF u \in S THEN k[S] + f[u] = h[S] + g[u] ELSE k[S] = h[S]}
<1>3. {} \in V
  BY <1>1, <1>2, SummingAt
<1>4. ASSUME NEW S \in SUBSET T, S # {}, \A x \in S : S \ {x} \in V PROVE S \in V
  <2>1. PICK x \in S : x = Pick(S)
    BY <1>4, Picks
  <2>2. h[S] = f[x] + h[S \ {x}] /\ k[S] = g[x] + k[S \ {x}]
    <3>1. h[S] = f[x] + h[S \ {x}]
      BY <1>1, <2>1, SummingStep
    <3>2. k[S] = g[x] + k[S \ {x}]
      BY <1>2, <2>1, SummingStep
    <3>. QED
      BY <3>1, <3>2
  <2>3. /\ f[x] \in Nat /\ g[x] \in Nat /\ f[u] \in Nat /\ g[u] \in Nat
        /\ h[S \ {x}] \in Nat /\ k[S \ {x}] \in Nat
    BY <1>1, <1>2
  <2>4. S \ {x} \in V
    BY <1>4
  <2>5. CASE u = x
    <3>1. k[S \ {x}] = h[S \ {x}]
      BY <2>4, <2>5
    <3>. QED
      BY <2>2, <2>3, <2>5, <3>1
  <2>6. CASE u # x /\ u \in S
    <3>1. k[S \ {x}] + f[u] = h[S \ {x}] + g[u] /\ f[x] = g[x]
      BY <2>4, <2>6
    <3>2. k[S] + f[u] = h[S] + g[u]
      BY <2>2, <2>3, <3>1
    <3>. QED
      BY <2>6, <3>2
  <2>7. CASE u \notin S
    <3>1. k[S \ {x}] = h[S \ {x}] /\ f[x] = g[x]
      BY <2>4, <2>7
    <3>. QED
      BY <2>2, <2>7, <3>1
  <2>. QED
    BY <2>5, <2>6, <2>7
<1>5. T \in V
  <2>. HIDE DEF V
  <2>. QED
    BY <1>3, <1>4, SubsetsReach
<1>. QED
  BY <1>1, <1>2, <1>5

\* Sums are added value by value.
LEMMA TotalAdd ==
  ASSUME NEW T, IsFiniteSet(T), NEW f \in [T -> Nat], NEW g \in [T -> Nat],
         NEW e \in [T -> Nat], \A t \in T : e[t] = f[t] + g[t]
  PROVE  Total(e, T) = Total(f, T) + Total(g, T)
<1>1. PICK h : Summing(h, f, T) /\ h \in [SUBSET T -> Nat] /\ Total(f, T) = h[T]
  BY TotalIs, Zenon
<1>2. PICK k : Summing(k, g, T) /\ k \in [SUBSET T -> Nat] /\ Total(g, T) = k[T]
  BY TotalIs, Zenon
<1>3. PICK m : Summing(m, e, T) /\ m \in [SUBSET T -> Nat] /\ Total(e, T) = m[T]
  BY TotalIs, Zenon
<1>. DEFINE V == {S \in SUBSET T : m[S] = h[S] + k[S]}
<1>4. {} \in V
  BY <1>1, <1>2, <1>3, SummingAt
<1>5. ASSUME NEW S \in SUBSET T, S # {}, \A x \in S : S \ {x} \in V PROVE S \in V
  <2>1. PICK x \in S : x = Pick(S)
    BY <1>5, Picks
  <2>2. /\ h[S] = f[x] + h[S \ {x}] /\ k[S] = g[x] + k[S \ {x}]
        /\ m[S] = e[x] + m[S \ {x}]
    <3>1. h[S] = f[x] + h[S \ {x}]
      BY <1>1, <2>1, SummingStep
    <3>2. k[S] = g[x] + k[S \ {x}]
      BY <1>2, <2>1, SummingStep
    <3>3. m[S] = e[x] + m[S \ {x}]
      BY <1>3, <2>1, SummingStep
    <3>. QED
      BY <3>1, <3>2, <3>3
  <2>3. /\ f[x] \in Nat /\ g[x] \in Nat /\ e[x] = f[x] + g[x]
        /\ h[S \ {x}] \in Nat /\ k[S \ {x}] \in Nat
        /\ m[S \ {x}] = h[S \ {x}] + k[S \ {x}]
    BY <1>1, <1>2, <1>5
  <2>. QED
    BY <2>2, <2>3
<1>6. T \in V
  <2>. HIDE DEF V
  <2>. QED
    BY <1>4, <1>5, SubsetsReach
<1>. QED
  BY <1>1, <1>2, <1>3, <1>6

LEMMA TotalFour ==
  ASSUME NEW T, IsFiniteSet(T), NEW a \in [T -> Nat], NEW b \in [T -> Nat],
         NEW c \in [T -> Nat], NEW d \in [T -> Nat], NEW f \in [T -> Nat],
         \A t \in T : f[t] = a[t] + b[t] + c[t] + d[t]
  PROVE  Total(f, T) = Total(a, T) + Total(b, T) + Total(c, T) + Total(d, T)
<1>1. PICK g : g = [t \in T |-> a[t] + b[t]]
  OBVIOUS
<1>2. PICK h : h = [t \in T |-> g[t] + c[t]]
  OBVIOUS
<1>3. \A t \in T : g[t] = a[t] + b[t]
  BY <1>1
<1>4. g \in [T -> Nat]
  BY <1>1
<1>5. \A t \in T : h[t] = g[t] + c[t]
  BY <1>2
<1>6. h \in [T -> Nat]
  BY <1>2, <1>4
<1>7. \A t \in T : f[t] = h[t] + d[t]
  BY <1>3, <1>5
<1>8. Total(g, T) = Total(a, T) + Total(b, T)
  BY <1>3, <1>4, TotalAdd
<1>9. Total(h, T) = Total(g, T) + Total(c, T)
  BY <1>4, <1>5, <1>6, TotalAdd
<1>10. Total(f, T) = Total(h, T) + Total(d, T)
  BY <1>6, <1>7, TotalAdd
<1>. QED
  BY <1>8, <1>9, <1>10

\* It is no less than each value, and 0 only when all are.
LEMMA TotalAtLeast ==
  ASSUME NEW T, IsFiniteSet(T), NEW f \in [T -> Nat]
  PROVE  /\ \A u \in T : f[u] <= Total(f, T)
         /\ (\A u \in T : f[u] = 0) => Total(f, T) = 0
<1>1. PICK h : Summing(h, f, T) /\ h \in [SUBSET T -> Nat] /\ Total(f, T) = h[T]
  BY TotalIs, Zenon
<1>. DEFINE V == {S \in SUBSET T : /\ \A u \in S : f[u] <= h[S]
                                   /\ (\A u \in S : f[u] = 0) => h[S] = 0}
<1>2. {} \in V
  BY <1>1, SummingAt
<1>3. ASSUME NEW S \in SUBSET T, S # {}, \A x \in S : S \ {x} \in V PROVE S \in V
  <2>1. PICK x \in S : x = Pick(S)
    BY <1>3, Picks
  <2>2. h[S] = f[x] + h[S \ {x}] /\ f[x] \in Nat /\ h[S \ {x}] \in Nat
    <3>1. h[S] = f[x] + h[S \ {x}]
      BY <1>1, <2>1, SummingStep
    <3>2. f[x] \in Nat /\ h[S \ {x}] \in Nat
      BY <1>1
    <3>. QED
      BY <3>1, <3>2
  <2>3. S \ {x} \in V
    BY <1>3
  <2>4. ASSUME NEW u \in S PROVE f[u] <= h[S]
    <3>1. CASE u = x
      BY <2>2, <3>1
    <3>2. CASE u # x
      <4>1. f[u] <= h[S \ {x}] /\ f[u] \in Nat
        BY <2>3, <3>2
      <4>. QED
        BY <2>2, <4>1
    <3>. QED
      BY <3>1, <3>2
  <2>5. (\A u \in S : f[u] = 0) => h[S] = 0
    BY <2>2, <2>3
  <2>. QED
    BY <2>4, <2>5
<1>4. T \in V
  <2>. HIDE DEF V
  <2>. QED
    BY <1>2, <1>3, SubsetsReach
<1>. QED
  BY <1>1, <1>4

=============================================================================
