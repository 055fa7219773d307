---------------------------- MODULE NumberLemmas ----------------------------
(***************************************************************************)
(* Numbers: induction and recursion over intervals, proved from the        *)
(* minimum of a set of natural numbers (the provers cannot instantiate     *)
(* theorems that take an operator), and powers of two.                     *)
(***************************************************************************)
EXTENDS Integers, FiniteSets, FiniteSetTheorems, WellFoundedInduction, TLAPS

-----------------------------------------------------------------------------
(* Induction.                                                              *)

\* A set of numbers has a least one.
LEMMA Minimum ==
    ASSUME NEW T, T \subseteq Nat, T # {}
    PROVE  \E x \in T : \A y \in T : x <= y
<1> DEFINE R == {p \in Nat \X Nat : p[1] < p[2]}
<1>1. R = OpToRel(<, Nat)
  BY Zenon DEF OpToRel
<1>2. IsWellFoundedOn(R, Nat)
  BY <1>1, NatLessThanWellFounded, Zenon
<1>3. PICK x \in T : \A y \in T : ~(<<y, x>> \in R)
  BY <1>2, WFMin
<1>4. ASSUME NEW y \in T PROVE x <= y
  <2>1. ~(<<y, x>> \in R)
    BY <1>3
  <2>2. x \in Nat /\ y \in Nat
    OBVIOUS
  <2> QED
    BY <2>1, <2>2
<1> QED
  BY <1>4

\* A set of numbers with 0 and all successors, up to n.
LEMMA Induction ==
    ASSUME NEW n \in Nat, NEW G, 0 \in G, \A k \in 0 .. n - 1 : k \in G => k + 1 \in G
    PROVE  \A k \in 0 .. n : k \in G
<1> DEFINE B == {k \in 0 .. n : k \notin G}
<1> SUFFICES ASSUME B # {} PROVE FALSE
  OBVIOUS
<1>1. B \subseteq Nat
  OBVIOUS
<1> HIDE DEF B
<1>2. PICK k \in B : \A y \in B : k <= y
  BY <1>1, Minimum
<1>3. k \in 0 .. n /\ k \notin G
  BY DEF B
<1>4. k # 0
  BY <1>3
<1>5. PICK j \in 0 .. n - 1 : k = j + 1
  BY <1>3, <1>4
<1>6. j \notin B
  BY <1>2, <1>5
<1>7. j \in G
  BY <1>5, <1>6 DEF B
<1>8. j + 1 \in G
  BY <1>7
<1> QED
  BY <1>3, <1>5, <1>8

\* h starts with base and follows G, its values are in the sets X.
Rises(h, n, X, base, G) ==
    /\ h = [k \in 0 .. n |-> h[k]]
    /\ h[0] = base
    /\ \A k \in 0 .. n : h[k] \in X[k]
    /\ \A k \in 1 .. n : h[k] = G[k][h[k - 1]]

\* The same from n down.
Falls(h, n, X, base, G) ==
    /\ h = [k \in 0 .. n |-> h[k]]
    /\ h[n] = base
    /\ \A k \in 0 .. n : h[k] \in X[k]
    /\ \A k \in 0 .. n - 1 : h[k] = G[k][h[k + 1]]

StepsUp(n, X, G) == \A k \in 1 .. n : \A x \in X[k - 1] : G[k][x] \in X[k]

StepsDown(n, X, G) == \A k \in 0 .. n - 1 : \A x \in X[k + 1] : G[k][x] \in X[k]

\* A recursion from 0 up to n has a solution.
LEMMA RecursionUp ==
    ASSUME NEW n \in Nat, NEW X, NEW base \in X[0], NEW G, StepsUp(n, X, G)
    PROVE  \E h : Rises(h, n, X, base, G)
<1> USE DEF StepsUp
<1> DEFINE Ok(m, h) == /\ h = [k \in 0 .. m |-> h[k]]
                       /\ h[0] = base
                       /\ \A k \in 0 .. m : h[k] \in X[k]
                       /\ \A k \in 1 .. m : h[k] = G[k][h[k - 1]]
           H == {m \in 0 .. n : \E h : Ok(m, h)}
<1>1. 0 \in H
  <2> DEFINE h == [k \in 0 .. 0 |-> base]
  <2>1. Ok(0, h)
    OBVIOUS
  <2> HIDE DEF h
  <2>2. 0 \in 0 .. n
    OBVIOUS
  <2> QED
    BY <2>1, <2>2
<1>2. ASSUME NEW m \in 0 .. n - 1, m \in H PROVE m + 1 \in H
  <2>1. PICK h : Ok(m, h)
    BY <1>2
  <2> DEFINE g == [k \in 0 .. m + 1 |-> IF k = m + 1 THEN G[m + 1][h[m]] ELSE h[k]]
  <2>2. m + 1 \in 0 .. n /\ m + 1 \in 1 .. n /\ m \in 0 .. m /\ (m + 1) - 1 = m
    OBVIOUS
  <2>3. h[m] \in X[m]
    BY <2>1, <2>2
  <2>4. G[m + 1][h[m]] \in X[m + 1]
    BY <2>2, <2>3
  <2>5. \A k \in 0 .. m : g[k] = h[k]
    OBVIOUS
  <2>6. g[m + 1] = G[m + 1][h[m]]
    OBVIOUS
  <2>7. g = [k \in 0 .. m + 1 |-> g[k]]
    OBVIOUS
  <2>8. g[0] = base
    BY <2>1, <2>5
  <2>9. ASSUME NEW k \in 0 .. m + 1 PROVE g[k] \in X[k]
    BY <2>1, <2>4, <2>5, <2>6
  <2>10. ASSUME NEW k \in 1 .. m + 1 PROVE g[k] = G[k][g[k - 1]]
    <3>1. CASE k = m + 1
      <4>1. g[k - 1] = h[m]
        BY <3>1, <2>5
      <4> QED
        BY <4>1, <3>1, <2>6
    <3>2. CASE k # m + 1
      <4>1. k \in 1 .. m /\ k - 1 \in 0 .. m
        BY <3>2
      <4>2. g[k] = h[k] /\ g[k - 1] = h[k - 1]
        BY <4>1, <2>5
      <4> QED
        BY <4>1, <4>2, <2>1
    <3> QED
      BY <3>1, <3>2
  <2> HIDE DEF g
  <2>11. Ok(m + 1, g)
    BY <2>7, <2>8, <2>9, <2>10
  <2> QED
    BY <2>2, <2>11
<1> HIDE DEF H
<1>3. \A k \in 0 .. n : k \in H
  BY <1>1, <1>2, Induction
<1>4. n \in H
  BY <1>3
<1>5. \E h : Ok(n, h)
  BY <1>4 DEF H
<1> QED
  BY <1>5 DEF Rises


\* A recursion from n down to 0 has a solution, as WriteBack needs it.
LEMMA RecursionDown ==
    ASSUME NEW n \in Nat, NEW X, NEW base \in X[n], NEW G, StepsDown(n, X, G)
    PROVE  \E h : Falls(h, n, X, base, G)
<1> DEFINE Y == [k \in 0 .. n |-> X[n - k]]
           F == [k \in 1 .. n |-> G[n - k]]
<1>1. base \in Y[0]
  OBVIOUS
<1>2. ASSUME NEW k \in 1 .. n, NEW x \in Y[k - 1] PROVE F[k][x] \in Y[k]
  <2>1. PICK j \in 0 .. n - 1 : j = n - k
    OBVIOUS
  <2>2. Y[k - 1] = X[j + 1] /\ Y[k] = X[j] /\ F[k] = G[j]
    BY <2>1
  <2>3. \A y \in X[j + 1] : G[j][y] \in X[j]
    BY DEF StepsDown
  <2> QED
    BY <2>2, <2>3
<1> HIDE DEF Y, F
<1>a. StepsUp(n, Y, F)
  BY <1>2 DEF StepsUp
<1>b. PICK g : Rises(g, n, Y, base, F)
  BY <1>1, <1>a, RecursionUp
<1>3. /\ g = [k \in 0 .. n |-> g[k]]
      /\ g[0] = base
      /\ \A k \in 0 .. n : g[k] \in Y[k]
      /\ \A k \in 1 .. n : g[k] = F[k][g[k - 1]]
  BY <1>b DEF Rises
<1> DEFINE h == [k \in 0 .. n |-> g[n - k]]
<1>4. h = [k \in 0 .. n |-> h[k]] /\ h[n] = base
  BY <1>3
<1>5. ASSUME NEW k \in 0 .. n PROVE h[k] \in X[k]
  <2>1. PICK j \in 0 .. n : j = n - k
    OBVIOUS
  <2>2. h[k] = g[j] /\ k = n - j
    BY <2>1
  <2>3. g[j] \in Y[j] /\ Y[j] = X[n - j]
    BY <1>3 DEF Y
  <2> QED
    BY <2>2, <2>3
<1>6. ASSUME NEW k \in 0 .. n - 1 PROVE h[k] = G[k][h[k + 1]]
  <2>1. PICK j \in 1 .. n : j = n - k
    OBVIOUS
  <2>2. h[k] = g[j] /\ h[k + 1] = g[j - 1] /\ k = n - j
    BY <2>1
  <2>3. g[j] = F[j][g[j - 1]] /\ F[j] = G[n - j]
    BY <1>3 DEF F
  <2> QED
    BY <2>2, <2>3
<1> HIDE DEF h
<1>7. Falls(h, n, X, base, G)
  BY <1>4, <1>5, <1>6 DEF Falls
<1> QED
  BY <1>7

\* What holds at n and goes down holds everywhere.
LEMMA InductionDown ==
    ASSUME NEW n \in Nat, NEW X, NEW g, g[n] \in X[n],
           \A k \in 0 .. n - 1 : g[k + 1] \in X[k + 1] => g[k] \in X[k]
    PROVE  \A k \in 0 .. n : g[k] \in X[k]
<1> DEFINE G == {j \in 0 .. n : g[n - j] \in X[n - j]}
<1>1. 0 \in G
  OBVIOUS
<1>2. ASSUME NEW j \in 0 .. n - 1, j \in G PROVE j + 1 \in G
  <2>1. PICK k \in 0 .. n - 1 : k = n - (j + 1)
    OBVIOUS
  <2>2. n - j = k + 1
    BY <2>1
  <2>3. g[k + 1] \in X[k + 1]
    BY <1>2, <2>2
  <2>4. g[k] \in X[k]
    BY <2>3
  <2> QED
    BY <2>1, <2>4
<1> HIDE DEF G
<1>3. \A j \in 0 .. n : j \in G
  BY <1>1, <1>2, Induction
<1>4. ASSUME NEW k \in 0 .. n PROVE g[k] \in X[k]
  <2>1. PICK j \in 0 .. n : j = n - k
    OBVIOUS
  <2>2. g[n - j] \in X[n - j]
    BY <1>3 DEF G
  <2>3. n - j = k
    BY <2>1
  <2> QED
    BY <2>2, <2>3
<1> QED
  BY <1>4

\* A function that stays in X from one argument to the next is in X.
LEMMA InductionUp ==
    ASSUME NEW n \in Nat, NEW X, NEW g, g[0] \in X[0],
           \A k \in 0 .. n - 1 : g[k] \in X[k] => g[k + 1] \in X[k + 1]
    PROVE  \A k \in 0 .. n : g[k] \in X[k]
<1> DEFINE G == {j \in 0 .. n : g[j] \in X[j]}
<1>1. 0 \in G
  OBVIOUS
<1>2. ASSUME NEW j \in 0 .. n - 1, j \in G PROVE j + 1 \in G
  <2>1. j + 1 \in 0 .. n /\ g[j] \in X[j]
    BY <1>2
  <2> QED
    BY <2>1
<1> HIDE DEF G
<1>3. \A j \in 0 .. n : j \in G
  BY <1>1, <1>2, Induction
<1> QED
  BY <1>3 DEF G

-----------------------------------------------------------------------------
-----------------------------------------------------------------------------
(* Powers of two.                                                          *)

\* Powers of two count subsets.
LEMMA Subsets ==
    ASSUME NEW n \in Nat
    PROVE  IsFiniteSet(SUBSET (1 .. n)) /\ Cardinality(SUBSET (1 .. n)) = 2 ^ n
<1>1. IsFiniteSet(1 .. n) /\ Cardinality(1 .. n) = n
  BY FS_Interval
<1> QED
  BY <1>1, FS_SUBSET

\* Powers of two are positive.
LEMMA PowerType ==
    ASSUME NEW n \in Nat
    PROVE  2 ^ n \in Nat \ {0}
<1>1. 2 ^ n \in Nat
  BY Subsets, FS_CardinalityType
<1>2. {} \in SUBSET (1 .. n)
  OBVIOUS
<1>3. 2 ^ n # 0
  BY <1>2, Subsets, FS_EmptySet
<1> QED
  BY <1>1, <1>3

\* The next power is twice as large.
LEMMA PowerNext ==
    ASSUME NEW n \in Nat
    PROVE  2 ^ (n + 1) = 2 * 2 ^ n
<1> DEFINE A == SUBSET (1 .. n)
           B == {T \cup {n + 1} : T \in A}
           f == [T \in A |-> T \cup {n + 1}]
<1>1. SUBSET (1 .. n + 1) = A \cup B
  <2>1. ASSUME NEW T \in SUBSET (1 .. n + 1) PROVE T \in A \cup B
    <3>1. CASE n + 1 \in T
      <4>1. T = (T \ {n + 1}) \cup {n + 1}
        BY <3>1
      <4>2. T \ {n + 1} \in A
        OBVIOUS
      <4> QED
        BY <4>1, <4>2
    <3>2. CASE n + 1 \notin T
      BY <3>2
    <3> QED
      BY <3>1, <3>2
  <2>2. A \subseteq SUBSET (1 .. n + 1)
    OBVIOUS
  <2>3. ASSUME NEW U \in B PROVE U \in SUBSET (1 .. n + 1)
    <3>1. PICK T \in A : U = T \cup {n + 1}
      OBVIOUS
    <3> QED
      BY <3>1
  <2> HIDE DEF A, B
  <2> QED
    BY <2>1, <2>2, <2>3, Zenon
<1>2. A \cap B = {}
  OBVIOUS
<1>3. f \in Bijection(A, B)
  <2>1. f \in [A -> B]
    OBVIOUS
  <2>2. ASSUME NEW T \in A, NEW U \in A, f[T] = f[U] PROVE T = U
    <3>1. n + 1 \notin T /\ n + 1 \notin U
      OBVIOUS
    <3>2. T = f[T] \ {n + 1} /\ U = f[U] \ {n + 1}
      BY <3>1
    <3> QED
      BY <3>2, <2>2
  <2>3. ASSUME NEW t \in B PROVE \E s \in A : f[s] = t
    OBVIOUS
  <2> HIDE DEF f
  <2> QED
    BY <2>1, <2>2, <2>3, Zenon DEF Bijection, Injection, Surjection, IsInjective
<1>4. IsFiniteSet(A) /\ Cardinality(A) = 2 ^ n
  BY Subsets
<1> HIDE DEF A, B, f
<1>5. IsFiniteSet(B) /\ Cardinality(B) = 2 ^ n
  BY <1>3, <1>4, FS_Bijection DEF ExistsBijection
<1>6. Cardinality(A \cup B) = 2 ^ n + 2 ^ n - Cardinality({})
  BY <1>2, <1>4, <1>5, FS_Union
<1>7. Cardinality(SUBSET (1 .. n + 1)) = 2 ^ (n + 1)
  BY Subsets
<1> QED
  BY <1>1, <1>6, <1>7, FS_EmptySet, PowerType

\* Powers multiply.
LEMMA PowerSum ==
    ASSUME NEW a \in Nat, NEW b \in Nat
    PROVE  2 ^ (a + b) = 2 ^ a * 2 ^ b
<1> DEFINE G == {k \in Nat : 2 ^ (a + k) = 2 ^ a * 2 ^ k}
<1>1. 0 \in G
  <2>1. 2 ^ 0 = 1 /\ a + 0 = a /\ 2 ^ a \in Nat
    BY PowerType
  <2> QED
    BY <2>1
<1>2. ASSUME NEW k \in 0 .. b - 1, k \in G PROVE k + 1 \in G
  <2>1. PICK p \in Nat, q \in Nat, r \in Nat : p = 2 ^ a /\ q = 2 ^ k /\ r = 2 ^ (a + k)
    BY PowerType
  <2>2. 2 ^ (k + 1) = 2 * q /\ 2 ^ ((a + k) + 1) = 2 * r
    BY <2>1, PowerNext
  <2>3. r = p * q
    BY <1>2, <2>1
  <2>4. 2 * r = p * (2 * q)
    BY <2>3
  <2>5. a + (k + 1) = (a + k) + 1
    OBVIOUS
  <2>6. 2 ^ (a + (k + 1)) = 2 ^ a * 2 ^ (k + 1)
    BY <2>1, <2>2, <2>4, <2>5
  <2> QED
    BY <2>6
<1> HIDE DEF G
<1>3. \A k \in 0 .. b : k \in G
  BY <1>1, <1>2, Induction
<1> QED
  BY <1>3 DEF G

\* Powers grow.
LEMMA PowerGrows ==
    ASSUME NEW a \in Nat, NEW b \in Nat, a <= b
    PROVE  2 ^ a <= 2 ^ b
<1>1. PICK c \in Nat : b = a + c
  BY b - a \in Nat
<1>2. PICK p \in Nat \ {0}, q \in Nat \ {0} : p = 2 ^ a /\ q = 2 ^ c
  BY PowerType
<1>3. 2 ^ b = p * q
  BY <1>1, <1>2, PowerSum
<1>4. p * 1 <= p * q
  OBVIOUS
<1> QED
  BY <1>2, <1>3, <1>4

LEMMA PowerAbove ==
    ASSUME NEW n \in Nat
    PROVE  n < 2 ^ n
<1> DEFINE G == {j \in Nat : j < 2 ^ j}
<1>1. 0 \in G
  <2>1. 2 ^ 0 = 1
    OBVIOUS
  <2> QED
    BY <2>1
<1>2. ASSUME NEW j \in 0 .. n - 1, j \in G PROVE j + 1 \in G
  <2>1. PICK p \in Nat : p = 2 ^ j /\ 2 ^ (j + 1) = 2 * p
    BY PowerType, PowerNext
  <2>2. j < p
    BY <1>2, <2>1
  <2> QED
    BY <2>1, <2>2
<1>3. \A j \in 0 .. n - 1 : j \in G => j + 1 \in G
  BY <1>2
<1> HIDE DEF G
<1>4. n \in G
  BY <1>1, <1>3, Induction
<1> QED
  BY <1>4 DEF G

\* Quotient and remainder are what they are.
LEMMA DivMod ==
    ASSUME NEW m \in Int, NEW p \in Nat \ {0}, NEW q \in Int, NEW r \in 0 .. p - 1, m = q * p + r
    PROVE  m \div p = q /\ m % p = r
<1>1. PICK t \in Int, s \in Int : t = m \div p /\ s = m % p
  OBVIOUS
<1>2. m = p * t + s /\ 0 <= s /\ s < p
  BY <1>1
<1>3. ~(q + 1 <= t)
  <2> SUFFICES ASSUME q + 1 <= t PROVE FALSE
    OBVIOUS
  <2>1. (q + 1) * p <= t * p
    OBVIOUS
  <2> QED
    BY <1>2, <2>1
<1>4. ~(t + 1 <= q)
  <2> SUFFICES ASSUME t + 1 <= q PROVE FALSE
    OBVIOUS
  <2>1. (t + 1) * p <= q * p
    OBVIOUS
  <2> QED
    BY <1>2, <2>1
<1>5. t = q
  BY <1>3, <1>4
<1> QED
  BY <1>1, <1>2, <1>5

\* What a quotient is.
LEMMA Quotient ==
    ASSUME NEW x \in Nat, NEW p \in Nat \ {0}
    PROVE  /\ x \div p \in Nat
           /\ p * (x \div p) <= x
           /\ x < p * (x \div p) + p
<1>1. PICK t \in Int, s \in Int : t = x \div p /\ s = x % p
  OBVIOUS
<1>2. x = p * t + s /\ 0 <= s /\ s < p
  BY <1>1
<1>3. t >= 0
  <2> SUFFICES ASSUME t <= -1 PROVE FALSE
    OBVIOUS
  <2>1. p * t <= p * (-1)
    OBVIOUS
  <2> QED
    BY <1>2, <2>1
<1> QED
  BY <1>1, <1>2, <1>3

\* A quotient between bounds.
LEMMA QuotientIs ==
    ASSUME NEW x \in Nat, NEW p \in Nat \ {0}, NEW q \in Nat, q * p <= x, x < q * p + p
    PROVE  x \div p = q
<1>1. PICK r \in 0 .. p - 1 : x = q * p + r
  <2>1. q * p \in Nat
    OBVIOUS
  <2>2. x - q * p \in 0 .. p - 1
    BY <2>1
  <2>3. x = q * p + (x - q * p)
    BY <2>1
  <2> QED
    BY <2>2, <2>3
<1> QED
  BY <1>1, DivMod

\* Dividing twice is dividing by the product.
LEMMA DivTwice ==
    ASSUME NEW x \in Nat, NEW p \in Nat \ {0}, NEW r \in Nat \ {0}
    PROVE  (x \div p) \div r = x \div (p * r)
<1>1. PICK t \in Nat : t = x \div p /\ p * t <= x /\ x < p * t + p
  BY Quotient
<1>2. PICK s \in Nat : s = t \div r /\ r * s <= t /\ t < r * s + r
  BY Quotient
<1>3. p * r \in Nat \ {0} /\ s * (p * r) \in Nat
  OBVIOUS
<1>4. s * (p * r) <= x
  <2>1. p * (r * s) <= p * t
    BY <1>2
  <2>2. p * (r * s) = s * (p * r)
    OBVIOUS
  <2> QED
    BY <1>1, <2>1, <2>2
<1>5. x < s * (p * r) + p * r
  <2>1. t + 1 <= r * s + r
    BY <1>2
  <2>2. p * (t + 1) <= p * (r * s + r)
    BY <2>1
  <2>3. p * (t + 1) = p * t + p /\ p * (r * s + r) = s * (p * r) + p * r
    OBVIOUS
  <2> QED
    BY <1>1, <2>2, <2>3
<1>6. x \div (p * r) = s
  BY <1>3, <1>4, <1>5, QuotientIs
<1> QED
  BY <1>1, <1>2, <1>6

\* Odd and even alternate.
LEMMA Parity ==
    ASSUME NEW f \in Nat
    PROVE  /\ f % 2 \in {0, 1}
           /\ f % 2 = 0 => (f + 1) % 2 = 1
           /\ f % 2 = 1 => (f + 1) % 2 = 0
<1>1. PICK q \in Int, b \in Int : q = f \div 2 /\ b = f % 2
  OBVIOUS
<1>2. f = 2 * q + b /\ 0 <= b /\ b < 2
  BY <1>1
<1>3. b = 0 \/ b = 1
  BY <1>2
<1>4. CASE b = 0
  <2>1. f + 1 = q * 2 + 1
    BY <1>2, <1>4
  <2>2. (f + 1) % 2 = 1
    BY <2>1, DivMod
  <2> QED
    BY <1>1, <1>4, <2>2
<1>5. CASE b = 1
  <2>1. f + 1 = (q + 1) * 2 + 0
    BY <1>2, <1>5
  <2>2. (f + 1) % 2 = 0
    BY <2>1, DivMod
  <2> QED
    BY <1>1, <1>5, <2>2
<1> QED
  BY <1>3, <1>4, <1>5
=============================================================================
