--------------------------- MODULE AmortizedProofs ---------------------------
(***************************************************************************)
(* Amortized for every number of updates and levels, every sequence of     *)
(* calls in Calls, whose keywords a merge reads back as they were          *)
(* (ReadBack): of at most 9 bytes, or 10 and never deleted under.          *)
(* The updates filed are 1 .. updateCounter; Prefix(j) of them lie *)
(* in levels from j on, so that the blocks of the levels are consecutive   *)
(* intervals and a merge joins the lowest ones.                            *)
(***************************************************************************)
EXTENDS Amortized, NumberLemmas

\* The updates that a binary counter of value n keeps in levels from j on.
Prefix(n, j) == (n \div 2 ^ j) * 2 ^ j

\* Block, for a counter of value n.
BlockAt(n, i) == Prefix(n, i + 1) + 1 .. Prefix(n, i)

LEMMA PrefixNext ==
    ASSUME NEW n \in Nat, NEW j \in Nat
    PROVE  /\ Prefix(n, j) \in 0 .. n
           /\ Bit(n, j) \in {0, 1}
           /\ Prefix(n, j) = Prefix(n, j + 1) + Bit(n, j) * 2 ^ j
<1>1. PICK p \in Nat \ {0} : p = 2 ^ j
  BY PowerType
<1>2. 2 ^ (j + 1) = p * 2
  BY <1>1, PowerNext
<1>3. PICK t \in Nat : t = n \div p /\ p * t <= n
  BY Quotient
<1>4. PICK s \in Nat : s = t \div 2 /\ 2 * s <= t /\ t < 2 * s + 2
  BY Quotient
<1>5. n \div 2 ^ (j + 1) = s
  <2>1. (n \div p) \div 2 = n \div (p * 2)
    BY DivTwice
  <2> QED
    BY <1>2, <1>3, <1>4, <2>1
<1>6. PICK b \in {0, 1} : b = t % 2 /\ t = 2 * s + b
  <2>1. PICK b \in {0, 1} : t = 2 * s + b
    BY <1>4
  <2>2. t = s * 2 + b /\ b \in 0 .. 2 - 1
    BY <2>1
  <2>3. b = t % 2
    BY <2>2, DivMod
  <2> QED
    BY <2>1, <2>3
<1>7. Bit(n, j) = b
  BY <1>1, <1>3, <1>6 DEF Bit
<1>8. Prefix(n, j) = t * p /\ Prefix(n, j + 1) = s * (p * 2)
  BY <1>1, <1>2, <1>3, <1>5 DEF Prefix
<1>9. t * p = s * (p * 2) + b * p /\ t * p = p * t /\ t * p \in Nat
  BY <1>6
<1> QED
  BY <1>1, <1>3, <1>7, <1>8, <1>9

LEMMA PrefixType ==
    ASSUME NEW n \in Nat, NEW j \in Nat
    PROVE  Prefix(n, j) \in Nat /\ Prefix(n, j) <= n /\ Bit(n, j) \in {0, 1}
<1>1. Prefix(n, j) \in 0 .. n /\ Bit(n, j) \in {0, 1}
  BY PrefixNext, Zenon
<1> QED
  BY <1>1

LEMMA PrefixEnds ==
    ASSUME NEW n \in Nat
    PROVE  /\ Prefix(n, 0) = n
           /\ \A m \in Nat : n < 2 ^ m => Prefix(n, m) = 0
<1>1. 2 ^ 0 = 1 /\ n * 1 <= n /\ n < n * 1 + 1
  OBVIOUS
<1>2. n \div 2 ^ 0 = n
  BY <1>1, QuotientIs
<1>3. ASSUME NEW m \in Nat, n < 2 ^ m PROVE Prefix(n, m) = 0
  <2>1. PICK p \in Nat \ {0} : p = 2 ^ m
    BY PowerType
  <2>2. 0 * p <= n /\ n < 0 * p + p
    BY <1>3, <2>1
  <2>3. n \div p = 0
    BY <2>2, QuotientIs
  <2> QED
    BY <2>1, <2>3 DEF Prefix
<1> QED
  BY <1>1, <1>2, <1>3 DEF Prefix

LEMMA PrefixFalls ==
    ASSUME NEW n \in Nat, NEW a \in Nat, NEW b \in Nat, a <= b
    PROVE  Prefix(n, b) <= Prefix(n, a)
<1> DEFINE G == {k \in Nat : Prefix(n, a + k) <= Prefix(n, a)}
<1>1. 0 \in G
  BY PrefixType
<1>2. ASSUME NEW k \in 0 .. (b - a) - 1, k \in G PROVE k + 1 \in G
  <2>1. PICK j \in Nat : j = a + k
    OBVIOUS
  <2>2. PICK p \in Nat : p = 2 ^ j
    BY PowerType
  <2>3. Prefix(n, j) = Prefix(n, j + 1) + Bit(n, j) * p /\ Bit(n, j) \in {0, 1}
    BY <2>2, PrefixNext
  <2>4. Prefix(n, j) \in Nat /\ Prefix(n, j + 1) \in Nat /\ Prefix(n, a) \in Nat
    <3>1. j + 1 \in Nat
      OBVIOUS
    <3> QED
      BY <3>1, PrefixType, Zenon
  <2>5. Prefix(n, j + 1) <= Prefix(n, j)
    BY <2>3, <2>4
  <2>6. a + (k + 1) = j + 1 /\ Prefix(n, j) <= Prefix(n, a)
    BY <1>2, <2>1
  <2> QED
    BY <2>4, <2>5, <2>6
<1>3. \A k \in 0 .. (b - a) - 1 : k \in G => k + 1 \in G
  BY <1>2
<1> HIDE DEF G
<1>4. \A k \in 0 .. b - a : k \in G
  BY <1>1, <1>3, Induction
<1>5. b - a \in G
  BY <1>4
<1> QED
  BY <1>5 DEF G

\* The CHOOSE of RightmostZero has a candidate.
LEMMA RightmostFact ==
    ASSUME NEW n \in Nat
    PROVE  /\ RightmostZero(n) \in 0 .. n
           /\ Bit(n, RightmostZero(n)) = 0
           /\ \A j \in 0 .. RightmostZero(n) - 1 : Bit(n, j) = 1
<1> DEFINE T == {k \in 0 .. n : Bit(n, k) = 0}
<1>1. n < 2 ^ n
  BY PowerAbove
<1>2. n \in T
  <2>1. Prefix(n, n) = 0
    BY <1>1, PrefixEnds
  <2>2. PICK p \in Nat \ {0} : p = 2 ^ n
    BY PowerType
  <2>3. /\ Prefix(n, n) = Prefix(n, n + 1) + Bit(n, n) * p
        /\ Bit(n, n) \in {0, 1} /\ Prefix(n, n + 1) \in Nat
    BY <2>2, PrefixNext
  <2>4. Bit(n, n) = 0
    BY <2>1, <2>3
  <2> QED
    BY <2>4
<1>3. PICK k \in T : \A y \in T : k <= y
  <2>1. T \subseteq Nat /\ T # {}
    BY <1>2
  <2> HIDE DEF T
  <2> QED
    BY <2>1, Minimum
<1>4. \A j \in 0 .. k - 1 : Bit(n, j) = 1
  <2> SUFFICES ASSUME NEW j \in 0 .. k - 1 PROVE Bit(n, j) = 1
    OBVIOUS
  <2>1. j \in 0 .. n /\ j \notin T
    BY <1>3
  <2>2. Bit(n, j) \in {0, 1}
    BY PrefixType
  <2> QED
    BY <2>1, <2>2
<1>5. k \in 0 .. n /\ Bit(n, k) = 0
  OBVIOUS
<1>6. \E x \in 0 .. n : Bit(n, x) = 0 /\ \A j \in 0 .. x - 1 : Bit(n, j) = 1
  BY <1>4, <1>5
<1> QED
  BY <1>6, Zenon DEF RightmostZero

\* What a counter does when it is incremented: the ones below its rightmost
\* zero become zeros, that zero a one, and the rest stays.
LEMMA Increment ==
    ASSUME NEW n \in Nat, NEW r \in Nat, r = RightmostZero(n)
    PROVE  /\ 2 ^ r <= n + 1
           /\ Prefix(n, r + 1) = Prefix(n, r)
           /\ \A j \in 0 .. r : Prefix(n + 1, j) = n + 1
           /\ \A j \in Nat : j > r => Prefix(n + 1, j) = Prefix(n, j)
<1>1. Bit(n, r) = 0 /\ \A j \in 0 .. r - 1 : Bit(n, j) = 1
  BY RightmostFact
<1>2. \A k \in 0 .. r : n + 1 = Prefix(n, k) + 2 ^ k
  <2> DEFINE G == {k \in Nat : n + 1 = Prefix(n, k) + 2 ^ k}
  <2>1. 0 \in G
    <3>1. 2 ^ 0 = 1 /\ Prefix(n, 0) = n
      BY PrefixEnds
    <3> QED
      BY <3>1
  <2>2. ASSUME NEW k \in 0 .. r - 1, k \in G PROVE k + 1 \in G
    <3>1. PICK p \in Nat : p = 2 ^ k /\ 2 ^ (k + 1) = 2 * p
      BY PowerType, PowerNext
    <3>2. Prefix(n, k) = Prefix(n, k + 1) + Bit(n, k) * p
      BY <3>1, PrefixNext
    <3>3. Bit(n, k) = 1
      BY <1>1
    <3>4. n + 1 = Prefix(n, k) + p
      BY <2>2, <3>1
    <3>5. Prefix(n, k + 1) \in Nat
      <4>1. k + 1 \in Nat
        OBVIOUS
      <4> QED
        BY <4>1, PrefixType, Zenon
    <3> QED
      BY <3>1, <3>2, <3>3, <3>4, <3>5
  <2>3. \A k \in 0 .. r - 1 : k \in G => k + 1 \in G
    BY <2>2
  <2> HIDE DEF G
  <2>4. \A k \in 0 .. r : k \in G
    BY <2>1, <2>3, Induction
  <2> QED
    BY <2>4 DEF G
<1>p. PICK p \in Nat \ {0} : p = 2 ^ r /\ 2 ^ (r + 1) = 2 * p
  BY PowerType, PowerNext
<1>3. Prefix(n, r + 1) = Prefix(n, r) /\ Prefix(n, r) \in Nat
  <2>1. Prefix(n, r) = Prefix(n, r + 1) + 0 * p
    BY <1>1, <1>p, PrefixNext
  <2>2. r + 1 \in Nat
    OBVIOUS
  <2>3. Prefix(n, r + 1) \in Nat
    BY <2>2, PrefixType, Zenon
  <2>4. Prefix(n, r) \in Nat
    BY PrefixType
  <2> QED
    BY <2>1, <2>3, <2>4
<1>4. 2 ^ r <= n + 1
  <2>1. n + 1 = Prefix(n, r) + p
    BY <1>2, <1>p
  <2> QED
    BY <1>3, <1>p, <2>1
<1>5. ASSUME NEW j \in 0 .. r PROVE Prefix(n + 1, j) = n + 1
  <2>1. PICK q \in Nat \ {0} : q = 2 ^ j
    BY PowerType
  <2>2. PICK t \in Nat : t = n \div q
    BY Quotient
  <2>3. n + 1 = t * q + q
    BY <1>2, <2>1, <2>2 DEF Prefix
  <2>4. (t + 1) * q = n + 1
    BY <2>3
  <2>5. n + 1 \in Nat /\ (t + 1) \in Nat /\ (t + 1) * q <= n + 1 /\ n + 1 < (t + 1) * q + q
    BY <2>4
  <2>6. (n + 1) \div q = t + 1
    BY <2>5, QuotientIs
  <2> QED
    BY <2>1, <2>4, <2>6 DEF Prefix
<1>6. (n + 1) \div (2 * p) = n \div (2 * p)
  <2>1. PICK q \in Nat \ {0} : q = 2 * p
    OBVIOUS
  <2>2. PICK t \in Nat : t = n \div q
    BY Quotient
  <2>3. n + 1 = t * q + p
    <3>1. n + 1 = Prefix(n, r + 1) + p
      BY <1>2, <1>3, <1>p
    <3>2. Prefix(n, r + 1) = t * q
      BY <1>p, <2>1, <2>2 DEF Prefix
    <3> QED
      BY <3>1, <3>2
  <2>4. n + 1 \in Nat /\ t * q <= n + 1 /\ n + 1 < t * q + q
    <3>1. t * q \in Nat /\ p < q
      BY <2>1
    <3> QED
      BY <2>3, <3>1
  <2>5. (n + 1) \div q = t
    BY <2>4, QuotientIs
  <2> QED
    BY <2>1, <2>2, <2>5
<1>7. ASSUME NEW j \in Nat, j > r PROVE Prefix(n + 1, j) = Prefix(n, j)
  <2>1. PICK k \in Nat : j = (r + 1) + k
    <3>1. j - (r + 1) \in Nat /\ j = (r + 1) + (j - (r + 1))
      BY <1>7
    <3> QED
      BY <3>1
  <2>2. PICK q \in Nat \ {0} : q = 2 ^ k
    BY PowerType
  <2>3. 2 ^ j = (2 * p) * q
    <3>1. 2 ^ ((r + 1) + k) = 2 ^ (r + 1) * 2 ^ k
      BY PowerSum, r + 1 \in Nat
    <3> QED
      BY <1>p, <2>1, <2>2, <3>1
  <2>4. PICK d \in Nat \ {0} : d = 2 * p
    OBVIOUS
  <2>5. n \div (d * q) = (n \div d) \div q
    BY DivTwice
  <2>6. (n + 1) \div (d * q) = ((n + 1) \div d) \div q
    BY DivTwice, n + 1 \in Nat
  <2>7. (n + 1) \div 2 ^ j = n \div 2 ^ j
    BY <1>6, <2>3, <2>4, <2>5, <2>6
  <2> QED
    BY <2>7 DEF Prefix
<1> QED
  BY <1>3, <1>4, <1>5, <1>7

LEMMA BlockIs ==
    ASSUME NEW n \in Nat, NEW i \in Nat
    PROVE  /\ Bit(n, i) = 1 <=> BlockAt(n, i) # {}
           /\ BlockAt(n, i) = IF Bit(n, i) = 1
                              THEN Prefix(n, i + 1) + 1 .. Prefix(n, i + 1) + 2 ^ i ELSE {}
           /\ BlockAt(n, i) \subseteq 1 .. n
<1>1. PICK p \in Nat \ {0} : p = 2 ^ i
  BY PowerType
<1>2. i + 1 \in Nat
  OBVIOUS
<1>3. PICK a \in Nat, b \in Nat : a = Prefix(n, i) /\ b = Prefix(n, i + 1) /\ a <= n
  BY <1>2, PrefixType, Zenon
<1>4. a = b + Bit(n, i) * p /\ Bit(n, i) \in {0, 1}
  BY <1>1, <1>3, PrefixNext
<1>5. CASE Bit(n, i) = 1
  <2>1. a = b + p
    BY <1>4, <1>5
  <2> QED
    BY <1>1, <1>3, <1>5, <2>1 DEF BlockAt
<1>6. CASE Bit(n, i) = 0
  <2>1. a = b
    BY <1>4, <1>6
  <2> QED
    BY <1>1, <1>3, <1>6, <2>1 DEF BlockAt
<1> QED
  BY <1>4, <1>5, <1>6

\* An update belongs to one level.
LEMMA BlocksApart ==
    ASSUME NEW n \in Nat, NEW i \in Nat, NEW k \in Nat, NEW v,
           v \in BlockAt(n, i), v \in BlockAt(n, k)
    PROVE  i = k
<1>1. ASSUME NEW a \in Nat, NEW b \in Nat, a < b, v \in BlockAt(n, a), v \in BlockAt(n, b)
      PROVE  FALSE
  <2>1. a + 1 \in Nat
    OBVIOUS
  <2>2. Prefix(n, b) <= Prefix(n, a + 1)
    BY <1>1, <2>1, PrefixFalls
  <2>3. PICK c \in Nat, d \in Nat : c = Prefix(n, b) /\ d = Prefix(n, a + 1)
    BY <2>1, PrefixType, Zenon
  <2>4. v \in Int /\ v > d /\ v <= c
    <3>1. b + 1 \in Nat
      OBVIOUS
    <3>2. PICK e \in Nat, f \in Nat : e = Prefix(n, b + 1) /\ f = Prefix(n, a)
      BY <3>1, PrefixType, Zenon
    <3>3. v \in d + 1 .. f /\ v \in e + 1 .. c
      BY <1>1, <2>3, <3>2 DEF BlockAt
    <3> QED
      BY <3>3
  <2> QED
    BY <2>2, <2>3, <2>4
<1>2. ~(i < k) /\ ~(k < i)
  BY <1>1
<1> QED
  BY <1>2

\* And to a level below m, if there are fewer than 2^m.
LEMMA BlocksCover ==
    ASSUME NEW n \in Nat, NEW m \in Nat, n < 2 ^ m, NEW v \in 1 .. n
    PROVE  \E i \in 0 .. m - 1 : v \in BlockAt(n, i)
<1> DEFINE T == {k \in 0 .. m : Prefix(n, k) < v}
<1>1. m \in T /\ 0 \notin T
  BY PrefixEnds
<1>2. T \subseteq Nat /\ T # {}
  BY <1>1
<1>3. PICK k \in T : \A y \in T : k <= y
  <2> HIDE DEF T
  <2> QED
    BY <1>2, Minimum
<1>4. k \in 1 .. m /\ Prefix(n, k) < v
  BY <1>1
<1>5. PICK i \in 0 .. m - 1 : k = i + 1
  BY <1>4
<1>6. i \notin T /\ i \in 0 .. m
  BY <1>3, <1>5
<1>7. ~(Prefix(n, i) < v)
  BY <1>6
<1>8. i \in Nat /\ k \in Nat
  BY <1>5
<1>9. Prefix(n, i) \in Nat /\ Prefix(n, k) \in Nat
  BY <1>8, PrefixType, Zenon
<1>10. v \in Prefix(n, k) + 1 .. Prefix(n, i)
  BY <1>4, <1>7, <1>9
<1> QED
  BY <1>5, <1>10 DEF BlockAt

\* The merge: the blocks below the rightmost zero and the new update are the
\* block that the incremented counter gives to that level.
LEMMA BlocksMerge ==
    ASSUME NEW n \in Nat, NEW r \in Nat, r = RightmostZero(n)
    PROVE  /\ BlockAt(n, r) = {}
           /\ \A j \in 0 .. r - 1 : BlockAt(n, j) \subseteq BlockAt(n + 1, r)
           /\ \A j \in 0 .. r - 1 : BlockAt(n + 1, j) = {}
           /\ n + 1 \in BlockAt(n + 1, r)
           /\ \A v \in BlockAt(n + 1, r) :
                 v = n + 1 \/ \E j \in 0 .. r - 1 : v \in BlockAt(n, j)
           /\ \A j \in Nat : j > r => BlockAt(n + 1, j) = BlockAt(n, j)
<1>0. n + 1 \in Nat /\ r + 1 \in Nat
  OBVIOUS
<1>1. PICK a \in Nat : a = Prefix(n, r) /\ a = Prefix(n, r + 1) /\ a = Prefix(n + 1, r + 1)
                       /\ a <= n
  <2>1. Prefix(n, r + 1) = Prefix(n, r)
    BY Increment
  <2>2. Prefix(n + 1, r + 1) = Prefix(n, r + 1)
    <3>1. r + 1 > r
      OBVIOUS
    <3> QED
      BY <1>0, <3>1, Increment
  <2>3. Prefix(n, r) \in Nat /\ Prefix(n, r) <= n
    BY PrefixType
  <2> QED
    BY <2>1, <2>2, <2>3
<1>2. \A j \in 0 .. r : Prefix(n + 1, j) = n + 1
  BY Increment
<1>3. BlockAt(n, r) = {}
  BY <1>1 DEF BlockAt
<1>4. BlockAt(n + 1, r) = a + 1 .. n + 1
  BY <1>1, <1>2 DEF BlockAt
<1>5. ASSUME NEW j \in 0 .. r - 1
      PROVE  BlockAt(n, j) \subseteq BlockAt(n + 1, r) /\ BlockAt(n + 1, j) = {}
  <2>1. j \in Nat /\ j + 1 \in Nat /\ j \in 0 .. r /\ j + 1 \in 0 .. r
    OBVIOUS
  <2>2. Prefix(n, r) <= Prefix(n, j + 1)
    BY <2>1, PrefixFalls
  <2>3. PICK b \in Nat, c \in Nat : b = Prefix(n, j + 1) /\ c = Prefix(n, j) /\ c <= n
    BY <2>1, PrefixType, Zenon
  <2>4. BlockAt(n, j) = b + 1 .. c
    BY <2>3 DEF BlockAt
  <2>5. BlockAt(n + 1, j) = (n + 1) + 1 .. n + 1
    BY <1>2, <2>1 DEF BlockAt
  <2>6. a <= b
    BY <1>1, <2>2, <2>3
  <2>7. b + 1 .. c \subseteq a + 1 .. n + 1
    BY <2>3, <2>6
  <2>8. (n + 1) + 1 .. n + 1 = {}
    OBVIOUS
  <2> QED
    BY <1>4, <2>4, <2>5, <2>7, <2>8, Zenon
<1>6. n + 1 \in BlockAt(n + 1, r)
  BY <1>1, <1>4
<1>7. ASSUME NEW v \in BlockAt(n + 1, r), v # n + 1
      PROVE  \E j \in 0 .. r - 1 : v \in BlockAt(n, j)
  <2>1. v \in 1 .. n /\ v > a
    BY <1>1, <1>4, <1>7
  <2>2. PICK m \in Nat : n < 2 ^ m
    BY PowerAbove
  <2>3. PICK i \in 0 .. m - 1 : v \in BlockAt(n, i)
    BY <2>1, <2>2, BlocksCover
  <2>4. ~(i >= r)
    <3> SUFFICES ASSUME i >= r PROVE FALSE
      OBVIOUS
    <3>1. Prefix(n, i) <= Prefix(n, r)
      BY PrefixFalls, i \in Nat
    <3>2. PICK b \in Nat, c \in Nat : b = Prefix(n, i + 1) /\ c = Prefix(n, i)
      BY PrefixType, i \in Nat, i + 1 \in Nat, Zenon
    <3>3. v \in b + 1 .. c
      BY <2>3, <3>2 DEF BlockAt
    <3> QED
      BY <1>1, <2>1, <3>1, <3>2, <3>3
  <2> QED
    BY <2>3, <2>4
<1>8. ASSUME NEW j \in Nat, j > r PROVE BlockAt(n + 1, j) = BlockAt(n, j)
  <2>1. Prefix(n + 1, j) = Prefix(n, j)
    BY <1>8, Increment
  <2>2. j + 1 \in Nat /\ j + 1 > r
    BY <1>8
  <2>3. Prefix(n + 1, j + 1) = Prefix(n, j + 1)
    BY <2>2, Increment
  <2> QED
    BY <2>1, <2>3 DEF BlockAt
<1> QED
  BY <1>3, <1>5, <1>6, <1>7, <1>8

-----------------------------------------------------------------------------
(* The inductive invariant.                                                *)

\* A client level m holds updates of the block B, each in one place of the
\* vector of its keyword; log is what the updates were.
Vectors(m, log, B) ==
    /\ DOMAIN m \subseteq Keyword
    /\ \A w \in DOMAIN m :
          /\ m[w] \in Seq(B)
          /\ \A p \in DOMAIN m[w] : log[m[w][p]].kw = w
          /\ \A p, q \in DOMAIN m[w] : m[w][p] = m[w][q] => p = q

\* A server level s holds updates of the block B, each under one address: the
\* key y, its keyword and a position, and there is no position missing.
Files(s, log, B, y) ==
    /\ \A a \in DOMAIN s :
          /\ a = <<y, a[2], a[3]>>
          /\ a[2] \in Keyword
          /\ a[3] \in Nat
          /\ \A q \in 0 .. a[3] : <<y, a[2], q>> \in DOMAIN s
          /\ s[a] \in B
          /\ log[s[a]].kw = a[2]
    /\ \A a, b \in DOMAIN s : s[a] = s[b] => a = b

Here(i) == BlockAt(updateCounter, i)

Numbers ==
    /\ updateCounter \in 0 .. MaxUpdates
    /\ calls \in Seq(Calls)
    /\ Len(calls) = updateCounter
    /\ searched \subseteq Keyword
    /\ finalRes \subseteq Ind

Tables ==
    /\ DOMAIN data = Local
    /\ DOMAIN server = Remote
    /\ DOMAIN keys = Remote
    /\ DOMAIN exist = Remote
    /\ \A i \in Remote :
          /\ keys[i] \in KeyVal \cup {NoKey}
          /\ exist[i] \in BOOLEAN
          /\ exist[i] <=> Here(i) # {}
          /\ exist[i] <=> keys[i] # NoKey
          /\ exist[i] <=> DOMAIN server[i] # {}

AInv ==
    /\ Numbers
    /\ Tables
    /\ \A i \in Local : Vectors(data[i], calls, Here(i))
    /\ \A i \in Remote : Files(server[i], calls, Here(i), keys[i])

\* Nothing of the block is missing.
InVectors(m, B) == \A v \in B : \E w \in DOMAIN m : \E p \in DOMAIN m[w] : m[w][p] = v

InFiles(s, B) == \A v \in B : \E a \in DOMAIN s : s[a] = v

\* The keywords whose updates can get lost, and the updates of the others.
Risked == IF UpdateAfterSearch THEN searched ELSE {}

Spared(B, log, R) == {v \in B : log[v].kw \notin R}

\* No level has the empty vector of a keyword before its first search, hence
\* no update is lost but of a keyword at risk.
Whole ==
    /\ \A i \in Local : InVectors(data[i], Spared(Here(i), calls, Risked))
    /\ \A i \in Remote : InFiles(server[i], Spared(Here(i), calls, Risked))
    /\ \A i \in Local : \A w \in DOMAIN data[i] : data[i][w] = <<>> => w \in searched

-----------------------------------------------------------------------------
(* The copies of the updates.                                              *)

LEMMA Types ==
    /\ LocalSize \in Nat \ {0} /\ Levels \in Nat /\ MaxUpdates \in Nat
    /\ Level \subseteq Nat
    /\ \A i \in Remote : i \notin Local
BY AmortizedAssumption DEF Level, Local, Remote

LEMMA CounterType ==
    ASSUME AInv
    PROVE  updateCounter \in Nat /\ updateCounter <= MaxUpdates
<1>1. MaxUpdates \in Nat
  BY AmortizedAssumption
<1>2. updateCounter \in 0 .. MaxUpdates
  BY DEF AInv, Numbers
<1> QED
  BY <1>1, <1>2

LEMMA LocalCopy ==
    ASSUME NEW i \in Local, NEW c
    PROVE  c \in Copies(i) <=>
              \E w \in DOMAIN data[i] : \E p \in DOMAIN data[i][w] : c = <<i, w, p>>
BY DEF Copies

LEMMA RemoteCopy ==
    ASSUME NEW i \in Remote, NEW c
    PROVE  c \in Copies(i) <=> \E a \in DOMAIN server[i] : c = <<i, a>>
BY Types DEF Copies, getAllData

\* A merge reads back the keyword of the call.
LEMMA ReadBack ==
    ASSUME AInv, NEW u \in 1 .. updateCounter
    PROVE  curKeyword(calls[u]) = calls[u].kw
<1>1. calls[u] \in Calls
  BY DEF AInv, Numbers
<1> QED
  BY <1>1 DEF Calls, curKeyword, OpByte

\* A copy lies in the block of its level, under its keyword, and is the only
\* one of its update there.
LEMMA Held ==
    ASSUME AInv, NEW i \in Level
    PROVE  /\ \A c \in Copies(i) :
                 /\ c[1] = i
                 /\ Value(c) \in Here(i)
                 /\ FiledUnder(c) = calls[Value(c)].kw
                 /\ FiledUnder(c) \in Keyword
           /\ \A c, d \in Copies(i) : Value(c) = Value(d) => c = d
<1>1. CASE i \in Local
  <2>m. PICK m : m = data[i] /\ Vectors(m, calls, Here(i))
    BY <1>1 DEF AInv
  <2>1. ASSUME NEW c \in Copies(i)
        PROVE  \E w \in DOMAIN m : \E p \in DOMAIN m[w] :
                  /\ c = <<i, w, p>> /\ c[1] = i /\ Value(c) = m[w][p] /\ FiledUnder(c) = w
    <3>1. PICK w \in DOMAIN m : \E p \in DOMAIN m[w] : c = <<i, w, p>>
      BY <1>1, <2>m, LocalCopy
    <3>2. PICK p \in DOMAIN m[w] : c = <<i, w, p>>
      BY <3>1
    <3>3. c[1] = i /\ c[2] = w /\ c[3] = p
      BY <3>2
    <3>4. Value(c) = m[w][p] /\ FiledUnder(c) = w
      BY <1>1, <2>m, <3>3 DEF Value, FiledUnder
    <3> QED
      BY <3>2, <3>3, <3>4
  <2>2. ASSUME NEW w \in DOMAIN m, NEW p \in DOMAIN m[w]
        PROVE  m[w][p] \in Here(i) /\ calls[m[w][p]].kw = w /\ w \in Keyword
    <3>1. m[w] \in Seq(Here(i))
      BY <2>m DEF Vectors
    <3> QED
      BY <2>m, <3>1 DEF Vectors
  <2>3. ASSUME NEW c \in Copies(i), NEW d \in Copies(i), Value(c) = Value(d) PROVE c = d
    <3>a. PICK w \in DOMAIN m : \E p \in DOMAIN m[w] : c = <<i, w, p>> /\ Value(c) = m[w][p]
      BY <2>1
    <3>b. PICK v \in DOMAIN m : \E q \in DOMAIN m[v] : d = <<i, v, q>> /\ Value(d) = m[v][q]
      BY <2>1
    <3>1. PICK p \in DOMAIN m[w] : c = <<i, w, p>> /\ Value(c) = m[w][p]
      BY <3>a
    <3>2. PICK q \in DOMAIN m[v] : d = <<i, v, q>> /\ Value(d) = m[v][q]
      BY <3>b
    <3>3. w = v
      <4>1. calls[m[w][p]].kw = w /\ calls[m[v][q]].kw = v
        BY <2>2
      <4>2. m[w][p] = m[v][q]
        BY <2>3, <3>1, <3>2
      <4> QED
        BY <4>1, <4>2
    <3>4. p = q
      BY <2>3, <2>m, <3>1, <3>2, <3>3 DEF Vectors
    <3> QED
      BY <3>1, <3>2, <3>3, <3>4
  <2> QED
    BY <2>1, <2>2, <2>3
<1>2. CASE i \in Remote
  <2>m. PICK s, y : s = server[i] /\ Files(s, calls, Here(i), y)
    BY <1>2 DEF AInv
  <2>1. ASSUME NEW c \in Copies(i)
        PROVE  \E a \in DOMAIN s : c = <<i, a>> /\ c[1] = i /\ Value(c) = s[a]
                                    /\ FiledUnder(c) = calls[s[a]].kw
    <3>1. PICK a \in DOMAIN s : c = <<i, a>>
      BY <1>2, <2>m, RemoteCopy
    <3>2. c[1] = i /\ c[2] = a /\ i \notin Local
      BY <1>2, <3>1, Types
    <3>3. Value(c) = s[a] /\ FiledUnder(c) = curKeyword(calls[s[a]])
      BY <2>m, <3>1, <3>2 DEF Value, FiledUnder
    <3>4. s[a] \in 1 .. updateCounter
      <4>1. s[a] \in Here(i)
        BY <2>m, <3>1 DEF Files
      <4>2. i \in Nat /\ updateCounter \in Nat
        BY <1>2, Types, CounterType
      <4> QED
        BY <4>1, <4>2, BlockIs DEF Here
    <3>5. FiledUnder(c) = calls[s[a]].kw
      BY <3>3, <3>4, ReadBack
    <3> QED
      BY <3>1, <3>2, <3>3, <3>5
  <2>2. \A a \in DOMAIN s : s[a] \in Here(i) /\ calls[s[a]].kw \in Keyword
    BY <2>m DEF Files
  <2>3. \A c, d \in Copies(i) : Value(c) = Value(d) => c = d
    BY <2>1, <2>m DEF Files
  <2> QED
    BY <2>1, <2>2, <2>3
<1> QED
  BY <1>1, <1>2 DEF Level

\* The merge finds each update at most once.
LEMMA MergedFact ==
    ASSUME AInv, NEW r \in Nat, r = RightmostZero(updateCounter)
    PROVE  /\ \A c \in Merged(r) :
                 /\ Value(c) \in 1 .. updateCounter
                 /\ Value(c) \in BlockAt(updateCounter + 1, r)
                 /\ FiledUnder(c) = calls[Value(c)].kw
                 /\ FiledUnder(c) \in Keyword
           /\ \A c, d \in Merged(r) : Value(c) = Value(d) => c = d
<1>n. PICK n \in Nat : n = updateCounter
  BY CounterType
<1>1. \A c \in Merged(r) : \E i \in Level : i < r /\ c \in Copies(i)
  BY DEF Merged
<1>2. ASSUME NEW c \in Merged(r), NEW i \in Level, i < r, c \in Copies(i)
      PROVE  /\ c[1] = i
             /\ Value(c) \in BlockAt(n, i)
             /\ Value(c) \in 1 .. n
             /\ Value(c) \in BlockAt(n + 1, r)
             /\ FiledUnder(c) = calls[Value(c)].kw
             /\ FiledUnder(c) \in Keyword
  <2>1. c[1] = i /\ FiledUnder(c) = calls[Value(c)].kw /\ FiledUnder(c) \in Keyword
    BY <1>2, Held
  <2>2. Value(c) \in BlockAt(n, i)
    BY <1>2, <1>n, Held DEF Here
  <2>3. i \in Nat /\ i \in 0 .. r - 1
    BY <1>2, Types
  <2>4. BlockAt(n, i) \subseteq 1 .. n
    BY <2>3, BlockIs
  <2>5. BlockAt(n, i) \subseteq BlockAt(n + 1, r)
    BY <1>n, <2>3, BlocksMerge
  <2> QED
    BY <2>1, <2>2, <2>4, <2>5
<1>3. ASSUME NEW c \in Merged(r), NEW d \in Merged(r), Value(c) = Value(d) PROVE c = d
  <2>1. PICK i \in Level : i < r /\ c \in Copies(i)
    BY <1>1
  <2>2. PICK k \in Level : k < r /\ d \in Copies(k)
    BY <1>1
  <2>3. Value(c) \in BlockAt(n, i) /\ Value(c) \in BlockAt(n, k)
    BY <1>2, <1>3, <2>1, <2>2
  <2>4. i = k
    BY <2>3, Types, BlocksApart
  <2> QED
    BY <1>3, <2>1, <2>2, <2>4, Held
<1> QED
  BY <1>1, <1>2, <1>3, <1>n

\* The order in which a finite set is listed contains each element once.
LEMMA Listed ==
    ASSUME NEW S, IsFiniteSet(S)
    PROVE  /\ Cardinality(S) \in Nat
           /\ SetToSeq(S) \in [1 .. Cardinality(S) -> S]
           /\ \A j, k \in 1 .. Cardinality(S) : SetToSeq(S)[j] = SetToSeq(S)[k] => j = k
           /\ \A c \in S : \E k \in 1 .. Cardinality(S) : SetToSeq(S)[k] = c
<1>n. PICK n \in Nat : n = Cardinality(S)
  BY FS_CardinalityType
<1>1. PICK g : g \in Bijection(1 .. n, S)
  BY <1>n, FS_CardinalityType DEF ExistsBijection
<1>2. g \in [1 .. n -> S] /\ IsInjective(g)
  BY <1>1 DEF Bijection, Injection
<1>f. PICK f : f = SetToSeq(S)
  OBVIOUS
<1>3. f \in [1 .. n -> S] /\ IsInjective(f)
  BY <1>2, <1>f, <1>n, Zenon DEF SetToSeq
<1>4. f \in Injection(1 .. n, S)
  BY <1>3 DEF Injection
<1>5. Cardinality(1 .. n) = n
  BY FS_Interval
<1>6. f \in Surjection(1 .. n, S)
  BY <1>4, <1>5, <1>n, FS_Injection
<1>7. \A j, k \in 1 .. n : f[j] = f[k] => j = k
  BY <1>3 DEF IsInjective
<1>8. \A c \in S : \E k \in 1 .. n : f[k] = c
  BY <1>6 DEF Surjection
<1> QED
  BY <1>3, <1>7, <1>8, <1>f, <1>n

\* The vector of previousData for a keyword, before the new update.
LEMMA CollectedFact ==
    ASSUME AInv, NEW r \in Nat, r = RightmostZero(updateCounter), NEW w, NEW s,
           s = Collected(r, w)
    PROVE  /\ s \in Seq(BlockAt(updateCounter + 1, r))
           /\ \A p \in DOMAIN s : s[p] \in 1 .. updateCounter /\ calls[s[p]].kw = w
           /\ \A p, q \in DOMAIN s : s[p] = s[q] => p = q
           /\ \A c \in Merged(r) : FiledUnder(c) = w => \E p \in DOMAIN s : s[p] = Value(c)
<1>n. PICK n \in Nat : n = updateCounter
  BY CounterType
<1>S. PICK S : S = {c \in Merged(r) : FiledUnder(c) = w}
  OBVIOUS
<1>B. PICK B : B = BlockAt(n + 1, r)
  OBVIOUS
<1>1. /\ \A c \in S : /\ Value(c) \in 1 .. n
                      /\ Value(c) \in B
                      /\ calls[Value(c)].kw = w
      /\ \A c, d \in S : Value(c) = Value(d) => c = d
  BY <1>B, <1>S, <1>n, MergedFact
<1>2. IsFiniteSet(S)
  <2> DEFINE f == [c \in S |-> Value(c)]
  <2>1. f \in Injection(S, 1 .. n)
    BY <1>1 DEF Injection, IsInjective
  <2>2. IsFiniteSet(1 .. n)
    BY FS_Interval
  <2> HIDE DEF f
  <2> QED
    BY <2>1, <2>2, FS_Injection
<1>k. PICK k \in Nat : k = Cardinality(S)
  BY <1>2, Listed
<1>o. PICK o : o = SetToSeq(S)
  OBVIOUS
<1>3. /\ o \in [1 .. k -> S]
      /\ \A i, j \in 1 .. k : o[i] = o[j] => i = j
      /\ \A c \in S : \E j \in 1 .. k : o[j] = c
  BY <1>2, <1>k, <1>o, Listed
<1>4. s = [j \in 1 .. k |-> Value(o[j])]
  <2>1. s = [j \in DOMAIN o |-> Value(o[j])]
    BY <1>S, <1>o DEF Collected
  <2> QED
    BY <1>3, <2>1
<1>5. DOMAIN s = 1 .. k /\ \A p \in 1 .. k : o[p] \in S /\ s[p] = Value(o[p])
  BY <1>3, <1>4
<1>6. s \in Seq(B)
  <2>1. \A j \in 1 .. k : Value(o[j]) \in B
    BY <1>1, <1>3
  <2>2. s \in [1 .. k -> B]
    BY <1>4, <2>1
  <2> QED
    BY <2>2
<1>7. \A p \in DOMAIN s : s[p] \in 1 .. n /\ calls[s[p]].kw = w
  BY <1>1, <1>5
<1>8. \A p, q \in DOMAIN s : s[p] = s[q] => p = q
  BY <1>1, <1>3, <1>5
<1>9. ASSUME NEW c \in Merged(r), FiledUnder(c) = w
      PROVE  \E p \in DOMAIN s : s[p] = Value(c)
  <2>1. c \in S
    BY <1>9, <1>S
  <2> QED
    BY <1>3, <1>5, <2>1
<1> QED
  BY <1>6, <1>7, <1>8, <1>9, <1>n, <1>B

-----------------------------------------------------------------------------
(* The merge.                                                              *)

\* The updates made so far keep their record.
LEMMA Recorded ==
    ASSUME AInv, NEW c, NEW log, log = Append(calls, c)
    PROVE  /\ \A u \in 1 .. updateCounter : log[u] = calls[u]
           /\ log[updateCounter + 1] = c
BY Types DEF AInv, Numbers

\* What previousData hands to the level that takes the merge.
LEMMA PairsFact ==
    ASSUME AInv, NEW r \in Nat, r = RightmostZero(updateCounter),
           NEW c \in Calls, NEW log, log = Append(calls, c),
           NEW P, P = previousData(r, c.kw)
    PROVE  /\ Vectors(P, log, BlockAt(updateCounter + 1, r))
           /\ c.kw \in DOMAIN P
           /\ \E p \in DOMAIN P[c.kw] : P[c.kw][p] = updateCounter + 1
           /\ \A x \in Merged(r) : \E w \in DOMAIN P : \E p \in DOMAIN P[w] : P[w][p] = Value(x)
           /\ \A w \in DOMAIN P :
                 P[w] = <<>> => \E i \in Local : w \in DOMAIN data[i] /\ data[i][w] = <<>>
<1>n. PICK n \in Nat, u \in Nat : n = updateCounter /\ u = n + 1
  BY CounterType
<1>B. PICK B : B = BlockAt(n + 1, r)
  OBVIOUS
<1>kw. PICK kw \in Keyword : kw = c.kw
  BY DEF Calls, Call
<1>L. PICK L : L = UNION {DOMAIN data[i] : i \in {i \in Local : i < r}}
  OBVIOUS
<1>F. PICK F : F = {FiledUnder(x) : x \in Merged(r)}
  OBVIOUS
<1>K. PICK K : K = L \cup F \cup {kw}
  OBVIOUS
<1>a. kw \in K
  BY <1>K
<1>b. \A x \in Merged(r) : FiledUnder(x) \in K
  <2>1. \A x \in Merged(r) : FiledUnder(x) \in F
    BY <1>F
  <2> QED
    BY <1>K, <2>1
<1>c. \A w \in K : w = kw \/ (\E x \in Merged(r) : FiledUnder(x) = w)
                          \/ (\E i \in Local : i < r /\ w \in DOMAIN data[i])
  <2>1. \A w \in F : \E x \in Merged(r) : FiledUnder(x) = w
    BY <1>F
  <2>2. \A w \in L : \E i \in Local : i < r /\ w \in DOMAIN data[i]
    BY <1>L
  <2> QED
    BY <1>K, <2>1, <2>2
<1>g. PICK g : g = [w \in K |-> Collected(r, w)]
  OBVIOUS
<1>1. P = [w \in K |-> IF w = kw THEN Append(g[w], u) ELSE g[w]]
  BY <1>F, <1>K, <1>L, <1>g, <1>kw, <1>n DEF previousData
<1>2. K \subseteq Keyword
  <2>1. \A i \in Local : DOMAIN data[i] \subseteq Keyword
    BY DEF AInv, Vectors
  <2>2. \A x \in Merged(r) : FiledUnder(x) \in Keyword
    BY MergedFact
  <2> QED
    BY <1>c, <2>1, <2>2
<1>3. ASSUME NEW w \in K
      PROVE  /\ g[w] \in Seq(B)
             /\ \A p \in DOMAIN g[w] : g[w][p] \in 1 .. n /\ calls[g[w][p]].kw = w
             /\ \A p, q \in DOMAIN g[w] : g[w][p] = g[w][q] => p = q
             /\ \A x \in Merged(r) : FiledUnder(x) = w => \E p \in DOMAIN g[w] : g[w][p] = Value(x)
  <2>1. g[w] = Collected(r, w)
    BY <1>g
  <2>s. PICK s : s = Collected(r, w)
    OBVIOUS
  <2> QED
    BY <1>B, <1>n, <2>1, <2>s, CollectedFact
<1>4. u \in B /\ (\A v \in 1 .. n : log[v] = calls[v]) /\ log[u].kw = kw
  <2>1. n + 1 \in BlockAt(n + 1, r)
    BY <1>n, BlocksMerge
  <2>2. (\A v \in 1 .. n : log[v] = calls[v]) /\ log[n + 1] = c
    <3>1. (\A v \in 1 .. updateCounter : log[v] = calls[v]) /\ log[updateCounter + 1] = c
      BY Recorded
    <3> QED
      BY <1>n, <3>1
  <2> QED
    BY <1>B, <1>kw, <1>n, <2>1, <2>2
<1>5. ASSUME NEW w \in K
      PROVE  /\ P[w] \in Seq(B)
             /\ \A p \in DOMAIN P[w] : log[P[w][p]].kw = w
             /\ \A p, q \in DOMAIN P[w] : P[w][p] = P[w][q] => p = q
             /\ \A p \in DOMAIN g[w] : p \in DOMAIN P[w] /\ P[w][p] = g[w][p]
  <2>s. PICK s \in Seq(B) : s = g[w]
    BY <1>3
  <2>1. /\ \A p \in 1 .. Len(s) : s[p] \in 1 .. n /\ log[s[p]].kw = w
        /\ \A p, q \in 1 .. Len(s) : s[p] = s[q] => p = q
    <3>1. DOMAIN s = 1 .. Len(s)
      OBVIOUS
    <3>2. /\ \A p \in DOMAIN s : s[p] \in 1 .. n /\ calls[s[p]].kw = w
          /\ \A p, q \in DOMAIN s : s[p] = s[q] => p = q
      BY <1>3, <2>s
    <3> QED
      BY <1>4, <3>1, <3>2
  <2>2. CASE w = kw
    <3>t. PICK t : t = Append(s, u)
      OBVIOUS
    <3>1. P[w] = t
      BY <1>1, <2>2, <2>s, <3>t
    <3>2. t \in Seq(B)
      BY <1>4, <3>t
    <3>3. DOMAIN t = 1 .. Len(s) + 1
      BY <3>t
    <3>4. t[Len(s) + 1] = u /\ \A p \in 1 .. Len(s) : t[p] = s[p]
      BY <3>t
    <3>d. \A p \in DOMAIN t : p = Len(s) + 1 \/ p \in 1 .. Len(s)
      BY <3>3
    <3>5. \A p \in DOMAIN t : log[t[p]].kw = w
      BY <1>4, <2>1, <2>2, <3>d, <3>4
    <3>6. \A p \in 1 .. Len(s) : t[p] # u
      BY <1>n, <2>1, <3>4
    <3>7. \A p, q \in DOMAIN t : t[p] = t[q] => p = q
      BY <2>1, <3>d, <3>4, <3>6
    <3>8. \A p \in DOMAIN s : p \in DOMAIN t /\ t[p] = s[p]
      BY <3>3, <3>4
    <3> QED
      BY <2>s, <3>1, <3>2, <3>5, <3>7, <3>8
  <2>3. CASE w # kw
    <3>1. P[w] = g[w]
      BY <1>1, <2>3
    <3>2. \A p \in DOMAIN g[w] : log[g[w][p]].kw = w
      BY <1>3, <1>4
    <3>3. g[w] \in Seq(B) /\ \A p, q \in DOMAIN g[w] : g[w][p] = g[w][q] => p = q
      BY <1>3
    <3>4. P[w] \in Seq(B) /\ \A p, q \in DOMAIN P[w] : P[w][p] = P[w][q] => p = q
      <4>1. P[w] \in Seq(B)
        BY <3>1, <3>3
      <4>2. ASSUME NEW p \in DOMAIN P[w], NEW q \in DOMAIN P[w], P[w][p] = P[w][q] PROVE p = q
        BY <3>1, <3>3, <4>2
      <4> QED
        BY <4>1, <4>2
    <3>5. \A p \in DOMAIN P[w] : log[P[w][p]].kw = w
      BY <3>1, <3>2, Zenon
    <3>6. \A p \in DOMAIN g[w] : p \in DOMAIN P[w] /\ P[w][p] = g[w][p]
      BY <3>1
    <3> QED
      BY <3>4, <3>5, <3>6
  <2> QED
    BY <2>2, <2>3
<1>6. Vectors(P, log, B)
  BY <1>1, <1>2, <1>5 DEF Vectors
<1>7. kw \in DOMAIN P /\ \E p \in DOMAIN P[kw] : P[kw][p] = u
  <2>s. PICK s \in Seq(B) : s = g[kw]
    BY <1>3, <1>a
  <2>1. P[kw] = Append(s, u) /\ kw \in DOMAIN P
    BY <1>1, <1>a, <2>s
  <2>2. Len(s) + 1 \in DOMAIN P[kw] /\ P[kw][Len(s) + 1] = u
    BY <2>1
  <2> QED
    BY <2>1, <2>2
<1>8. ASSUME NEW x \in Merged(r)
      PROVE  \E p \in DOMAIN P[FiledUnder(x)] : P[FiledUnder(x)][p] = Value(x)
  <2>w. PICK w \in K : w = FiledUnder(x)
    BY <1>b
  <2>1. PICK p \in DOMAIN g[w] : g[w][p] = Value(x)
    BY <1>3, <2>w
  <2> QED
    BY <1>5, <2>1, <2>w
<1>9. ASSUME NEW w \in DOMAIN P, P[w] = <<>>
      PROVE  \E i \in Local : w \in DOMAIN data[i] /\ data[i][w] = <<>>
  <2>0. DOMAIN P[w] = {}
    BY <1>9
  <2>1. w # kw
    BY <1>7, <2>0
  <2>2. ASSUME NEW x \in Merged(r), FiledUnder(x) = w PROVE FALSE
    <3>1. \E p \in DOMAIN P[w] : P[w][p] = Value(x)
      BY <1>8, <2>2
    <3> QED
      BY <2>0, <3>1
  <2>3. ASSUME NEW i \in Local, i < r, w \in DOMAIN data[i], data[i][w] # <<>>
        PROVE  \E x \in Merged(r) : FiledUnder(x) = w
    <3>1. data[i][w] \in Seq(Here(i)) /\ data[i][w] # <<>>
      BY <2>3 DEF AInv, Vectors
    <3>2. 1 \in DOMAIN data[i][w]
      BY <3>1
    <3>x. PICK x : x = <<i, w, 1>>
      OBVIOUS
    <3>3. x \in Copies(i) /\ i \in Level
      BY <2>3, <3>2, <3>x, LocalCopy DEF Level
    <3>4. x \in Merged(r)
      BY <2>3, <3>3 DEF Merged
    <3>5. FiledUnder(x) = w
      BY <3>x DEF FiledUnder
    <3> QED
      BY <3>4, <3>5
  <2>4. w \in K
    BY <1>1
  <2> QED
    BY <1>c, <2>1, <2>2, <2>3, <2>4
<1>10. \A x \in Merged(r) : FiledUnder(x) \in DOMAIN P
  BY <1>1, <1>b
<1> QED
  BY <1>6, <1>7, <1>8, <1>9, <1>10, <1>B, <1>kw, <1>n

\* A longer record of the updates changes nothing for those of B.
LEMMA Longer ==
    ASSUME NEW B, NEW old, NEW log, \A u \in B : log[u] = old[u]
    PROVE  /\ \A m : Vectors(m, old, B) => Vectors(m, log, B)
           /\ \A s, y : Files(s, old, B, y) => Files(s, log, B, y)
<1>1. ASSUME NEW m, Vectors(m, old, B) PROVE Vectors(m, log, B)
  <2>1. ASSUME NEW w \in DOMAIN m PROVE m[w] \in Seq(B) /\ \A p \in DOMAIN m[w] : log[m[w][p]].kw = w
    <3>1. m[w] \in Seq(B) /\ \A p \in DOMAIN m[w] : old[m[w][p]].kw = w
      BY <1>1 DEF Vectors
    <3>2. \A p \in DOMAIN m[w] : m[w][p] \in B
      BY <3>1
    <3> QED
      BY <3>1, <3>2
  <2> QED
    BY <1>1, <2>1 DEF Vectors
<1>2. ASSUME NEW s, NEW y, Files(s, old, B, y) PROVE Files(s, log, B, y)
  BY <1>2 DEF Files
<1> QED
  BY <1>1, <1>2

\* A level that holds no update has only empty vectors.
LEMMA Hollow ==
    ASSUME NEW m, NEW log, Vectors(m, log, {}), NEW w \in DOMAIN m
    PROVE  m[w] = <<>>
<1>1. m[w] \in Seq({})
  BY DEF Vectors
<1>2. 1 \notin DOMAIN m[w]
  BY <1>1
<1> QED
  BY <1>1, <1>2

\* unordered_map::insert into such a level.
LEMMA InsertFact ==
    ASSUME NEW m, NEW old, Vectors(m, old, {}), NEW P, NEW log, NEW B, Vectors(P, log, B),
           NEW t, t = insert(m, P)
    PROVE  /\ Vectors(t, log, B)
           /\ \A w \in DOMAIN P : w \notin DOMAIN m => w \in DOMAIN t /\ t[w] = P[w]
           /\ \A w \in DOMAIN t : w \in DOMAIN m \/ (w \in DOMAIN P /\ t[w] = P[w])
<1>1. /\ DOMAIN t = (DOMAIN m) \cup DOMAIN P
      /\ \A w \in DOMAIN m : t[w] = m[w]
      /\ \A w \in DOMAIN t : w \notin DOMAIN m => t[w] = P[w]
  BY DEF insert
<1>2. DOMAIN t \subseteq Keyword
  BY <1>1 DEF Vectors
<1>3. ASSUME NEW w \in DOMAIN t
      PROVE  /\ t[w] \in Seq(B)
             /\ \A p \in DOMAIN t[w] : log[t[w][p]].kw = w
             /\ \A p, q \in DOMAIN t[w] : t[w][p] = t[w][q] => p = q
  <2>1. CASE w \in DOMAIN m
    <3>1. t[w] = <<>>
      BY <1>1, <2>1, Hollow
    <3> QED
      BY <3>1
  <2>2. CASE w \notin DOMAIN m
    <3>1. w \in DOMAIN P /\ t[w] = P[w]
      BY <1>1, <2>2
    <3>2. /\ P[w] \in Seq(B)
          /\ \A p \in DOMAIN P[w] : log[P[w][p]].kw = w
          /\ \A p, q \in DOMAIN P[w] : P[w][p] = P[w][q] => p = q
      BY <3>1 DEF Vectors
    <3>3. t[w] \in Seq(B)
      BY <3>1, <3>2
    <3>4. \A p \in DOMAIN t[w] : log[t[w][p]].kw = w
      BY <3>1, <3>2
    <3>5. ASSUME NEW p \in DOMAIN t[w], NEW q \in DOMAIN t[w], t[w][p] = t[w][q] PROVE p = q
      BY <3>1, <3>2, <3>5
    <3> QED
      BY <3>3, <3>4, <3>5
  <2> QED
    BY <2>1, <2>2
<1> QED
  BY <1>1, <1>2, <1>3 DEF Vectors

\* AmortizedBASClient::setup of a level that was cleared.
LEMMA SetupFact ==
    ASSUME NEW r, DOMAIN server[r] = {}, NEW P, NEW log, NEW B, Vectors(P, log, B), NEW key,
           NEW s, s = setup(r, P, key)
    PROVE  /\ Files(s, log, B, key)
           /\ \A w \in DOMAIN P : \A p \in DOMAIN P[w] : \E a \in DOMAIN s : s[a] = P[w][p]
<1>N. PICK N : N = UNION {{<<key, w, p>> : p \in 0 .. Len(P[w]) - 1} : w \in DOMAIN P}
  OBVIOUS
<1>1. \A a : a \in N <=> \E w \in DOMAIN P : \E p \in 0 .. Len(P[w]) - 1 : a = <<key, w, p>>
  BY <1>N
<1>2. s = [a \in N |-> P[a[2]][a[3] + 1]]
  <2>1. s = [a \in (DOMAIN server[r]) \cup N |->
               IF a \in DOMAIN server[r] THEN server[r][a] ELSE P[a[2]][a[3] + 1]]
    BY <1>N, Zenon DEF setup
  <2> QED
    BY <2>1
<1>3. \A w \in DOMAIN P : /\ P[w] \in Seq(B)
                          /\ \A p \in DOMAIN P[w] : log[P[w][p]].kw = w
                          /\ \A p, q \in DOMAIN P[w] : P[w][p] = P[w][q] => p = q
                          /\ w \in Keyword
  BY DEF Vectors
<1>4. \A w \in DOMAIN P : DOMAIN P[w] = 1 .. Len(P[w]) /\ Len(P[w]) \in Nat
  BY <1>3
<1>5. ASSUME NEW a \in DOMAIN s
      PROVE  \E w \in DOMAIN P : \E p \in 0 .. Len(P[w]) - 1 :
                /\ a = <<key, w, p>> /\ a[2] = w /\ a[3] = p /\ s[a] = P[w][p + 1]
                /\ p + 1 \in DOMAIN P[w]
  <2>1. PICK w \in DOMAIN P : \E p \in 0 .. Len(P[w]) - 1 : a = <<key, w, p>>
    BY <1>1, <1>2
  <2>2. PICK p \in 0 .. Len(P[w]) - 1 : a = <<key, w, p>>
    BY <2>1
  <2>3. a[2] = w /\ a[3] = p
    BY <2>2
  <2>4. s[a] = P[w][p + 1]
    BY <1>2, <2>3
  <2>5. p + 1 \in DOMAIN P[w]
    BY <1>4
  <2> QED
    BY <2>2, <2>3, <2>4, <2>5
<1>6. ASSUME NEW a \in DOMAIN s
      PROVE  /\ a = <<key, a[2], a[3]>>
             /\ a[2] \in Keyword
             /\ a[3] \in Nat
             /\ \A q \in 0 .. a[3] : <<key, a[2], q>> \in DOMAIN s
             /\ s[a] \in B
             /\ log[s[a]].kw = a[2]
  <2>1. PICK w \in DOMAIN P : \E p \in 0 .. Len(P[w]) - 1 :
                /\ a = <<key, w, p>> /\ a[2] = w /\ a[3] = p /\ s[a] = P[w][p + 1]
                /\ p + 1 \in DOMAIN P[w]
    BY <1>5
  <2>2. PICK p \in 0 .. Len(P[w]) - 1 :
                /\ a = <<key, w, p>> /\ a[2] = w /\ a[3] = p /\ s[a] = P[w][p + 1]
                /\ p + 1 \in DOMAIN P[w]
    BY <2>1
  <2>3. P[w][p + 1] \in B /\ log[P[w][p + 1]].kw = w /\ w \in Keyword
    BY <1>3, <2>2
  <2>4. p \in Nat
    BY <1>4
  <2>5. ASSUME NEW q \in 0 .. p PROVE <<key, w, q>> \in DOMAIN s
    <3>1. q \in 0 .. Len(P[w]) - 1
      BY <1>4
    <3> QED
      BY <1>1, <1>2, <3>1
  <2> QED
    BY <2>2, <2>3, <2>4, <2>5
<1>7. ASSUME NEW a \in DOMAIN s, NEW b \in DOMAIN s, s[a] = s[b] PROVE a = b
  <2>1. PICK w \in DOMAIN P : \E p \in 0 .. Len(P[w]) - 1 :
                /\ a = <<key, w, p>> /\ a[2] = w /\ a[3] = p /\ s[a] = P[w][p + 1]
                /\ p + 1 \in DOMAIN P[w]
    BY <1>5
  <2>2. PICK p \in 0 .. Len(P[w]) - 1 :
                a = <<key, w, p>> /\ s[a] = P[w][p + 1] /\ p + 1 \in DOMAIN P[w]
    BY <2>1
  <2>3. PICK v \in DOMAIN P : \E q \in 0 .. Len(P[v]) - 1 :
                /\ b = <<key, v, q>> /\ b[2] = v /\ b[3] = q /\ s[b] = P[v][q + 1]
                /\ q + 1 \in DOMAIN P[v]
    BY <1>5
  <2>4. PICK q \in 0 .. Len(P[v]) - 1 :
                b = <<key, v, q>> /\ s[b] = P[v][q + 1] /\ q + 1 \in DOMAIN P[v]
    BY <2>3
  <2>5. log[P[w][p + 1]].kw = w /\ log[P[v][q + 1]].kw = v
    BY <1>3, <2>2, <2>4
  <2>6. w = v
    BY <1>7, <2>2, <2>4, <2>5
  <2>7. p + 1 = q + 1
    BY <1>3, <1>7, <2>2, <2>4, <2>6
  <2>8. p = q
    BY <1>4, <2>7
  <2> QED
    BY <2>2, <2>4, <2>6, <2>8
<1>8. ASSUME NEW w \in DOMAIN P, NEW p \in DOMAIN P[w]
      PROVE  \E a \in DOMAIN s : s[a] = P[w][p]
  <2>1. p \in 1 .. Len(P[w])
    BY <1>4
  <2>2. PICK q \in 0 .. Len(P[w]) - 1 : q + 1 = p
    BY <1>4, <2>1
  <2>a. PICK a : a = <<key, w, q>>
    OBVIOUS
  <2>3. a \in DOMAIN s /\ a[2] = w /\ a[3] = q
    BY <1>1, <1>2, <2>a
  <2>4. s[a] = P[w][q + 1]
    BY <1>2, <2>3
  <2> QED
    BY <2>2, <2>3, <2>4
<1> QED
  BY <1>6, <1>7, <1>8 DEF Files

-----------------------------------------------------------------------------
(* The invariant is kept.                                                  *)

\* An update that is not lost has a copy in its level.
LEMMA WholeCopy ==
    ASSUME AInv, Whole, NEW i \in Level, NEW v \in Here(i), calls[v].kw \notin Risked
    PROVE  \E c \in Copies(i) : Value(c) = v
<1>0. v \in Spared(Here(i), calls, Risked)
  BY DEF Spared
<1>1. CASE i \in Local
  <2>1. PICK w \in DOMAIN data[i] : \E p \in DOMAIN data[i][w] : data[i][w][p] = v
    BY <1>0, <1>1 DEF Whole, InVectors
  <2>2. PICK p \in DOMAIN data[i][w] : data[i][w][p] = v
    BY <2>1
  <2>c. PICK c : c = <<i, w, p>>
    OBVIOUS
  <2>3. c \in Copies(i)
    BY <1>1, <2>c, LocalCopy
  <2>4. c[1] = i /\ c[2] = w /\ c[3] = p
    BY <2>c
  <2>5. Value(c) = v
    BY <1>1, <2>2, <2>4 DEF Value
  <2> QED
    BY <2>3, <2>5
<1>2. CASE i \in Remote
  <2>1. PICK a \in DOMAIN server[i] : server[i][a] = v
    BY <1>0, <1>2 DEF Whole, InFiles
  <2>c. PICK c : c = <<i, a>>
    OBVIOUS
  <2>2. c \in Copies(i)
    BY <1>2, <2>c, RemoteCopy
  <2>3. Value(c) = v
    BY <1>2, <2>1, <2>c, Types DEF Value
  <2> QED
    BY <2>2, <2>3
<1> QED
  BY <1>1, <1>2 DEF Level

\* The levels suffice.
LEMMA LevelsSuffice ==
    ASSUME NEW n \in Nat, n <= MaxUpdates, NEW k \in Nat, 2 ^ k <= n
    PROVE  k \in Level
<1>1. ASSUME NEW m \in Nat, MaxUpdates < 2 ^ m PROVE k < m
  <2> SUFFICES ASSUME m <= k PROVE FALSE
    OBVIOUS
  <2>1. 2 ^ m <= 2 ^ k
    BY PowerGrows
  <2>2. 2 ^ m \in Nat /\ 2 ^ k \in Nat
    BY PowerType
  <2> QED
    BY <1>1, <2>1, <2>2, Types
<1>2. k < LocalSize \/ k < Levels
  BY <1>1, AmortizedAssumption
<1> QED
  BY <1>2, Types DEF Level, Local, Remote

LEMMA LevelsBelow == \A i \in Level : \A j \in 0 .. i - 1 : j \in Level
BY Types DEF Level, Local, Remote

\* What an update merges is in previousData, if it was not lost before.
LEMMA PairsWhole ==
    ASSUME AInv, Whole, NEW r \in Level, r = RightmostZero(updateCounter),
           NEW c \in Calls, NEW log, log = Append(calls, c),
           NEW P, P = previousData(r, c.kw)
    PROVE  InVectors(P, Spared(BlockAt(updateCounter + 1, r), log, Risked))
<1> SUFFICES ASSUME NEW v \in BlockAt(updateCounter + 1, r), log[v].kw \notin Risked
             PROVE  \E w \in DOMAIN P : \E p \in DOMAIN P[w] : P[w][p] = v
  BY DEF InVectors, Spared
<1>n. PICK n \in Nat : n = updateCounter
  BY CounterType
<1>0. r \in Nat
  BY Types
<1>1. CASE v = n + 1
  BY <1>0, <1>1, <1>n, PairsFact
<1>2. ASSUME NEW j \in 0 .. r - 1, v \in BlockAt(n, j)
      PROVE  \E w \in DOMAIN P : \E p \in DOMAIN P[w] : P[w][p] = v
  <2>1. j \in Level /\ j < r
    BY <1>0, LevelsBelow
  <2>2. v \in Here(j)
    BY <1>2, <1>n DEF Here
  <2>c. calls[v].kw \notin Risked
    <3>1. BlockAt(n, j) \subseteq 1 .. n
      BY <2>1, Types, BlockIs
    <3>2. \A k \in 1 .. updateCounter : log[k] = calls[k]
      BY Recorded
    <3> QED
      BY <1>2, <1>n, <3>1, <3>2
  <2>3. PICK x \in Copies(j) : Value(x) = v
    BY <2>1, <2>2, <2>c, WholeCopy
  <2>4. x \in Merged(r)
    BY <2>1, <2>3 DEF Merged
  <2>5. \E w \in DOMAIN P : \E p \in DOMAIN P[w] : P[w][p] = Value(x)
    BY <1>0, <2>4, PairsFact
  <2> QED
    BY <2>3, <2>5
<1>3. v = n + 1 \/ \E j \in 0 .. r - 1 : v \in BlockAt(n, j)
  BY <1>0, <1>n, BlocksMerge
<1> QED
  BY <1>1, <1>2, <1>3

\* An update, at the levels below the merge, at it and above it.
LEMMA UpdateStep ==
    ASSUME AInv, NEW c \in Calls, NEW newKey \in KeyVal, Update(c, newKey)
    PROVE  AInv' /\ (Whole => Whole')
<1>n. PICK n \in Nat, u \in Nat : n = updateCounter /\ u = n + 1
  BY CounterType
<1>kw. PICK kw \in Keyword : kw = c.kw
  BY DEF Calls, Call
<1>r. PICK r : r = RightmostZero(n)
  OBVIOUS
<1>P. PICK P : P = previousData(r, kw)
  OBVIOUS
<1>l. PICK log : log = Append(calls, c)
  OBVIOUS
<1>h. r = RightmostZero(updateCounter) /\ P = previousData(r, kw)
  BY <1>P, <1>n, <1>r
<1>1. /\ r \in Level /\ c \in Calls /\ calls' = log /\ updateCounter' = u
      /\ n < MaxUpdates /\ (UpdateAfterSearch \/ searched = {})
      /\ searched' = searched /\ finalRes' = finalRes
  <2>1. /\ n < MaxUpdates /\ (UpdateAfterSearch \/ searched = {})
        /\ updateCounter' = u
        /\ calls' = log
        /\ searched' = searched /\ finalRes' = finalRes
    BY <1>l, <1>n DEF Update
  <2>3. r \in Level
    <3>1. r \in Nat
      BY <1>n, <1>r, RightmostFact
    <3>2. 2 ^ r <= u
      BY <1>n, <1>r, <3>1, Increment
    <3>3. u <= MaxUpdates
      BY <1>n, <2>1, Types
    <3> QED
      BY <3>1, <3>2, <3>3, LevelsSuffice
  <2> QED
    BY <2>1, <2>3
<1>R. PICK R : R = Risked /\ R = Risked' /\ R = searched
  BY <1>1 DEF Risked
<1>t. DOMAIN data = Local /\ DOMAIN server = Remote /\ DOMAIN keys = Remote /\ DOMAIN exist = Remote
  BY DEF AInv, Tables
<1>m. /\ data' = Shifted(data, r, NoData, insert(data[r], P))
      /\ server' = Shifted(server, r, NoCiphers, setup(r, P, newKey))
      /\ keys' = Shifted(keys, r, NoKey, newKey)
      /\ exist' = Shifted(exist, r, FALSE, TRUE)
  BY <1>kw, <1>h DEF Update, Merge
<1>2. /\ DOMAIN data' = Local
      /\ \A i \in Local : data'[i] = IF i < r THEN NoData
                                ELSE IF i = r THEN insert(data[r], P) ELSE data[i]
  BY <1>m, <1>t DEF Shifted
<1>s. /\ DOMAIN server' = Remote
      /\ \A i \in Remote : server'[i] = IF i < r THEN NoCiphers
                                 ELSE IF i = r THEN setup(r, P, newKey) ELSE server[i]
  BY <1>m, <1>t DEF Shifted
<1>k. /\ DOMAIN keys' = Remote
      /\ \A i \in Remote : keys'[i] = IF i < r THEN NoKey ELSE IF i = r THEN newKey ELSE keys[i]
  BY <1>m, <1>t DEF Shifted
<1>e. /\ DOMAIN exist' = Remote
      /\ \A i \in Remote : exist'[i] = IF i < r THEN FALSE ELSE IF i = r THEN TRUE ELSE exist[i]
  BY <1>m, <1>t DEF Shifted
<1>3. /\ DOMAIN server' = Remote /\ DOMAIN keys' = Remote /\ DOMAIN exist' = Remote
      /\ \A i \in Remote :
            /\ server'[i] = IF i < r THEN NoCiphers
                            ELSE IF i = r THEN setup(r, P, newKey) ELSE server[i]
            /\ keys'[i] = IF i < r THEN NoKey ELSE IF i = r THEN newKey ELSE keys[i]
            /\ exist'[i] = IF i < r THEN FALSE ELSE IF i = r THEN TRUE ELSE exist[i]
  BY <1>s, <1>k, <1>e
<1>4. r \in Nat /\ c.kw = kw
  BY <1>1, <1>kw, Types
<1>B. PICK B : B = BlockAt(u, r)
  OBVIOUS
<1>5. /\ BlockAt(n, r) = {}
      /\ \A j \in 0 .. r - 1 : BlockAt(u, j) = {}
      /\ u \in B
      /\ \A j \in Nat : j > r => BlockAt(u, j) = BlockAt(n, j)
  BY <1>4, <1>B, <1>n, <1>r, BlocksMerge
<1>6. /\ Vectors(P, log, B)
      /\ \E w \in DOMAIN P : \E p \in DOMAIN P[w] : P[w][p] = u
      /\ \A w \in DOMAIN P :
            P[w] = <<>> => \E i \in Local : w \in DOMAIN data[i] /\ data[i][w] = <<>>
  <2>1. P = previousData(r, c.kw)
    BY <1>4, <1>h
  <2>2. Vectors(P, log, BlockAt(updateCounter + 1, r))
    BY <1>1, <1>4, <1>h, <1>l, <2>1, PairsFact
  <2>3. c.kw \in DOMAIN P /\ \E p \in DOMAIN P[c.kw] : P[c.kw][p] = updateCounter + 1
    BY <1>1, <1>4, <1>h, <1>l, <2>1, PairsFact
  <2>4. \A w \in DOMAIN P :
           P[w] = <<>> => \E i \in Local : w \in DOMAIN data[i] /\ data[i][w] = <<>>
    BY <1>1, <1>4, <1>h, <1>l, <2>1, PairsFact
  <2> QED
    BY <1>B, <1>n, <2>2, <2>3, <2>4
<1>7. ASSUME Whole, NEW v \in Spared(B, log, R)
      PROVE  \E w \in DOMAIN P : \E p \in DOMAIN P[w] : P[w][p] = v
  <2>1. P = previousData(r, c.kw)
    BY <1>4, <1>h
  <2>2. r \in Level /\ r = RightmostZero(updateCounter) /\ c \in Calls /\ log = Append(calls, c)
    BY <1>1, <1>h, <1>l
  <2>3. InVectors(P, Spared(BlockAt(updateCounter + 1, r), log, Risked))
    BY <1>7, <2>1, <2>2, PairsWhole
  <2>4. Spared(B, log, R) = Spared(BlockAt(updateCounter + 1, r), log, Risked)
    BY <1>B, <1>R, <1>n
  <2> QED
    BY <1>7, <2>3, <2>4 DEF InVectors
<1>8. \A i \in Level : Here(i) = BlockAt(n, i) /\ Here(i)' = BlockAt(u, i)
  BY <1>1, <1>n DEF Here
<1>9. ASSUME NEW i \in Nat PROVE \A v \in BlockAt(n, i) : log[v] = calls[v]
  <2>1. BlockAt(n, i) \subseteq 1 .. n
    BY BlockIs
  <2>2. \A v \in 1 .. updateCounter : log[v] = calls[v]
    BY <1>l, Recorded
  <2> QED
    BY <1>n, <2>1, <2>2
<1>x. ASSUME NEW i \in Nat
      PROVE  Spared(BlockAt(n, i), log, R) = Spared(BlockAt(n, i), calls, R)
  BY <1>9 DEF Spared
<1>y. Spared({}, log, R) = {}
  BY DEF Spared
<1>10. ASSUME NEW i \in Level
       PROVE  /\ i \in Nat /\ (i < r \/ i = r \/ i > r)
              /\ i < r => BlockAt(u, i) = {}
              /\ i > r => BlockAt(u, i) = BlockAt(n, i)
  <2>1. i \in Nat
    BY Types
  <2>2. i < r => i \in 0 .. r - 1
    BY <1>4, <2>1
  <2> QED
    BY <1>4, <1>5, <2>1, <2>2
<1>11. Numbers'
  <2>1. updateCounter' \in 0 .. MaxUpdates
    BY <1>1, <1>n, Types
  <2>2. calls \in Seq(Calls) /\ Len(calls) = n
    BY <1>n DEF AInv, Numbers
  <2>3. log \in Seq(Calls) /\ Len(log) = u
    BY <1>1, <1>l, <1>n, <2>2
  <2> QED
    BY <1>1, <2>1, <2>3 DEF AInv, Numbers
<1>12. ASSUME NEW i \in Local
       PROVE  /\ Vectors(data[i], calls, BlockAt(n, i))
              /\ Vectors(data'[i], log, BlockAt(u, i))
              /\ Whole => /\ InVectors(data'[i], Spared(BlockAt(u, i), log, R))
                          /\ \A w \in DOMAIN data'[i] : data'[i][w] = <<>> => w \in R
  <2>0. i \in Level
    BY DEF Level
  <2>1. Vectors(data[i], calls, BlockAt(n, i))
    BY <1>8, <2>0 DEF AInv
  <2>2. CASE i < r
    <3>1. data'[i] = NoData /\ BlockAt(u, i) = {}
      BY <1>10, <1>2, <2>0, <2>2
    <3>2. DOMAIN NoData = {}
      BY DEF NoData
    <3> QED
      BY <1>y, <2>1, <3>1, <3>2 DEF Vectors, InVectors
  <2>3. CASE i = r
    <3>t. PICK t, m : t = data'[i] /\ m = data[i]
      OBVIOUS
    <3>1. t = insert(m, P)
      BY <1>2, <1>4, <2>3, <3>t
    <3>2. Vectors(m, calls, {})
      BY <1>5, <2>1, <2>3, <3>t
    <3>3. /\ Vectors(t, log, B)
          /\ \A w \in DOMAIN P : w \notin DOMAIN m => w \in DOMAIN t /\ t[w] = P[w]
          /\ \A w \in DOMAIN t : w \in DOMAIN m \/ (w \in DOMAIN P /\ t[w] = P[w])
      BY <1>6, <3>1, <3>2, InsertFact
    <3>4. ASSUME Whole PROVE \A w \in DOMAIN m : w \in R
      <4>1. \A w \in DOMAIN m : m[w] = <<>>
        BY <3>2, Hollow
      <4>2. \A w \in DOMAIN m : m[w] = <<>> => w \in searched
        BY <3>4, <3>t DEF Whole
      <4> QED
        BY <1>R, <4>1, <4>2
    <3>5. ASSUME Whole, NEW w \in DOMAIN t, t[w] = <<>> PROVE w \in R
      <4>1. CASE w \in DOMAIN m
        BY <3>4, <3>5, <4>1
      <4>2. CASE w \in DOMAIN P /\ t[w] = P[w]
        <5>1. PICK k \in Local : w \in DOMAIN data[k] /\ data[k][w] = <<>>
          BY <1>6, <3>5, <4>2
        <5> QED
          BY <1>R, <3>5, <5>1 DEF Whole
      <4> QED
        BY <3>3, <4>1, <4>2
    <3>6. ASSUME Whole PROVE InVectors(t, Spared(B, log, R))
      <4> SUFFICES ASSUME NEW v \in Spared(B, log, R)
                   PROVE  \E w \in DOMAIN t : \E p \in DOMAIN t[w] : t[w][p] = v
        BY DEF InVectors
      <4>1. PICK w \in DOMAIN P : \E p \in DOMAIN P[w] : P[w][p] = v
        BY <1>7, <3>6
      <4>2. PICK p \in DOMAIN P[w] : P[w][p] = v
        BY <4>1
      <4>3. log[v].kw = w
        BY <1>6, <4>2 DEF Vectors
      <4>4. w \notin DOMAIN m
        BY <3>4, <3>6, <4>3 DEF Spared
      <4>5. w \in DOMAIN t /\ t[w] = P[w]
        BY <3>3, <4>4
      <4> QED
        BY <4>2, <4>5
    <3> QED
      BY <1>B, <2>1, <2>3, <3>3, <3>5, <3>6, <3>t
  <2>4. CASE i > r
    <3>1. data'[i] = data[i] /\ BlockAt(u, i) = BlockAt(n, i) /\ i \in Nat
      <4>1. ~(i < r) /\ i # r
        BY <1>10, <1>4, <2>0, <2>4
      <4> QED
        BY <1>10, <1>2, <2>0, <2>4, <4>1
    <3>2. Vectors(data[i], log, BlockAt(n, i))
      BY <1>9, <2>1, <3>1, Longer
    <3>3. Whole => /\ InVectors(data[i], Spared(BlockAt(n, i), calls, R))
                   /\ \A w \in DOMAIN data[i] : data[i][w] = <<>> => w \in R
      BY <1>8, <1>R, <2>0 DEF Whole
    <3> QED
      BY <1>x, <2>1, <3>1, <3>2, <3>3
  <2> QED
    BY <1>10, <2>0, <2>2, <2>3, <2>4
<1>13. ASSUME NEW i \in Remote
       PROVE  /\ Files(server'[i], log, BlockAt(u, i), keys'[i])
              /\ Whole => InFiles(server'[i], Spared(BlockAt(u, i), log, R))
              /\ keys'[i] \in KeyVal \cup {NoKey}
              /\ exist'[i] \in BOOLEAN
              /\ exist'[i] <=> BlockAt(u, i) # {}
              /\ exist'[i] <=> keys'[i] # NoKey
              /\ exist'[i] <=> DOMAIN server'[i] # {}
  <2>0. i \in Level
    BY DEF Level
  <2>1. /\ Files(server[i], calls, BlockAt(n, i), keys[i])
        /\ keys[i] \in KeyVal \cup {NoKey}
        /\ exist[i] \in BOOLEAN
        /\ exist[i] <=> BlockAt(n, i) # {}
        /\ exist[i] <=> keys[i] # NoKey
        /\ exist[i] <=> DOMAIN server[i] # {}
    BY <1>8, <2>0 DEF AInv, Tables
  <2>2. CASE i < r
    <3>1. /\ server'[i] = NoCiphers /\ keys'[i] = NoKey /\ exist'[i] = FALSE
          /\ BlockAt(u, i) = {}
      BY <1>10, <1>3, <2>0, <2>2
    <3>2. DOMAIN NoCiphers = {}
      BY DEF NoCiphers
    <3> QED
      BY <1>y, <3>1, <3>2 DEF Files, InFiles
  <2>3. CASE i = r
    <3>s. PICK s : s = server'[i]
      OBVIOUS
    <3>1. s = setup(r, P, newKey) /\ keys'[i] = newKey /\ exist'[i] = TRUE
      <4>1. ~(i < r)
        BY <1>4, <2>3
      <4> QED
        BY <1>3, <2>3, <3>s, <4>1, Zenon
    <3>2. DOMAIN server[r] = {}
      BY <1>5, <2>1, <2>3
    <3>3. /\ Files(s, log, B, newKey)
          /\ \A w \in DOMAIN P : \A p \in DOMAIN P[w] : \E a \in DOMAIN s : s[a] = P[w][p]
      BY <1>6, <3>1, <3>2, SetupFact
    <3>4. \E a \in DOMAIN s : s[a] = u
      BY <1>6, <3>3
    <3>5. newKey # NoKey
      BY AmortizedAssumption
    <3>6. ASSUME Whole PROVE InFiles(s, Spared(B, log, R))
      <4>1. \A v \in Spared(B, log, R) : \E w \in DOMAIN P : \E p \in DOMAIN P[w] : P[w][p] = v
        BY <1>7, <3>6
      <4> QED
        BY <3>3, <4>1 DEF InFiles
    <3>7. B # {} /\ DOMAIN s # {}
      BY <1>5, <3>4
    <3> QED
      BY <1>B, <2>3, <3>1, <3>3, <3>5, <3>6, <3>7, <3>s
  <2>4. CASE i > r
    <3>1. /\ server'[i] = server[i] /\ keys'[i] = keys[i] /\ exist'[i] = exist[i]
          /\ BlockAt(u, i) = BlockAt(n, i) /\ i \in Nat
      <4>1. ~(i < r) /\ i # r
        BY <1>10, <1>4, <2>0, <2>4
      <4> QED
        BY <1>10, <1>3, <2>0, <2>4, <4>1
    <3>2. Files(server[i], log, BlockAt(n, i), keys[i])
      BY <1>9, <2>1, <3>1, Longer
    <3>3. Whole => InFiles(server[i], Spared(BlockAt(n, i), calls, R))
      BY <1>8, <1>R, <2>0 DEF Whole
    <3> QED
      BY <1>x, <2>1, <3>1, <3>2, <3>3
  <2> QED
    BY <1>10, <2>0, <2>2, <2>3, <2>4
<1>14. Tables'
  BY <1>13, <1>2, <1>3, <1>8 DEF Tables, Level
<1>15. AInv'
  BY <1>1, <1>11, <1>12, <1>13, <1>14, <1>8 DEF AInv, Level
<1>16. Whole => Whole'
  BY <1>1, <1>12, <1>13, <1>8, <1>R DEF Whole, Level
<1> QED
  BY <1>15, <1>16

\* A search adds empty vectors.
LEMMA TouchedFact ==
    ASSUME NEW m, NEW log, NEW B, Vectors(m, log, B), NEW w \in Keyword,
           NEW t, t = touched(m, w)
    PROVE  /\ Vectors(t, log, B)
           /\ \A C : InVectors(m, C) => InVectors(t, C)
           /\ \A v \in DOMAIN t : v = w \/ (v \in DOMAIN m /\ t[v] = m[v])
<1>1. /\ DOMAIN t = (DOMAIN m) \cup {w}
      /\ \A v \in DOMAIN t : t[v] = Vector(m, v)
  BY DEF touched
<1>2. \A v \in DOMAIN m : v \in DOMAIN t /\ t[v] = m[v]
  BY <1>1 DEF Vector
<1>3. \A v \in DOMAIN t : v \notin DOMAIN m => t[v] = <<>>
  BY <1>1 DEF Vector
<1>4. ASSUME NEW v \in DOMAIN t
      PROVE  /\ t[v] \in Seq(B)
             /\ \A p \in DOMAIN t[v] : log[t[v][p]].kw = v
             /\ \A p, q \in DOMAIN t[v] : t[v][p] = t[v][q] => p = q
  <2>1. CASE v \in DOMAIN m
    <3>1. t[v] = m[v]
      BY <1>2, <2>1
    <3>2. /\ m[v] \in Seq(B)
          /\ \A p \in DOMAIN m[v] : log[m[v][p]].kw = v
          /\ \A p, q \in DOMAIN m[v] : m[v][p] = m[v][q] => p = q
      BY <2>1 DEF Vectors
    <3>3. t[v] \in Seq(B)
      BY <3>1, <3>2
    <3>4. \A p \in DOMAIN t[v] : log[t[v][p]].kw = v
      BY <3>1, <3>2
    <3>5. ASSUME NEW p \in DOMAIN t[v], NEW q \in DOMAIN t[v], t[v][p] = t[v][q] PROVE p = q
      BY <3>1, <3>2, <3>5
    <3> QED
      BY <3>3, <3>4, <3>5
  <2>2. CASE v \notin DOMAIN m
    <3>1. t[v] = <<>>
      BY <1>3, <2>2
    <3> QED
      BY <3>1
  <2> QED
    BY <2>1, <2>2
<1>5. DOMAIN t \subseteq Keyword
  BY <1>1 DEF Vectors
<1>6. \A C : InVectors(m, C) => InVectors(t, C)
  BY <1>2 DEF InVectors
<1>7. \A v \in DOMAIN t : v = w \/ (v \in DOMAIN m /\ t[v] = m[v])
  BY <1>1, <1>2
<1> QED
  BY <1>4, <1>5, <1>6, <1>7 DEF Vectors

LEMMA SearchStep ==
    ASSUME AInv, NEW w \in Keyword, Search(w)
    PROVE  AInv' /\ (Whole => Whole')
<1>1. /\ data' = [i \in Local |-> touched(data[i], w)]
      /\ searched' = searched \cup {w}
      /\ finalRes' \subseteq Ind
      /\ updateCounter' = updateCounter /\ calls' = calls
      /\ server' = server /\ keys' = keys /\ exist' = exist
  BY DEF Search
<1>2. \A i : Here(i)' = Here(i)
  BY <1>1 DEF Here
<1>3. ASSUME NEW i \in Local
      PROVE  /\ Vectors(data'[i], calls, Here(i))
             /\ \A C : InVectors(data[i], C) => InVectors(data'[i], C)
             /\ \A v \in DOMAIN data'[i] :
                   v = w \/ (v \in DOMAIN data[i] /\ data'[i][v] = data[i][v])
  <2>1. Vectors(data[i], calls, Here(i))
    BY DEF AInv
  <2>t. PICK t : t = touched(data[i], w)
    OBVIOUS
  <2>2. data'[i] = t
    BY <1>1, <2>t
  <2> QED
    BY <2>1, <2>2, <2>t, TouchedFact
<1>4. Numbers' /\ Tables'
  BY <1>1, <1>2 DEF AInv, Numbers, Tables
<1>5. AInv'
  BY <1>1, <1>2, <1>3, <1>4 DEF AInv
<1>6. ASSUME Whole PROVE Whole'
  <2>1. \A C : Spared(C, calls, Risked') \subseteq Spared(C, calls, Risked)
    BY <1>1 DEF Spared, Risked
  <2>2. ASSUME NEW i \in Local
        PROVE  /\ InVectors(data'[i], Spared(Here(i), calls, Risked'))
               /\ \A v \in DOMAIN data'[i] : data'[i][v] = <<>> => v \in searched'
    <3>1. InVectors(data'[i], Spared(Here(i), calls, Risked))
      BY <1>3, <1>6 DEF Whole
    <3>2. InVectors(data'[i], Spared(Here(i), calls, Risked'))
      BY <2>1, <3>1 DEF InVectors
    <3>3. \A v \in DOMAIN data[i] : data[i][v] = <<>> => v \in searched
      BY <1>6 DEF Whole
    <3> QED
      BY <1>1, <1>3, <3>2, <3>3
  <2>3. ASSUME NEW i \in Remote PROVE InFiles(server[i], Spared(Here(i), calls, Risked'))
    <3>1. InFiles(server[i], Spared(Here(i), calls, Risked))
      BY <1>6 DEF Whole
    <3> QED
      BY <2>1, <3>1 DEF InFiles
  <2> QED
    BY <1>1, <1>2, <2>2, <2>3 DEF Whole
<1> QED
  BY <1>5, <1>6

LEMMA Start == Init => AInv /\ Whole
<1> SUFFICES ASSUME Init PROVE AInv /\ Whole
  OBVIOUS
<1>1. /\ updateCounter = 0 /\ calls = <<>> /\ searched = {} /\ finalRes = {}
      /\ data = [i \in Local |-> NoData]
      /\ server = [i \in Remote |-> NoCiphers]
      /\ keys = [i \in Remote |-> NoKey]
      /\ exist = [i \in Remote |-> FALSE]
  BY DEF Init
<1>2. \A i \in Level : Here(i) = {}
  <2> SUFFICES ASSUME NEW i \in Level PROVE Here(i) = {}
    OBVIOUS
  <2>1. BlockAt(0, i) \subseteq 1 .. 0
    BY Types, BlockIs
  <2> QED
    BY <1>1, <2>1 DEF Here
<1>3. DOMAIN NoData = {} /\ DOMAIN NoCiphers = {}
  BY DEF NoData, NoCiphers
<1>4. \A i \in Local : data[i] = NoData /\ Here(i) = {}
  BY <1>1, <1>2 DEF Level
<1>5. \A i \in Remote : server[i] = NoCiphers /\ Here(i) = {} /\ keys[i] = NoKey /\ exist[i] = FALSE
  BY <1>1, <1>2 DEF Level
<1>6. Numbers
  BY <1>1, Types DEF Numbers
<1>7. Tables
  BY <1>1, <1>3, <1>5 DEF Tables
<1>s. \A log, R : Spared({}, log, R) = {}
  BY DEF Spared
<1>8. \A i \in Local : /\ Vectors(data[i], calls, Here(i))
                       /\ InVectors(data[i], Spared(Here(i), calls, Risked))
  BY <1>3, <1>4, <1>s DEF Vectors, InVectors
<1>9. \A i \in Remote : /\ Files(server[i], calls, Here(i), keys[i])
                        /\ InFiles(server[i], Spared(Here(i), calls, Risked))
  BY <1>3, <1>5, <1>s DEF Files, InFiles
<1>10. \A i \in Local : DOMAIN data[i] = {}
  BY <1>3, <1>4
<1> QED
  BY <1>6, <1>7, <1>8, <1>9, <1>10 DEF AInv, Whole

LEMMA Invariance == Spec => [](AInv /\ Whole)
<1>1. AInv /\ Whole /\ [Next]_vars => (AInv /\ Whole)'
  <2> SUFFICES ASSUME AInv, Whole, [Next]_vars PROVE AInv' /\ Whole'
    OBVIOUS
  <2>1. ASSUME NEW c \in Calls, NEW newKey \in KeyVal, Update(c, newKey)
        PROVE  AInv' /\ Whole'
    BY <2>1, UpdateStep
  <2>2. ASSUME NEW w \in Keyword, Search(w) PROVE AInv' /\ Whole'
    BY <2>2, SearchStep
  <2>3. CASE UNCHANGED vars
    BY <2>3 DEF vars, AInv, Numbers, Tables, Whole, Here, Risked
  <2> QED
    BY <2>1, <2>2, <2>3 DEF Next
<1> QED
  BY <1>1, Start, PTL DEF Spec

-----------------------------------------------------------------------------
(* The invariants of the runs.                                             *)

\* The levels hold updates that were made, and the tables keep their types.
THEOREM TypesKept == Spec => []TypeOK
<1>1. AInv => TypeOK
  <2> SUFFICES ASSUME AInv PROVE TypeOK
    OBVIOUS
  <2>n. PICK n \in Nat : n = updateCounter
    BY CounterType
  <2>1. ASSUME NEW i \in Level PROVE Content(i) \subseteq 1 .. updateCounter
    <3>1. \A c \in Copies(i) : Value(c) \in Here(i)
      BY Held
    <3>2. Here(i) \subseteq 1 .. n
      BY <2>n, Types, BlockIs DEF Here
    <3> QED
      BY <2>n, <3>1, <3>2 DEF Content
  <2>2. /\ calls \in Seq(Calls)
        /\ updateCounter \in 0 .. MaxUpdates /\ Len(calls) = updateCounter
        /\ searched \subseteq Keyword /\ finalRes \subseteq Ind
    BY DEF AInv, Numbers
  <2>3. \A i \in Remote : keys[i] \in KeyVal \cup {NoKey} /\ exist[i] \in BOOLEAN
    BY DEF AInv, Tables
  <2> QED
    BY <2>1, <2>2, <2>3 DEF TypeOK
<1> QED
  BY <1>1, Invariance, PTL

\* Things that correspond one to one are as many.
LEMMA SameNumber ==
    ASSUME NEW S, NEW T, IsFiniteSet(T), NEW f \in [S -> T],
           \A c, d \in S : f[c] = f[d] => c = d,
           \A v \in T : \E c \in S : f[c] = v
    PROVE  Cardinality(S) = Cardinality(T)
<1>1. f \in Injection(S, T) /\ f \in Surjection(S, T)
  BY DEF Injection, Surjection, IsInjective
<1> QED
  BY <1>1, FS_Injection

LEMMA BlockHere ==
    ASSUME AInv, NEW i \in Level
    PROVE  Block(i) = Here(i) /\ (Bit(updateCounter, i) = 1 <=> Here(i) # {})
<1>n. PICK n \in Nat : n = updateCounter
  BY CounterType
<1>1. i \in Nat
  BY Types
<1> QED
  BY <1>1, <1>n, BlockIs DEF Block, Here, Prefix

\* Whatever is merged, every copy of an update lies in the level that the
\* binary counter assigns to it, and there is one copy of it there.
THEOREM BlocksKept == Spec => []InItsBlock
<1>1. AInv => InItsBlock
  <2> SUFFICES ASSUME AInv, NEW i \in Level
               PROVE  /\ Content(i) \subseteq Block(i)
                      /\ Cardinality(Copies(i)) = Cardinality(Content(i))
    BY DEF InItsBlock
  <2>n. PICK n \in Nat : n = updateCounter
    BY CounterType
  <2>1. /\ \A c \in Copies(i) : Value(c) \in Here(i)
        /\ \A c, d \in Copies(i) : Value(c) = Value(d) => c = d
    BY Held
  <2>2. Content(i) \subseteq Block(i)
    BY <2>1, BlockHere DEF Content
  <2>3. IsFiniteSet(Content(i))
    <3>1. Here(i) \subseteq 1 .. n
      BY <2>n, Types, BlockIs DEF Here
    <3>2. Content(i) \subseteq 1 .. n
      BY <2>1, <3>1 DEF Content
    <3>3. IsFiniteSet(1 .. n)
      BY FS_Interval
    <3> QED
      BY <3>2, <3>3, FS_Subset
  <2>4. Cardinality(Copies(i)) = Cardinality(Content(i))
    <3>f. PICK f : f = [c \in Copies(i) |-> Value(c)]
      OBVIOUS
    <3>1. f \in [Copies(i) -> Content(i)]
      BY <3>f DEF Content
    <3>2. \A c, d \in Copies(i) : f[c] = f[d] => c = d
      BY <2>1, <3>f
    <3>3. \A v \in Content(i) : \E c \in Copies(i) : f[c] = v
      BY <3>f DEF Content
    <3> QED
      BY <2>3, <3>1, <3>2, <3>3, SameNumber
  <2> QED
    BY <2>2, <2>4
<1> QED
  BY <1>1, Invariance, PTL

-----------------------------------------------------------------------------
(* What a search finds.                                                    *)

\* Positions are smaller than the number of updates.
LEMMA PositionBound ==
    ASSUME AInv, NEW i \in Remote, NEW w, NEW p \in Nat,
           <<keys[i], w, p>> \in DOMAIN server[i]
    PROVE  p < updateCounter
<1>n. PICK n \in Nat : n = updateCounter
  BY CounterType
<1>s. PICK s, y : s = server[i] /\ y = keys[i]
  OBVIOUS
<1>1. Files(s, calls, Here(i), y)
  BY <1>s DEF AInv
<1>2. Here(i) \subseteq 1 .. n
  <2>1. i \in Nat
    BY Types DEF Level
  <2> QED
    BY <1>n, <2>1, BlockIs DEF Here
<1>a. PICK a : a = <<y, w, p>>
  OBVIOUS
<1>3. a \in DOMAIN s /\ a[2] = w /\ a[3] = p
  BY <1>a, <1>s
<1>4. \A q \in 0 .. p : <<y, w, q>> \in DOMAIN s
  BY <1>1, <1>3 DEF Files
<1>f. PICK f : f = [q \in 0 .. p |-> s[<<y, w, q>>]]
  OBVIOUS
<1>5. f \in [0 .. p -> 1 .. n]
  BY <1>1, <1>2, <1>4, <1>f DEF Files
<1>6. \A q, k \in 0 .. p : f[q] = f[k] => q = k
  <2> SUFFICES ASSUME NEW q \in 0 .. p, NEW k \in 0 .. p, f[q] = f[k] PROVE q = k
    OBVIOUS
  <2>1. <<y, w, q>> = <<y, w, k>>
    BY <1>1, <1>4, <1>f DEF Files
  <2> QED
    BY <2>1
<1>7. f \in Injection(0 .. p, 1 .. n)
  BY <1>5, <1>6 DEF Injection, IsInjective
<1>8. IsFiniteSet(1 .. n) /\ Cardinality(1 .. n) = n /\ Cardinality(0 .. p) = p + 1
  <2>1. IsFiniteSet(1 .. n) /\ Cardinality(1 .. n) = IF 1 > n THEN 0 ELSE n - 1 + 1
    BY FS_Interval
  <2>2. Cardinality(0 .. p) = IF 0 > p THEN 0 ELSE p - 0 + 1
    BY FS_Interval
  <2> QED
    BY <2>1, <2>2
<1>9. Cardinality(0 .. p) <= Cardinality(1 .. n)
  BY <1>7, <1>8, FS_Injection
<1> QED
  BY <1>8, <1>9, <1>n

\* The loop of AmortizedBASServer::search ends at the number of entries that
\* the keyword has.
LEMMA ServerSearch ==
    ASSUME AInv, NEW i \in Remote, NEW w
    PROVE  \E m \in Nat :
              /\ \A p \in Nat : <<keys[i], w, p>> \in DOMAIN server[i] <=> p < m
              /\ search(i, w, keys[i]) = [k \in 1 .. m |-> server[i][<<keys[i], w, k - 1>>]]
<1>n. PICK n \in Nat : n = updateCounter /\ n <= MaxUpdates
  BY CounterType
<1>s. PICK s, y : s = server[i] /\ y = keys[i]
  OBVIOUS
<1>1. Files(s, calls, Here(i), y)
  BY <1>s DEF AInv
<1>2. \A p \in Nat : <<y, w, p>> \in DOMAIN s => p < n
  BY <1>n, <1>s, PositionBound
<1> DEFINE T == {p \in Nat : <<y, w, p>> \notin DOMAIN s}
<1>3. T \subseteq Nat /\ n \in T
  BY <1>2
<1> HIDE DEF T
<1>4. PICK m \in T : \A q \in T : m <= q
  BY <1>3, Minimum
<1>5. m \in Nat /\ m <= n
  BY <1>3, <1>4
<1>6. ASSUME NEW p \in Nat PROVE <<y, w, p>> \in DOMAIN s <=> p < m
  <2>1. ASSUME p < m PROVE <<y, w, p>> \in DOMAIN s
    <3>1. p \notin T
      BY <1>4, <1>5, <2>1
    <3> QED
      BY <3>1 DEF T
  <2>2. ASSUME m <= p, <<y, w, p>> \in DOMAIN s PROVE FALSE
    <3>a. PICK a : a = <<y, w, p>>
      OBVIOUS
    <3>1. a \in DOMAIN s /\ a[2] = w /\ a[3] = p
      BY <2>2, <3>a
    <3>2. <<y, w, m>> \in DOMAIN s
      BY <1>1, <1>5, <2>2, <3>1 DEF Files
    <3> QED
      BY <3>2 DEF T
  <2> QED
    BY <1>5, <2>1, <2>2
<1>r. PICK R : R = {p \in 0 .. MaxUpdates : \A q \in 0 .. p : <<y, w, q>> \in DOMAIN s}
  OBVIOUS
<1>7. R = 0 .. m - 1
  <2>1. ASSUME NEW p \in 0 .. MaxUpdates
        PROVE  (\A q \in 0 .. p : <<y, w, q>> \in DOMAIN s) <=> p < m
    <3>1. ASSUME p < m PROVE \A q \in 0 .. p : <<y, w, q>> \in DOMAIN s
      BY <1>5, <1>6, <3>1
    <3>2. ASSUME \A q \in 0 .. p : <<y, w, q>> \in DOMAIN s PROVE p < m
      <4>1. p \in 0 .. p /\ p \in Nat
        OBVIOUS
      <4>2. <<y, w, p>> \in DOMAIN s
        BY <3>2, <4>1
      <4> QED
        BY <1>6, <4>1, <4>2
    <3> QED
      BY <3>1, <3>2
  <2>2. R = {p \in 0 .. MaxUpdates : p < m}
    BY <1>r, <2>1
  <2> QED
    BY <1>5, <1>n, <2>2, Types
<1>8. Cardinality(R) = m
  BY <1>5, <1>7, FS_Interval
<1>9. search(i, w, keys[i]) = [k \in 1 .. m |-> s[<<y, w, k - 1>>]]
  <2>1. search(i, w, y) = [k \in 1 .. Cardinality(R) |-> server[i][<<y, w, k - 1>>]]
    BY <1>r, <1>s, Zenon DEF search
  <2> QED
    BY <1>8, <1>s, <2>1
<1> QED
  BY <1>5, <1>6, <1>9, <1>s

\* The client's records of a server level agree with the server, and a search
\* under the client's key misses nothing of it.
THEOREM ServerKept == Spec => []ServerReadable
<1>1. AInv => ServerReadable
  <2> SUFFICES ASSUME AInv, NEW i \in Remote
               PROVE  /\ exist[i] <=> Bit(updateCounter, i) = 1
                      /\ exist[i] <=> keys[i] # NoKey
                      /\ exist[i] <=> DOMAIN server[i] # {}
                      /\ Content(i) = UNION {Range(search(i, w, keys[i])) : w \in Keyword}
    BY DEF ServerReadable
  <2>0. i \in Level
    BY DEF Level
  <2>1. /\ exist[i] <=> Bit(updateCounter, i) = 1
        /\ exist[i] <=> keys[i] # NoKey
        /\ exist[i] <=> DOMAIN server[i] # {}
    BY <2>0, BlockHere DEF AInv, Tables
  <2>s. PICK s, y : s = server[i] /\ y = keys[i]
    OBVIOUS
  <2>2. Files(s, calls, Here(i), y)
    BY <2>s DEF AInv
  <2>3. \A v : v \in Content(i) <=> \E a \in DOMAIN s : v = s[a]
    <3>1. \A a : i \notin Local /\ <<i, a>>[1] = i /\ <<i, a>>[2] = a
      BY Types
    <3>2. \A a : Value(<<i, a>>) = s[a]
      BY <2>s, <3>1 DEF Value
    <3>3. \A v : v \in Content(i) <=> \E c \in Copies(i) : v = Value(c)
      BY DEF Content
    <3>4. \A c : c \in Copies(i) <=> \E a \in DOMAIN s : c = <<i, a>>
      BY <2>s, RemoteCopy
    <3>5. ASSUME NEW c \in Copies(i) PROVE \E a \in DOMAIN s : Value(c) = s[a]
      <4>1. PICK a \in DOMAIN s : c = <<i, a>>
        BY <3>4
      <4> QED
        BY <3>2, <4>1
    <3>6. ASSUME NEW a \in DOMAIN s PROVE \E c \in Copies(i) : s[a] = Value(c)
      <4>1. PICK c : c = <<i, a>>
        OBVIOUS
      <4> QED
        BY <3>2, <3>4, <4>1
    <3> QED
      BY <3>3, <3>5, <3>6
  <2>4. ASSUME NEW w, NEW v
        PROVE  v \in Range(search(i, w, y)) <=>
                  \E p \in Nat : <<y, w, p>> \in DOMAIN s /\ v = s[<<y, w, p>>]
    <3>1. PICK m \in Nat :
              /\ \A p \in Nat : <<y, w, p>> \in DOMAIN s <=> p < m
              /\ search(i, w, y) = [k \in 1 .. m |-> s[<<y, w, k - 1>>]]
      <4>1. PICK m \in Nat :
                /\ \A p \in Nat : <<keys[i], w, p>> \in DOMAIN server[i] <=> p < m
                /\ search(i, w, keys[i]) =
                      [k \in 1 .. m |-> server[i][<<keys[i], w, k - 1>>]]
        BY ServerSearch
      <4> QED
        BY <2>s, <4>1
    <3>2. v \in Range(search(i, w, y)) <=> \E k \in 1 .. m : v = s[<<y, w, k - 1>>]
      BY <3>1 DEF Range
    <3>3. ASSUME NEW k \in 1 .. m, v = s[<<y, w, k - 1>>]
          PROVE  \E p \in Nat : <<y, w, p>> \in DOMAIN s /\ v = s[<<y, w, p>>]
      <4>1. k - 1 \in Nat /\ k - 1 < m
        OBVIOUS
      <4> QED
        BY <3>1, <3>3, <4>1
    <3>4. ASSUME NEW p \in Nat, <<y, w, p>> \in DOMAIN s, v = s[<<y, w, p>>]
          PROVE  \E k \in 1 .. m : v = s[<<y, w, k - 1>>]
      <4>1. p < m
        BY <3>1, <3>4
      <4>2. p + 1 \in 1 .. m /\ (p + 1) - 1 = p
        BY <4>1
      <4> QED
        BY <3>4, <4>2
    <3> QED
      BY <3>2, <3>3, <3>4
  <2>5. ASSUME NEW v
        PROVE  (\E a \in DOMAIN s : v = s[a]) <=>
                  \E w \in Keyword : \E p \in Nat :
                     <<y, w, p>> \in DOMAIN s /\ v = s[<<y, w, p>>]
    <3>1. ASSUME NEW a \in DOMAIN s, v = s[a]
          PROVE  \E w \in Keyword : \E p \in Nat :
                    <<y, w, p>> \in DOMAIN s /\ v = s[<<y, w, p>>]
      <4>1. a = <<y, a[2], a[3]>> /\ a[2] \in Keyword /\ a[3] \in Nat
        BY <2>2 DEF Files
      <4>2. PICK w \in Keyword, p \in Nat : w = a[2] /\ p = a[3]
        BY <4>1
      <4>3. a = <<y, w, p>>
        BY <4>1, <4>2
      <4>4. <<y, w, p>> \in DOMAIN s /\ v = s[<<y, w, p>>]
        BY <3>1, <4>3
      <4> QED
        BY <4>4
    <3>2. ASSUME NEW w \in Keyword, NEW p \in Nat,
                 <<y, w, p>> \in DOMAIN s, v = s[<<y, w, p>>]
          PROVE  \E a \in DOMAIN s : v = s[a]
      BY <3>2
    <3> QED
      BY <3>1, <3>2
  <2>6. Content(i) = UNION {Range(search(i, w, y)) : w \in Keyword}
    <3>1. \A v : v \in Content(i) <=> \E w \in Keyword : v \in Range(search(i, w, y))
      <4>1. \A v : v \in Content(i) <=>
                     \E w \in Keyword : \E p \in Nat :
                        <<y, w, p>> \in DOMAIN s /\ v = s[<<y, w, p>>]
        BY <2>3, <2>5
      <4>2. \A w, v : v \in Range(search(i, w, y)) <=>
                        \E p \in Nat : <<y, w, p>> \in DOMAIN s /\ v = s[<<y, w, p>>]
        BY <2>4
      <4> QED
        BY <4>1, <4>2
    <3> QED
      BY <3>1
  <2> QED
    BY <2>1, <2>6, <2>s
<1> QED
  BY <1>1, Invariance, PTL

-----------------------------------------------------------------------------
(* What a search finds.                                                    *)

\* Place p of keyword w in level i holds v.
Entry(i, w, p, v) ==
    \/ /\ i \in Local
       /\ w \in DOMAIN data[i]
       /\ p \in DOMAIN data[i][w]
       /\ v = data[i][w][p]
    \/ /\ i \in Remote
       /\ p \in Nat \ {0}
       /\ <<keys[i], w, p - 1>> \in DOMAIN server[i]
       /\ v = server[i][<<keys[i], w, p - 1>>]

LEMMA LocalPart ==
    ASSUME NEW i \in Local, NEW w, NEW p
    PROVE  /\ p \in DOMAIN Vector(data[i], w) <=>
                 w \in DOMAIN data[i] /\ p \in DOMAIN data[i][w]
           /\ w \in DOMAIN data[i] => Vector(data[i], w) = data[i][w]
BY DEF Vector

LEMMA RemotePart ==
    ASSUME AInv, NEW i \in Remote, NEW w, NEW p
    PROVE  /\ p \in DOMAIN search(i, w, keys[i]) <=>
                 p \in Nat \ {0} /\ <<keys[i], w, p - 1>> \in DOMAIN server[i]
           /\ p \in DOMAIN search(i, w, keys[i]) =>
                 search(i, w, keys[i])[p] = server[i][<<keys[i], w, p - 1>>]
<1>1. PICK m \in Nat :
          /\ \A q \in Nat : <<keys[i], w, q>> \in DOMAIN server[i] <=> q < m
          /\ search(i, w, keys[i]) = [k \in 1 .. m |-> server[i][<<keys[i], w, k - 1>>]]
  BY ServerSearch
<1>2. p \in DOMAIN search(i, w, keys[i]) <=> p \in 1 .. m
  BY <1>1
<1>3. p \in 1 .. m <=> p \in Nat \ {0} /\ <<keys[i], w, p - 1>> \in DOMAIN server[i]
  <2>1. ASSUME p \in Nat \ {0}
        PROVE  p \in 1 .. m <=> <<keys[i], w, p - 1>> \in DOMAIN server[i]
    <3>1. PICK q \in Nat : q = p - 1
      BY <2>1
    <3>2. <<keys[i], w, q>> \in DOMAIN server[i] <=> q < m
      BY <1>1
    <3>3. q < m <=> p \in 1 .. m
      BY <2>1, <3>1
    <3> QED
      BY <3>1, <3>2, <3>3
  <2> QED
    BY <2>1
<1> QED
  BY <1>1, <1>2, <1>3

\* A search collects exactly what the levels hold.
LEMMA SearchFact ==
    ASSUME AInv, NEW w, NEW e
    PROVE  e \in encIndexes(w) <=>
              \E i \in Level : \E p, v : Entry(i, w, p, v) /\ e = <<i, p, v>>
<1>p. PICK part : part = [i \in Level |-> IF i \in Local THEN Vector(data[i], w)
                                          ELSE search(i, w, keys[i])]
  OBVIOUS
<1>l. Local \subseteq Level /\ Remote \subseteq Level
  BY DEF Level
<1>1. e \in encIndexes(w) <=>
         \E i \in Local \cup {i \in Remote : exist[i]} :
            \E p \in DOMAIN part[i] : e = <<i, p, part[i][p]>>
  BY <1>l, <1>p DEF encIndexes
<1>2. ASSUME NEW i \in Local, NEW p, NEW v
      PROVE  Entry(i, w, p, v) <=> p \in DOMAIN part[i] /\ v = part[i][p]
  <2>1. part[i] = Vector(data[i], w)
    BY <1>l, <1>p
  <2>2. i \notin Remote
    BY <1>2, Types
  <2>3. Entry(i, w, p, v) <=>
           w \in DOMAIN data[i] /\ p \in DOMAIN data[i][w] /\ v = data[i][w][p]
    BY <1>2, <2>2 DEF Entry
  <2> QED
    BY <2>1, <2>3, LocalPart
<1>3. ASSUME NEW i \in Remote, NEW p, NEW v
      PROVE  Entry(i, w, p, v) <=> p \in DOMAIN part[i] /\ v = part[i][p]
  <2>1. part[i] = search(i, w, keys[i])
    BY <1>l, <1>p, Types
  <2>2. i \notin Local
    BY <1>3, Types
  <2>3. Entry(i, w, p, v) <=>
           /\ p \in Nat \ {0}
           /\ <<keys[i], w, p - 1>> \in DOMAIN server[i]
           /\ v = server[i][<<keys[i], w, p - 1>>]
    BY <1>3, <2>2 DEF Entry
  <2> QED
    BY <2>1, <2>3, RemotePart
<1>4. ASSUME NEW i \in Remote, NEW p, NEW v, Entry(i, w, p, v) PROVE exist[i]
  <2>1. DOMAIN server[i] # {}
    BY <1>4, Types DEF Entry
  <2> QED
    BY <2>1 DEF AInv, Tables
<1>5. ASSUME e \in encIndexes(w)
      PROVE  \E i \in Level : \E p, v : Entry(i, w, p, v) /\ e = <<i, p, v>>
  <2>1. PICK i \in Level : \E p \in DOMAIN part[i] : e = <<i, p, part[i][p]>>
    BY <1>1, <1>5, <1>l
  <2>2. PICK p \in DOMAIN part[i] : e = <<i, p, part[i][p]>>
    BY <2>1
  <2>3. Entry(i, w, p, part[i][p])
    BY <1>2, <1>3, <2>2 DEF Level
  <2> QED
    BY <2>2, <2>3
<1>6. ASSUME NEW i \in Level, NEW p, NEW v, Entry(i, w, p, v), e = <<i, p, v>>
      PROVE  e \in encIndexes(w)
  <2>1. p \in DOMAIN part[i] /\ v = part[i][p]
    BY <1>2, <1>3, <1>6 DEF Level
  <2>2. i \in Local \cup {k \in Remote : exist[k]}
    BY <1>4, <1>6 DEF Level
  <2> QED
    BY <1>1, <1>6, <2>1, <2>2
<1> QED
  BY <1>5, <1>6

\* What a place holds is an update of the keyword in the block of the level,
\* and no other place of the level holds it.
LEMMA EntryHeld ==
    ASSUME AInv, NEW i \in Level, NEW w, NEW p, NEW v, Entry(i, w, p, v)
    PROVE  /\ v \in Here(i) /\ calls[v].kw = w
           /\ \A q : Entry(i, w, q, v) => p = q
<1>1. CASE i \in Local
  <2>m. PICK m : m = data[i] /\ Vectors(m, calls, Here(i))
    BY <1>1 DEF AInv
  <2>0. i \notin Remote
    BY <1>1, Types
  <2>1. w \in DOMAIN m /\ p \in DOMAIN m[w] /\ v = m[w][p]
    BY <2>0, <2>m DEF Entry
  <2>2. v \in Here(i) /\ calls[v].kw = w
    <3>1. m[w] \in Seq(Here(i)) /\ calls[m[w][p]].kw = w
      BY <2>1, <2>m DEF Vectors
    <3> QED
      BY <2>1, <3>1
  <2>3. ASSUME NEW q, Entry(i, w, q, v) PROVE p = q
    <3>1. q \in DOMAIN m[w] /\ v = m[w][q]
      BY <2>0, <2>3, <2>m DEF Entry
    <3> QED
      BY <2>1, <2>m, <3>1 DEF Vectors
  <2> QED
    BY <2>2, <2>3
<1>2. CASE i \in Remote
  <2>0. i \notin Local
    BY <1>2, Types
  <2>s. PICK s, y : s = server[i] /\ y = keys[i] /\ Files(s, calls, Here(i), y)
    BY <1>2 DEF AInv
  <2>1. p \in Nat \ {0} /\ <<y, w, p - 1>> \in DOMAIN s /\ v = s[<<y, w, p - 1>>]
    BY <2>0, <2>s DEF Entry
  <2>a. PICK a : a = <<y, w, p - 1>>
    OBVIOUS
  <2>2. a \in DOMAIN s /\ v = s[a] /\ a[2] = w /\ a[3] = p - 1
    BY <2>1, <2>a
  <2>3. v \in Here(i) /\ calls[v].kw = w
    BY <2>2, <2>s DEF Files
  <2>4. ASSUME NEW q, Entry(i, w, q, v) PROVE p = q
    <3>1. q \in Nat \ {0} /\ <<y, w, q - 1>> \in DOMAIN s /\ v = s[<<y, w, q - 1>>]
      BY <2>0, <2>4, <2>s DEF Entry
    <3>b. PICK b : b = <<y, w, q - 1>>
      OBVIOUS
    <3>2. b \in DOMAIN s /\ v = s[b] /\ b[3] = q - 1
      BY <3>1, <3>b
    <3>3. a = b
      BY <2>2, <2>s, <3>2 DEF Files
    <3>4. p - 1 = q - 1
      BY <2>2, <3>2, <3>3
    <3> QED
      BY <2>1, <3>1, <3>4
  <2> QED
    BY <2>3, <2>4
<1> QED
  BY <1>1, <1>2 DEF Level

\* Every update of the block that is not lost is at such a place.
LEMMA EntryWhole ==
    ASSUME AInv, Whole, NEW i \in Level, NEW v \in Here(i), calls[v].kw \notin Risked
    PROVE  \E p : Entry(i, calls[v].kw, p, v)
<1>0. PICK C : C = Spared(Here(i), calls, Risked) /\ v \in C
  BY DEF Spared
<1>1. CASE i \in Local
  <2>m. PICK m : m = data[i] /\ Vectors(m, calls, Here(i)) /\ InVectors(m, C)
    BY <1>0, <1>1 DEF AInv, Whole
  <2>1. PICK w \in DOMAIN m : \E p \in DOMAIN m[w] : m[w][p] = v
    BY <1>0, <2>m DEF InVectors
  <2>2. PICK p \in DOMAIN m[w] : m[w][p] = v
    BY <2>1
  <2>3. calls[v].kw = w
    BY <2>2, <2>m DEF Vectors
  <2>4. Entry(i, w, p, v)
    BY <1>1, <2>2, <2>m DEF Entry
  <2> QED
    BY <2>3, <2>4
<1>2. CASE i \in Remote
  <2>s. PICK s, y : /\ s = server[i] /\ y = keys[i]
                    /\ Files(s, calls, Here(i), y) /\ InFiles(s, C)
    BY <1>0, <1>2 DEF AInv, Whole
  <2>1. PICK a \in DOMAIN s : s[a] = v
    BY <1>0, <2>s DEF InFiles
  <2>2. a = <<y, a[2], a[3]>> /\ a[3] \in Nat /\ calls[v].kw = a[2]
    BY <2>1, <2>s DEF Files
  <2>3. PICK p : p = a[3] + 1
    OBVIOUS
  <2>4. p \in Nat \ {0} /\ p - 1 = a[3]
    BY <2>2, <2>3
  <2>5. <<y, a[2], p - 1>> = a
    BY <2>2, <2>4
  <2>6. Entry(i, a[2], p, v)
    BY <1>2, <2>1, <2>4, <2>5, <2>s DEF Entry
  <2> QED
    BY <2>2, <2>6
<1> QED
  BY <1>1, <1>2 DEF Level

\* The blocks of the levels make up all updates.
LEMMA SomeLevel ==
    ASSUME AInv, NEW v
    PROVE  v \in 1 .. updateCounter <=> \E i \in Level : v \in Here(i)
<1>n. PICK n \in Nat : n = updateCounter /\ n <= MaxUpdates
  BY CounterType
<1>1. ASSUME v \in 1 .. n PROVE \E i \in Level : v \in Here(i)
  <2>1. PICK m \in {LocalSize, Levels} : MaxUpdates < 2 ^ m
    BY AmortizedAssumption
  <2>2. m \in Nat /\ 2 ^ m \in Nat
    BY <2>1, PowerType, Types
  <2>3. n < 2 ^ m
    BY <1>n, <2>1, <2>2, Types
  <2>4. PICK i \in 0 .. m - 1 : v \in BlockAt(n, i)
    BY <1>1, <2>2, <2>3, BlocksCover
  <2>5. i \in Level
    BY <2>1, <2>4, Types DEF Level, Local, Remote
  <2> QED
    BY <1>n, <2>4, <2>5 DEF Here
<1>2. ASSUME NEW i \in Level, v \in Here(i) PROVE v \in 1 .. n
  <2>1. Here(i) \subseteq 1 .. n
    BY <1>n, Types, BlockIs DEF Here
  <2> QED
    BY <1>2, <2>1
<1> QED
  BY <1>1, <1>2, <1>n

\* The updates of a keyword.
Made(w) == {u \in 1 .. updateCounter : calls[u].kw = w}

\* A search finds updates of its keyword, each in one place.
LEMMA FoundFact ==
    ASSUME AInv, NEW w
    PROVE  /\ \A e \in encIndexes(w) : e[3] \in Made(w)
           /\ \A d, e \in encIndexes(w) : d[3] = e[3] => d = e
<1>1. ASSUME NEW e \in encIndexes(w)
      PROVE  \E i \in Level : \E p, v :
                /\ Entry(i, w, p, v) /\ e = <<i, p, v>> /\ e[3] = v
                /\ v \in Here(i) /\ v \in Made(w)
  <2>1. PICK i \in Level : \E p, v : Entry(i, w, p, v) /\ e = <<i, p, v>>
    BY <1>1, SearchFact
  <2>2. PICK p, v : Entry(i, w, p, v) /\ e = <<i, p, v>>
    BY <2>1
  <2>3. e[3] = v
    BY <2>2
  <2>4. v \in Here(i) /\ calls[v].kw = w
    BY <2>2, EntryHeld
  <2>5. v \in 1 .. updateCounter
    BY <2>4, SomeLevel
  <2> QED
    BY <2>2, <2>3, <2>4, <2>5 DEF Made
<1>2. ASSUME NEW d \in encIndexes(w), NEW e \in encIndexes(w), d[3] = e[3] PROVE d = e
  <2>1. PICK i \in Level : \E p, v :
           Entry(i, w, p, v) /\ d = <<i, p, v>> /\ d[3] = v /\ v \in Here(i)
    BY <1>1
  <2>2. PICK p, v : Entry(i, w, p, v) /\ d = <<i, p, v>> /\ d[3] = v /\ v \in Here(i)
    BY <2>1
  <2>3. PICK k \in Level : \E q, u :
           Entry(k, w, q, u) /\ e = <<k, q, u>> /\ e[3] = u /\ u \in Here(k)
    BY <1>1
  <2>4. PICK q, u : Entry(k, w, q, u) /\ e = <<k, q, u>> /\ e[3] = u /\ u \in Here(k)
    BY <2>3
  <2>5. u = v
    BY <1>2, <2>2, <2>4
  <2>6. i = k
    <3>1. updateCounter \in Nat /\ i \in Nat /\ k \in Nat
      BY CounterType, Types
    <3> QED
      BY <2>2, <2>4, <2>5, <3>1, BlocksApart DEF Here
  <2>7. p = q
    BY <2>2, <2>4, <2>5, <2>6, EntryHeld
  <2> QED
    BY <2>2, <2>4, <2>5, <2>6, <2>7
<1> QED
  BY <1>1, <1>2

\* It finds them all, if its keyword is not at risk.
LEMMA AllFound ==
    ASSUME AInv, Whole, NEW w, w \notin Risked, NEW v \in Made(w)
    PROVE  \E e \in encIndexes(w) : e[3] = v
<1>1. v \in 1 .. updateCounter /\ calls[v].kw = w
  BY DEF Made
<1>2. PICK i \in Level : v \in Here(i)
  BY <1>1, SomeLevel
<1>3. PICK p : Entry(i, w, p, v)
  BY <1>1, <1>2, EntryWhole
<1>4. PICK e : e = <<i, p, v>>
  OBVIOUS
<1>5. e \in encIndexes(w)
  BY <1>3, <1>4, SearchFact
<1> QED
  BY <1>4, <1>5

\* Values and the places a search takes them from.
LEMMA SameThirds ==
    ASSUME NEW S, NEW T, IsFiniteSet(T),
           \A e \in S : e[3] \in T,
           \A d, e \in S : d[3] = e[3] => d = e,
           \A v \in T : \E e \in S : e[3] = v
    PROVE  Cardinality(S) = Cardinality(T)
<1> DEFINE f == [e \in S |-> e[3]]
<1>1. f \in [S -> T]
  OBVIOUS
<1>2. /\ \A c, d \in S : f[c] = f[d] => c = d
      /\ \A v \in T : \E c \in S : f[c] = v
  OBVIOUS
<1> HIDE DEF f
<1> QED
  BY <1>1, <1>2, SameNumber

LEMMA CompleteFact ==
    ASSUME AInv, Whole, NEW w, w \notin Risked
    PROVE  Complete(w)
<1>s. PICK S : S = encIndexes(w)
  OBVIOUS
<1>1. /\ \A e \in S : e[3] \in Made(w)
      /\ \A d, e \in S : d[3] = e[3] => d = e
      /\ \A v \in Made(w) : \E e \in S : e[3] = v
  BY <1>s, FoundFact, AllFound
<1>f. PICK found : found = {e[3] : e \in S}
  OBVIOUS
<1>2. found = Made(w)
  BY <1>1, <1>f
<1>3. IsFiniteSet(Made(w))
  <2>1. updateCounter \in Nat
    BY CounterType
  <2>2. IsFiniteSet(1 .. updateCounter)
    BY <2>1, FS_Interval
  <2> QED
    BY <2>2, FS_Subset DEF Made
<1>4. Cardinality(S) = Cardinality(Made(w))
  BY <1>1, <1>3, SameThirds
<1> QED
  BY <1>2, <1>4, <1>f, <1>s DEF Complete, Made

\* A caller of Amortized::update that does all its updates before the first
\* Amortized::search finds with each search every update of its keyword, once,
\* if its keywords are short enough to be read back from the values (Calls).
THEOREM Completeness ==
    ASSUME ~UpdateAfterSearch
    PROVE  Spec => []AlwaysComplete
<1>1. AInv /\ Whole => AlwaysComplete
  BY CompleteFact DEF AlwaysComplete, Risked
<1> QED
  BY <1>1, Invariance, PTL

\* Every update of a keyword never searched is found by its first search.
FirstComplete == \A w \in Keyword \ searched : Complete(w)

\* Whatever the caller does: an empty vector that Amortized::search leaves in a
\* client level makes a later merge drop updates of the keyword that was
\* searched, and of no other.  The calls are those of Calls: a longer keyword
\* would be lost without a search, to the merge that misreads it.
THEOREM FirstSearchComplete == Spec => []FirstComplete
<1>1. AInv /\ Whole => FirstComplete
  BY CompleteFact DEF FirstComplete, Risked
<1> QED
  BY <1>1, Invariance, PTL

-----------------------------------------------------------------------------
(* The abstract index.                                                     *)

\* The updates that inserted or deleted x under w.
Those(w, x, op) ==
    {u \in 1 .. updateCounter : calls[u].kw = w /\ calls[u].ind = x /\ calls[u].op = op}

Totals ==
    [w \in Keyword |-> [x \in Ind |->
        Cardinality(Those(w, x, "INS")) - Cardinality(Those(w, x, "DEL"))]]

CountsRight == Balance = Totals

\* A search counts the updates that were made.
LEMMA CountingFact ==
    ASSUME ~UpdateAfterSearch
    PROVE  AInv /\ Whole => CountsRight
<1> SUFFICES ASSUME AInv, Whole PROVE CountsRight
  OBVIOUS
<1>1. ASSUME NEW w, NEW x, NEW op
      PROVE  Tally(encIndexes(w), x, op) = Cardinality(Those(w, x, op))
  <2>s. PICK S : S = {e \in encIndexes(w) : calls[e[3]].ind = x /\ calls[e[3]].op = op}
    OBVIOUS
  <2>t. PICK T : T = Those(w, x, op)
    OBVIOUS
  <2>1. /\ \A e \in encIndexes(w) : e[3] \in Made(w)
        /\ \A d, e \in encIndexes(w) : d[3] = e[3] => d = e
        /\ \A v \in Made(w) : \E e \in encIndexes(w) : e[3] = v
    BY FoundFact, AllFound DEF Risked
  <2>2. \A v : v \in T <=> v \in Made(w) /\ calls[v].ind = x /\ calls[v].op = op
    BY <2>t DEF Those, Made
  <2>3. IsFiniteSet(T)
    <3>0. updateCounter \in Nat
      BY CounterType
    <3>1. IsFiniteSet(1 .. updateCounter)
      BY <3>0, FS_Interval
    <3> QED
      BY <2>t, <3>1, FS_Subset DEF Those
  <2>4. Tally(encIndexes(w), x, op) = Cardinality(S)
    BY <2>s DEF Tally
  <2>5. /\ \A e \in S : e[3] \in T
        /\ \A d, e \in S : d[3] = e[3] => d = e
        /\ \A v \in T : \E e \in S : e[3] = v
    BY <2>1, <2>2, <2>s
  <2>6. Cardinality(S) = Cardinality(T)
    BY <2>3, <2>5, SameThirds
  <2> QED
    BY <2>4, <2>6, <2>t
<1>2. \A w, x : Net(encIndexes(w), x) =
                   Cardinality(Those(w, x, "INS")) - Cardinality(Those(w, x, "DEL"))
  BY <1>1 DEF Net
<1> QED
  BY <1>2 DEF CountsRight, Balance, Totals

\* An update is one more of its kind.
LEMMA ThoseNext ==
    ASSUME AInv, NEW c, calls' = Append(calls, c), updateCounter' = updateCounter + 1,
           NEW w, NEW x, NEW op
    PROVE  /\ Cardinality(Those(w, x, op)) \in Nat
           /\ Cardinality(Those(w, x, op))' =
                 IF c.kw = w /\ c.ind = x /\ c.op = op
                 THEN Cardinality(Those(w, x, op)) + 1 ELSE Cardinality(Those(w, x, op))
<1>0. updateCounter \in Nat /\ calls \in Seq(Calls) /\ Len(calls) = updateCounter
  BY Types DEF AInv, Numbers
<1>s. PICK S : S = Those(w, x, op)
  OBVIOUS
<1>u. PICK u : u = updateCounter + 1
  OBVIOUS
<1>1. IsFiniteSet(S) /\ Cardinality(S) \in Nat /\ u \notin S
  <2>1. IsFiniteSet(1 .. updateCounter)
    BY <1>0, FS_Interval
  <2>2. S \subseteq 1 .. updateCounter /\ u \notin 1 .. updateCounter
    BY <1>0, <1>s, <1>u DEF Those
  <2> QED
    BY <2>1, <2>2, FS_Subset, FS_CardinalityType
<1>2. /\ \A v \in 1 .. updateCounter : calls'[v] = calls[v]
      /\ calls'[u] = c
      /\ 1 .. updateCounter' = (1 .. updateCounter) \cup {u}
  BY <1>0, <1>u
<1>3. Those(w, x, op)' = {v \in 1 .. updateCounter' :
                            calls'[v].kw = w /\ calls'[v].ind = x /\ calls'[v].op = op}
  BY DEF Those
<1>4. CASE c.kw = w /\ c.ind = x /\ c.op = op
  <2>1. Those(w, x, op)' = S \cup {u}
    BY <1>2, <1>3, <1>4, <1>s DEF Those
  <2>2. Cardinality(S \cup {u}) = Cardinality(S) + 1
    BY <1>1, FS_AddElement
  <2>3. Cardinality(Those(w, x, op))' = Cardinality(S \cup {u})
    BY <2>1
  <2> QED
    BY <1>1, <1>4, <1>s, <2>2, <2>3
<1>5. CASE ~(c.kw = w /\ c.ind = x /\ c.op = op)
  <2>1. Those(w, x, op)' = S
    BY <1>2, <1>3, <1>5, <1>s DEF Those
  <2> QED
    BY <1>1, <1>5, <1>s, <2>1
<1> QED
  BY <1>4, <1>5

\* It shifts one balance by one.
LEMMA TotalsNext ==
    ASSUME AInv, NEW c \in Calls, calls' = Append(calls, c), updateCounter' = updateCounter + 1
    PROVE  Totals' = Index!Shifted(Totals, c.op, c.kw, c.ind)
<1>c. c.op \in OP /\ c.kw \in Keyword /\ c.ind \in Ind
  BY DEF Calls, Call
<1> DEFINE N(w, x, op) == Cardinality(Those(w, x, op))
<1>1. ASSUME NEW w \in Keyword, NEW x \in Ind
      PROVE  Totals'[w][x] = Totals[w][x]
                + (IF w = c.kw /\ x = c.ind THEN Index!Weight(c.op) ELSE 0)
  <2>1. Totals[w][x] = N(w, x, "INS") - N(w, x, "DEL")
    BY DEF Totals
  <2>2. Totals'[w][x] = N(w, x, "INS")' - N(w, x, "DEL")'
    BY DEF Totals
  <2>3. /\ N(w, x, "INS") \in Nat
        /\ N(w, x, "INS")' = IF c.kw = w /\ c.ind = x /\ c.op = "INS"
                             THEN N(w, x, "INS") + 1 ELSE N(w, x, "INS")
    BY ThoseNext
  <2>4. /\ N(w, x, "DEL") \in Nat
        /\ N(w, x, "DEL")' = IF c.kw = w /\ c.ind = x /\ c.op = "DEL"
                             THEN N(w, x, "DEL") + 1 ELSE N(w, x, "DEL")
    BY ThoseNext
  <2>5. c.op = "INS" \/ c.op = "DEL"
    BY <1>c DEF OP
  <2> HIDE DEF N
  <2> QED
    BY <2>1, <2>2, <2>3, <2>4, <2>5 DEF Index!Weight
<1>2. \A w \in Keyword, x \in Ind : Totals[w][x] \in Int
  <2>1. \A w, x, op : N(w, x, op) \in Nat
    BY ThoseNext
  <2> QED
    BY <2>1 DEF Totals
<1>3. /\ Totals = [w \in Keyword |-> [x \in Ind |-> Totals[w][x]]]
      /\ Totals' = [w \in Keyword |-> [x \in Ind |-> Totals'[w][x]]]
  BY DEF Totals
<1>s. PICK s : s = Index!Shifted(Totals, c.op, c.kw, c.ind)
  OBVIOUS
<1>4. /\ s = [w \in Keyword |-> [x \in Ind |-> s[w][x]]]
      /\ \A w \in Keyword, x \in Ind : s[w][x] = Totals[w][x]
                + (IF w = c.kw /\ x = c.ind THEN Index!Weight(c.op) ELSE 0)
  <2>t. PICK t : t = Totals
    OBVIOUS
  <2>1. t = [w \in Keyword |-> [x \in Ind |-> t[w][x]]]
    BY <1>3, <2>t
  <2>2. \A w \in Keyword, x \in Ind : t[w][x] \in Int
    BY <1>2, <2>t
  <2>k. PICK k \in Keyword, y \in Ind, n \in Int :
           k = c.kw /\ y = c.ind /\ n = Index!Weight(c.op)
    BY <1>c DEF Index!Weight
  <2>3. s = [t EXCEPT ![k][y] = @ + n]
    BY <1>s, <2>k, <2>t DEF Index!Shifted
  <2>4. DOMAIN s = Keyword /\ \A w \in Keyword : s[w] = IF w = k THEN [t[k] EXCEPT ![y] = @ + n]
                                                               ELSE t[w]
    BY <2>1, <2>3
  <2>5. \A w \in Keyword : DOMAIN s[w] = Ind
    BY <2>1, <2>4
  <2>6. ASSUME NEW w \in Keyword, NEW x \in Ind
        PROVE  s[w][x] = t[w][x] + (IF w = k /\ x = y THEN n ELSE 0)
    <3>1. CASE w = k
      <4>1. s[w] = [t[k] EXCEPT ![y] = @ + n] /\ DOMAIN t[k] = Ind
        BY <2>1, <2>4, <3>1
      <4>2. s[w][x] = IF x = y THEN t[k][y] + n ELSE t[k][x]
        BY <4>1
      <4> QED
        BY <2>2, <3>1, <4>2
    <3>2. CASE w # k
      BY <2>2, <2>4, <3>2
    <3> QED
      BY <3>1, <3>2
  <2>7. s = [w \in Keyword |-> [x \in Ind |-> s[w][x]]]
    <3>1. s = [w \in Keyword |-> s[w]]
      BY <2>1, <2>3
    <3>2. \A w \in Keyword : s[w] = [x \in Ind |-> s[w][x]]
      BY <2>1, <2>4
    <3> QED
      BY <3>1, <3>2
  <2> QED
    BY <2>6, <2>7, <2>k, <2>t
<1> HIDE DEF N
<1>5. \A w \in Keyword, x \in Ind : Totals'[w][x] = s[w][x]
  BY <1>1, <1>4
<1>r. PICK r : r = Totals'
  OBVIOUS
<1>6. r = [w \in Keyword |-> [x \in Ind |-> r[w][x]]]
  BY <1>3, <1>r
<1>7. \A w \in Keyword : [x \in Ind |-> r[w][x]] = [x \in Ind |-> s[w][x]]
  BY <1>5, <1>r
<1>8. r = [w \in Keyword |-> [x \in Ind |-> s[w][x]]]
  BY <1>6, <1>7
<1> QED
  BY <1>4, <1>8, <1>r, <1>s

LEMMA RefinesInit == Init /\ CountsRight => Index!AInit
<1> SUFFICES ASSUME Init, CountsRight PROVE Index!AInit
  OBVIOUS
<1>1. updateCounter = 0 /\ finalRes = {}
  BY DEF Init
<1>2. ASSUME NEW w, NEW x, NEW op PROVE Cardinality(Those(w, x, op)) = 0
  <2>1. Those(w, x, op) = {}
    BY <1>1 DEF Those
  <2> QED
    BY <2>1, FS_EmptySet
<1>3. Totals = [w \in Keyword |-> [x \in Ind |-> 0]]
  BY <1>2 DEF Totals
<1> QED
  BY <1>1, <1>3 DEF Index!AInit, Index!Zero, CountsRight

LEMMA RefinesNext ==
    AInv /\ CountsRight /\ CountsRight' /\ [Next]_vars => [Index!ANext]_(Index!avars)
<1> SUFFICES ASSUME AInv, CountsRight, CountsRight', [Next]_vars
             PROVE  [Index!ANext]_(Index!avars)
  OBVIOUS
<1>b. Balance = Totals /\ Balance' = Totals'
  BY DEF CountsRight
<1>1. ASSUME NEW c \in Calls, NEW newKey, Update(c, newKey)
      PROVE  Index!ANext
  <2>1. c.op \in OP /\ c.kw \in Keyword /\ c.ind \in Ind
    BY <1>1 DEF Calls, Call
  <2>2. calls' = Append(calls, c) /\ updateCounter' = updateCounter + 1 /\ finalRes' = finalRes
    BY <1>1 DEF Update
  <2>3. Totals' = Index!Shifted(Totals, c.op, c.kw, c.ind)
    BY <2>2, TotalsNext
  <2>4. Index!AUpdate(c.op, c.kw, c.ind)
    BY <1>b, <2>2, <2>3 DEF Index!AUpdate
  <2> QED
    BY <2>1, <2>4 DEF Index!ANext, Index!OP, OP
<1>2. ASSUME UNCHANGED <<calls, updateCounter>> PROVE Balance' = Balance
  <2>1. Totals' = Totals
    BY <1>2 DEF Totals, Those
  <2> QED
    BY <1>b, <2>1
<1>3. ASSUME NEW w \in Keyword, Search(w) PROVE Index!ANext
  <2>1. finalRes' = {x \in Ind : Net(encIndexes(w), x) > 0}
    BY <1>3 DEF Search
  <2>2. Balance[w] = [x \in Ind |-> Net(encIndexes(w), x)]
    BY DEF Balance
  <2>3. finalRes' = Index!Positive(Balance[w])
    BY <2>1, <2>2 DEF Index!Positive
  <2>4. Balance' = Balance
    BY <1>2, <1>3 DEF Search
  <2>5. Index!ASearch(w)
    BY <2>3, <2>4 DEF Index!ASearch
  <2> QED
    BY <2>5 DEF Index!ANext
<1>4. ASSUME UNCHANGED vars PROVE UNCHANGED Index!avars
  <2>1. Balance' = Balance /\ finalRes' = finalRes
    BY <1>2, <1>4 DEF vars
  <2> QED
    BY <2>1 DEF Index!avars
<1> QED
  BY <1>1, <1>3, <1>4 DEF Next

\* Merging levels and searching leave what a search counts, an update changes
\* one balance by one, and a search answers by the balances: a caller that does
\* all its updates before the first search gets the abstract index, for keywords
\* that a merge of a server level can read back (Calls).
THEOREM Refinement ==
    ASSUME ~UpdateAfterSearch
    PROVE  Spec => RefinesIndex
BY RefinesInit, RefinesNext, CountingFact, Invariance, PTL
   DEF Spec, RefinesIndex, Index!ASpec

\* A search finds updates of its keyword, each of them once.
NoneTwice ==
    \A w \in Keyword :
        /\ {e[3] : e \in encIndexes(w)} \subseteq {u \in 1 .. updateCounter : calls[u].kw = w}
        /\ \A d, e \in encIndexes(w) : d[3] = e[3] => d = e

\* A caller may also update after it searched: then updates can be lost, but
\* the search of a keyword still counts none that is not the keyword's, and
\* none twice.  With calls outside Calls a merge would file updates of one
\* keyword under another.
THEOREM NothingExtra == Spec => []NoneTwice
<1>1. AInv => NoneTwice
  BY FoundFact DEF NoneTwice, Made
<1> QED
  BY <1>1, Invariance, PTL
=============================================================================
