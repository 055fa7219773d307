----------------------------- MODULE QOSProofs -----------------------------
(***************************************************************************)
(* Theorems about QOS.  First its tree: paths, subtrees and the covering   *)
(* set, as arithmetic.  Then the types and addresses of the records at     *)
(* client and server (IInv), and last what the colours, the marks, the     *)
(* entries and the caller's view have to do with each other (Agrees), for  *)
(* the keywords that Ocnt counts right.                                    *)
(***************************************************************************)
EXTENDS QOS, NumberLemmas, FunctionTheorems

-----------------------------------------------------------------------------
(* Division.                                                               *)

\* A number from 1 on lies between two successive powers of two.
LEMMA Between ==
    ASSUME NEW n \in Nat, NEW x \in Nat \ {0}, x < 2 ^ n
    PROVE  \E k \in 0 .. n - 1 : 2 ^ k <= x /\ x < 2 ^ (k + 1)
<1> DEFINE T == {k \in 0 .. n : x < 2 ^ k}
<1>1. T \subseteq Nat /\ n \in T
  OBVIOUS
<1> HIDE DEF T
<1>2. PICK m \in T : \A y \in T : m <= y
  BY <1>1, Minimum
<1>3. m \in 0 .. n /\ x < 2 ^ m
  BY DEF T
<1>4. m # 0
  <2> SUFFICES ASSUME m = 0 PROVE FALSE
    OBVIOUS
  <2>1. 2 ^ 0 = 1
    OBVIOUS
  <2>2. x < 2 ^ 0
    BY <1>3
  <2>3. x < 1
    BY <2>1, <2>2
  <2> QED
    BY <2>3
<1>5. PICK k \in 0 .. n - 1 : m = k + 1
  BY <1>3, <1>4
<1>6. k \notin T
  BY <1>2, <1>5
<1>7. 2 ^ k \in Nat
  BY PowerType
<1>8. ~(x < 2 ^ k)
  BY <1>5, <1>6 DEF T
<1>9. 2 ^ k <= x
  BY <1>7, <1>8
<1> QED
  BY <1>3, <1>5, <1>9

\* The logarithm of the code.
LEMMA Logarithm ==
    ASSUME NEW n \in Nat, NEW x \in Nat \ {0}, x < 2 ^ n
    PROVE  /\ Log2(x) \in 0 .. n - 1
           /\ 2 ^ Log2(x) <= x
           /\ x < 2 ^ (Log2(x) + 1)
<1>1. PICK k \in 0 .. n - 1 : 2 ^ k <= x /\ x < 2 ^ (k + 1)
  BY Between
<1>2. k < 2 ^ k
  <2> DEFINE G == {j \in Nat : j < 2 ^ j}
  <2>1. 0 \in G
    <3>1. 2 ^ 0 = 1
      OBVIOUS
    <3> QED
      BY <3>1
  <2>2. ASSUME NEW j \in 0 .. k - 1, j \in G PROVE j + 1 \in G
    <3>1. 2 ^ (j + 1) = 2 * 2 ^ j /\ 2 ^ j \in Nat \ {0}
      BY PowerNext, PowerType
    <3> QED
      BY <2>2, <3>1
  <2> HIDE DEF G
  <2>3. k \in 0 .. k /\ \A j \in 0 .. k : j \in G
    BY <2>1, <2>2, Induction
  <2>4. k \in G
    BY <2>3
  <2> QED
    BY <2>4 DEF G
<1>3. 2 ^ k \in Nat
  BY PowerType
<1>4. k \in 0 .. x
  BY <1>1, <1>2, <1>3
<1>5. Log2(x) \in 0 .. x /\ 2 ^ Log2(x) <= x /\ x < 2 ^ (Log2(x) + 1)
  BY <1>1, <1>4 DEF Log2
<1> DEFINE l == Log2(x)
<1>6. l \in Nat
  BY <1>5
<1>7. ~(n <= l)
  <2> SUFFICES ASSUME n <= l PROVE FALSE
    OBVIOUS
  <2>1. 2 ^ n <= 2 ^ l
    BY <1>6, PowerGrows
  <2>2. 2 ^ n \in Nat /\ 2 ^ l \in Nat
    BY <1>6, PowerType
  <2> QED
    BY <1>5, <2>1, <2>2
<1> QED
  BY <1>5, <1>6, <1>7

-----------------------------------------------------------------------------
(* The tree.  At(p, j) is the node j levels above the leaf p.              *)

At(p, j) == (p + Leaves) \div 2 ^ j - 1

\* The leaves and the levels above them.
LeafNo == 0 .. Leaves - 1
Up == 0 .. height - 1

LEMMA TreeSizes ==
    /\ height \in Nat \ {0}
    /\ Leaves \in Nat \ {0}
    /\ 2 ^ height = 2 * Leaves
    /\ Node = 0 .. 2 * Leaves - 2
<1>1. height \in Nat \ {0}
  BY QOSAssumption
<1>2. PICK h \in Nat : height = h + 1
  BY <1>1
<1>3. Leaves = 2 ^ h
  BY <1>2 DEF Leaves
<1>4. 2 ^ h \in Nat \ {0} /\ 2 ^ (h + 1) = 2 * 2 ^ h
  BY PowerType, PowerNext
<1> QED
  BY <1>1, <1>2, <1>3, <1>4 DEF Node

\* A level splits the leaves evenly.
LEMMA LevelSizes ==
    ASSUME NEW j \in Up
    PROVE  \E c \in Nat \ {0}, q \in Nat \ {0} :
              c = 2 ^ j /\ q = 2 ^ (height - 1 - j) /\ Leaves = q * c
<1>1. j \in Nat /\ height - 1 - j \in Nat
  BY TreeSizes DEF Up
<1>2. 2 ^ ((height - 1 - j) + j) = 2 ^ (height - 1 - j) * 2 ^ j
  BY <1>1, PowerSum
<1>3. (height - 1 - j) + j = height - 1
  BY <1>1, TreeSizes
<1>4. 2 ^ j \in Nat \ {0} /\ 2 ^ (height - 1 - j) \in Nat \ {0}
  BY <1>1, PowerType
<1> QED
  BY <1>2, <1>3, <1>4 DEF Leaves

\* Where the nodes of a level lie.
LEMMA LevelRange ==
    ASSUME NEW p \in LeafNo, NEW j \in Up
    PROVE  /\ At(p, j) \in Node
           /\ 2 ^ (height - 1 - j) - 1 <= At(p, j)
           /\ At(p, j) <= 2 * 2 ^ (height - 1 - j) - 2
<1>1. PICK c \in Nat \ {0}, q \in Nat \ {0} :
          c = 2 ^ j /\ q = 2 ^ (height - 1 - j) /\ Leaves = q * c
  BY LevelSizes
<1>a. p \in Nat /\ p < Leaves /\ Leaves \in Nat
  BY TreeSizes DEF LeafNo
<1>2. p \in Nat /\ p < q * c /\ p + Leaves \in Nat
  BY <1>1, <1>a
<1>3. PICK t \in Nat : t = (p + Leaves) \div c /\ c * t <= p + Leaves /\ p + Leaves < c * t + c
  BY <1>2, Quotient
<1>4. q <= t
  <2> SUFFICES ASSUME t + 1 <= q PROVE FALSE
    BY <1>3
  <2>1. c * (t + 1) <= c * q
    OBVIOUS
  <2> QED
    BY <1>1, <1>2, <1>3, <2>1
<1>5. t <= 2 * q - 1
  <2> SUFFICES ASSUME 2 * q <= t PROVE FALSE
    BY <1>3
  <2>1. c * (2 * q) <= c * t
    OBVIOUS
  <2> QED
    BY <1>1, <1>2, <1>3, <2>1
<1>6. q * 1 <= q * c
  OBVIOUS
<1>7. At(p, j) = t - 1
  BY <1>1, <1>3 DEF At
<1>8. q <= Leaves
  BY <1>1, <1>6
<1>9. t - 1 \in 0 .. 2 * Leaves - 2
  BY <1>4, <1>5, <1>8, TreeSizes
<1>10. At(p, j) \in Node
  BY <1>7, <1>9, TreeSizes
<1>11. q - 1 <= At(p, j) /\ At(p, j) <= 2 * q - 2
  BY <1>4, <1>5, <1>7
<1> QED
  BY <1>1, <1>10, <1>11

\* A node on a path says how high it is.
LEMMA LevelUnique ==
    ASSUME NEW p \in LeafNo, NEW q \in LeafNo, NEW j \in Up, NEW k \in Up, j < k
    PROVE  At(p, k) < At(q, j)
<1>1. j \in Nat /\ k \in Nat /\ height - 1 - k \in Nat /\ height - 1 - j \in Nat
  BY TreeSizes DEF Up
<1>2. (height - 1 - k) + 1 <= height - 1 - j
  BY <1>1, TreeSizes
<1>3. 2 ^ ((height - 1 - k) + 1) <= 2 ^ (height - 1 - j)
  BY <1>1, <1>2, PowerGrows
<1>4. 2 ^ ((height - 1 - k) + 1) = 2 * 2 ^ (height - 1 - k)
  BY <1>1, PowerNext
<1>5. At(p, k) <= 2 * 2 ^ (height - 1 - k) - 2 /\ At(p, k) \in Node
  BY LevelRange
<1>6. 2 ^ (height - 1 - j) - 1 <= At(q, j) /\ At(q, j) \in Node
  BY LevelRange
<1>7. 2 ^ (height - 1 - j) \in Nat /\ 2 ^ (height - 1 - k) \in Nat
  BY <1>1, PowerType
<1>8. At(p, k) \in Int /\ At(q, j) \in Int
  BY <1>5, <1>6 DEF Node
<1> QED
  BY <1>3, <1>4, <1>5, <1>6, <1>7, <1>8

\* Higher nodes follow from lower ones.
LEMMA PathsJoin ==
    ASSUME NEW p \in LeafNo, NEW q \in LeafNo, NEW j \in Up, NEW k \in Up, j <= k,
           At(p, j) = At(q, j)
    PROVE  At(p, k) = At(q, k)
<1>1. j \in Nat /\ k - j \in Nat /\ (k - j) + j = k /\ j + (k - j) = k
  BY TreeSizes DEF Up
<1>2. PICK a \in Nat \ {0}, b \in Nat \ {0} : a = 2 ^ j /\ b = 2 ^ (k - j)
  BY <1>1, PowerType
<1>3. 2 ^ (j + (k - j)) = 2 ^ j * 2 ^ (k - j)
  BY <1>1, PowerSum
<1>4. 2 ^ k = a * b
  BY <1>1, <1>2, <1>3
<1>5. PICK x \in Nat, y \in Nat : x = p + Leaves /\ y = q + Leaves
  BY TreeSizes DEF LeafNo
<1>6. (x \div a) \div b = x \div (a * b) /\ (y \div a) \div b = y \div (a * b)
  BY DivTwice
<1>7. x \div a \in Nat /\ y \div a \in Nat
  BY Quotient
<1>8. At(p, j) = x \div a - 1 /\ At(q, j) = y \div a - 1
  BY <1>2, <1>5 DEF At
<1>9. x \div a = y \div a
  <2>1. PICK u \in Nat, v \in Nat : u = x \div a /\ v = y \div a
    BY <1>7
  <2>2. u - 1 = v - 1
    BY <2>1, <1>8
  <2> QED
    BY <2>1, <2>2
<1>a. (p + Leaves) \div 2 ^ k = x \div (a * b) /\ (q + Leaves) \div 2 ^ k = y \div (a * b)
  BY <1>4, <1>5, Zenon
<1>10. At(p, k) = x \div (a * b) - 1 /\ At(q, k) = y \div (a * b) - 1
  BY <1>a, Zenon DEF At
<1>11. x \div (a * b) = y \div (a * b)
  BY <1>6, <1>9
<1> QED
  BY <1>10, <1>11

\* Level 0 are the leaves.
LEMMA LeafLevel ==
    ASSUME NEW p \in LeafNo
    PROVE  0 \in Up /\ At(p, 0) = p + Leaves - 1
<1>1. 2 ^ 0 = 1
  OBVIOUS
<1>2. p + Leaves \in Nat /\ (p + Leaves) * 1 = p + Leaves
  BY TreeSizes DEF LeafNo
<1>3. PICK x \in Nat : x = p + Leaves
  BY <1>2
<1>4. x * 1 <= x /\ x < x * 1 + 1
  OBVIOUS
<1>5. x \div 1 = x
  BY <1>4, QuotientIs
<1>a. (p + Leaves) \div 2 ^ 0 = x
  BY <1>1, <1>3, <1>5, Zenon
<1>6. At(p, 0) = x - 1
  BY <1>a, Zenon DEF At
<1>7. 0 \in Up
  BY TreeSizes DEF Up
<1>8. x - 1 = p + Leaves - 1
  BY <1>3, TreeSizes DEF LeafNo
<1> QED
  BY <1>6, <1>7, <1>8

\* Only the leaves come last in the array.
LEMMA LeavesLast ==
    ASSUME NEW p \in LeafNo, NEW j \in Up
    PROVE  At(p, j) >= Leaves - 1 <=> j = 0
<1>1. 0 \in Up /\ At(p, 0) = p + Leaves - 1
  BY LeafLevel
<1>2. ASSUME j # 0 PROVE At(p, j) < Leaves - 1
  <2>1. 0 \in LeafNo /\ At(0, 0) = 0 + Leaves - 1
    BY LeafLevel, TreeSizes DEF LeafNo
  <2>2. 0 < j
    BY <1>2, TreeSizes DEF Up
  <2>3. At(p, j) < At(0, 0)
    BY <1>1, <2>1, <2>2, LevelUnique
  <2> QED
    BY <2>1, <2>3, TreeSizes
<1>3. At(p, j) \in Int
  BY LevelRange DEF Node
<1> QED
  BY <1>1, <1>2, <1>3, TreeSizes DEF LeafNo

\* Every node is on a path.
LEMMA OnAPath ==
    ASSUME NEW n \in Node
    PROVE  \E p \in LeafNo, j \in Up : n = At(p, j)
<1>1. n \in Nat /\ n <= 2 * Leaves - 2 /\ Leaves \in Nat
  BY TreeSizes
<1>2. PICK x \in Nat \ {0} : x = n + 1
  BY <1>1
<1>3. x < 2 ^ height /\ height \in Nat
  BY <1>1, <1>2, TreeSizes
<1>4. PICK i \in 0 .. height - 1 : 2 ^ i <= x /\ x < 2 ^ (i + 1)
  BY <1>3, Between
<1>5. PICK j \in Up : j = height - 1 - i
  BY <1>3, <1>4 DEF Up
<1>6. PICK c \in Nat \ {0}, q \in Nat \ {0} :
          c = 2 ^ j /\ q = 2 ^ (height - 1 - j) /\ Leaves = q * c
  BY LevelSizes
<1>7. height - 1 - j = i
  BY <1>3, <1>5
<1>8. q <= x /\ x < 2 * q
  <2>1. 2 ^ (i + 1) = 2 * 2 ^ i
    BY <1>4, PowerNext
  <2>2. q = 2 ^ i
    BY <1>6, <1>7
  <2> QED
    BY <1>4, <2>1, <2>2
<1>9. q * c <= x * c
  <2>1. c * q <= c * x
    BY <1>8
  <2> QED
    BY <2>1
<1>10. x * c <= 2 * (q * c) - 1
  <2>1. x + 1 <= 2 * q
    BY <1>8
  <2>2. c * (x + 1) <= c * (2 * q)
    BY <2>1
  <2>3. c * (x + 1) = x * c + c /\ c * (2 * q) = 2 * (q * c)
    OBVIOUS
  <2> QED
    BY <2>2, <2>3
<1>11. x * c \in Nat /\ q * c \in Nat
  OBVIOUS
<1>12. PICK p \in LeafNo : p + Leaves = x * c
  <2>1. x * c - Leaves \in LeafNo
    BY <1>6, <1>9, <1>10, <1>11 DEF LeafNo
  <2>2. (x * c - Leaves) + Leaves = x * c
    BY <1>1, <1>11
  <2> QED
    BY <2>1, <2>2
<1>13. (x * c) \div c = x
  BY <1>11, QuotientIs
<1>14. At(p, j) = x - 1
  BY <1>6, <1>12, <1>13, Zenon DEF At
<1>15. x - 1 = n
  BY <1>1, <1>2
<1> QED
  BY <1>14, <1>15

\* A path is a node of each level.
LEMMA PathIs ==
    ASSUME NEW p \in LeafNo
    PROVE  Path[p] = {At(p, j) : j \in Up}
<1>1. height \in Nat
  BY TreeSizes
<1>2. Path[p] = {getNodeOnPath(p, d) : d \in 1 .. height}
  BY DEF Path, LeafNo
<1>3. ASSUME NEW d \in Int
      PROVE  getNodeOnPath(p, d) = At(p, height - d)
  BY DEF getNodeOnPath, At
<1>4. ASSUME NEW d \in 1 .. height
      PROVE  height - d \in Up
  BY <1>1 DEF Up
<1>5. ASSUME NEW j \in Up
      PROVE  height - j \in 1 .. height /\ height - (height - j) = j
  BY <1>1 DEF Up
<1>6. ASSUME NEW n \in Path[p] PROVE n \in {At(p, j) : j \in Up}
  <2>1. PICK d \in 1 .. height : n = getNodeOnPath(p, d)
    BY <1>2
  <2> QED
    BY <2>1, <1>3, <1>4
<1>7. ASSUME NEW j \in Up PROVE At(p, j) \in Path[p]
  <2>1. PICK d \in 1 .. height : d = height - j /\ height - d = j
    BY <1>5
  <2>2. getNodeOnPath(p, d) = At(p, j)
    BY <1>3, <2>1
  <2> QED
    BY <1>2, <2>2
<1> QED
  BY <1>6, <1>7

\* The leaves under a node are those whose path it is on.
LEMMA UnderPath ==
    ASSUME NEW n \in Node, NEW p
    PROVE  p \in LeavesUnder[n] <=> p \in LeafNo /\ \E j \in Up : n = At(p, j)
<1>1. LeavesUnder[n] = {q \in LeafNo : n \in Path[q]}
  BY DEF LeavesUnder, LeafNo
<1> QED
  BY <1>1, PathIs

\* The leaves under a node of a path.
LEMMA UnderAt ==
    ASSUME NEW p \in LeafNo, NEW j \in Up, NEW q
    PROVE  q \in LeavesUnder[At(p, j)] <=> q \in LeafNo /\ At(q, j) = At(p, j)
<1>1. At(p, j) \in Node
  BY LevelRange
<1>2. q \in LeavesUnder[At(p, j)] <=> q \in LeafNo /\ \E k \in Up : At(p, j) = At(q, k)
  BY <1>1, UnderPath
<1>3. ASSUME q \in LeafNo, NEW k \in Up, At(p, j) = At(q, k) PROVE k = j
  <2>1. At(p, j) \in Int /\ At(q, k) \in Int
    BY <1>3, LevelRange DEF Node
  <2>2. k \in Int /\ j \in Int
    BY DEF Up
  <2>3. ~(j < k)
    <3>1. j < k => At(q, k) < At(p, j)
      BY <1>3, LevelUnique
    <3> QED
      BY <1>3, <2>1, <3>1
  <2>4. ~(k < j)
    <3>1. k < j => At(p, j) < At(q, k)
      BY <1>3, LevelUnique
    <3> QED
      BY <1>3, <2>1, <3>1
  <2> QED
    BY <2>2, <2>3, <2>4
<1> QED
  BY <1>2, <1>3

\* A node has leaves.
LEMMA UnderSome ==
    ASSUME NEW n \in Node
    PROVE  /\ LeavesUnder[n] \subseteq LeafNo
           /\ \E p \in LeafNo : p \in LeavesUnder[n]
<1>1. PICK p \in LeafNo, j \in Up : n = At(p, j)
  BY OnAPath
<1>2. p \in LeavesUnder[n]
  BY <1>1, UnderAt
<1> QED
  BY <1>2, UnderPath

\* A higher node of a path has all leaves of a lower one.
LEMMA UnderGrows ==
    ASSUME NEW p \in LeafNo, NEW j \in Up, NEW k \in Up, j <= k
    PROVE  LeavesUnder[At(p, j)] \subseteq LeavesUnder[At(p, k)]
<1>1. ASSUME NEW q \in LeavesUnder[At(p, j)] PROVE q \in LeavesUnder[At(p, k)]
  <2>1. q \in LeafNo /\ At(q, j) = At(p, j)
    BY UnderAt
  <2>2. At(q, k) = At(p, k)
    BY <2>1, PathsJoin
  <2> QED
    BY <2>1, <2>2, UnderAt
<1> QED
  BY <1>1

\* The ancestors of a node are the higher nodes of its paths.
LEMMA AboveAt ==
    ASSUME NEW p \in LeafNo, NEW j \in Up, NEW a
    PROVE  a \in Above[At(p, j)] <=> \E k \in Up : j < k /\ a = At(p, k)
<1>1. At(p, j) \in Node
  BY LevelRange
<1>2. a \in Above[At(p, j)] <=>
          a \in Node /\ a < At(p, j) /\ LeavesUnder[At(p, j)] \subseteq LeavesUnder[a]
  BY <1>1 DEF Above
<1>3. ASSUME a \in Above[At(p, j)] PROVE \E k \in Up : j < k /\ a = At(p, k)
  <2>1. p \in LeavesUnder[At(p, j)]
    BY UnderAt
  <2>2. PICK k \in Up : a = At(p, k)
    BY <1>2, <1>3, <2>1, UnderPath
  <2>3. a \in Int /\ At(p, j) \in Int /\ j \in Int /\ k \in Int
    BY <1>1, <1>2, <1>3 DEF Node, Up
  <2>4. ~(k = j)
    BY <1>2, <1>3, <2>2, <2>3
  <2>5. ~(k < j)
    <3>1. k < j => At(p, j) < At(p, k)
      BY LevelUnique
    <3> QED
      BY <1>2, <1>3, <2>2, <2>3, <3>1
  <2> QED
    BY <2>2, <2>3, <2>4, <2>5
<1>4. ASSUME NEW k \in Up, j < k, a = At(p, k) PROVE a \in Above[At(p, j)]
  <2>1. j <= k
    BY <1>4 DEF Up
  <2>2. a \in Node /\ a < At(p, j)
    BY <1>4, LevelRange, LevelUnique
  <2> QED
    BY <1>2, <1>4, <2>1, <2>2, UnderGrows
<1> QED
  BY <1>3, <1>4

\* Two paths that join meet at siblings.
LEMMA Siblings ==
    ASSUME NEW p \in LeafNo, NEW q \in LeafNo, NEW j \in Up, j + 1 \in Up,
           At(q, j + 1) = At(p, j + 1)
    PROVE  At(q, j) = At(p, j) \/ At(q, j) = Sibling(At(p, j))
<1>1. j \in Nat
  BY DEF Up
<1>2. PICK a \in Nat \ {0} : a = 2 ^ j
  BY <1>1, PowerType
<1>3. 2 ^ (j + 1) = a * 2
  BY <1>1, <1>2, PowerNext
<1>4. PICK x \in Nat, y \in Nat : x = p + Leaves /\ y = q + Leaves
  BY TreeSizes DEF LeafNo
<1>5. (x \div a) \div 2 = x \div (a * 2) /\ (y \div a) \div 2 = y \div (a * 2)
  <2>1. PICK b \in Nat \ {0} : b = 2
    OBVIOUS
  <2>2. (x \div a) \div b = x \div (a * b) /\ (y \div a) \div b = y \div (a * b)
    BY DivTwice
  <2> QED
    BY <2>1, <2>2, Zenon
<1>6. PICK u \in Nat, v \in Nat : u = x \div a /\ v = y \div a
  BY Quotient
<1>7. At(p, j) = u - 1 /\ At(q, j) = v - 1
  BY <1>2, <1>4, <1>6, Zenon DEF At
<1>8. At(p, j + 1) = u \div 2 - 1 /\ At(q, j + 1) = v \div 2 - 1
  BY <1>3, <1>4, <1>5, <1>6, Zenon DEF At
<1>9. PICK s \in Nat, t \in Nat : s = u \div 2 /\ t = v \div 2
  BY Quotient
<1>10. s - 1 = t - 1
  BY <1>8, <1>9
<1>11. 2 * s <= u /\ u < 2 * s + 2 /\ 2 * t <= v /\ v < 2 * t + 2
  BY <1>9
<1>12. v - 1 = u - 1 \/ v - 1 = IF (u - 1) % 2 = 0 THEN (u - 1) - 1 ELSE (u - 1) + 1
  BY <1>10, <1>11
<1>13. At(q, j) = At(p, j) \/ At(q, j) = IF At(p, j) % 2 = 0 THEN At(p, j) - 1 ELSE At(p, j) + 1
  BY <1>7, <1>12
<1> QED
  BY <1>13 DEF Sibling

\* A subtree is its first leaf and the siblings on the way up from there.
LEMMA SubtreeSplit ==
    ASSUME NEW p \in LeafNo, NEW j \in Up, NEW q \in LeavesUnder[At(p, j)], q # p
    PROVE  \E i \in Up : /\ i < j
                         /\ At(q, i) = Sibling(At(p, i))
                         /\ q \in LeavesUnder[Sibling(At(p, i))]
<1>1. q \in LeafNo /\ At(q, j) = At(p, j)
  BY UnderAt
<1> DEFINE T == {k \in Up : At(q, k) = At(p, k)}
<1>2. T \subseteq Nat /\ j \in T
  BY <1>1 DEF Up
<1> HIDE DEF T
<1>3. PICK k \in T : \A y \in T : k <= y
  BY <1>2, Minimum
<1>4. k \in Up /\ At(q, k) = At(p, k) /\ k <= j
  BY <1>2, <1>3 DEF T
<1>5. k # 0
  <2> SUFFICES ASSUME k = 0 PROVE FALSE
    OBVIOUS
  <2>1. At(q, 0) = q + Leaves - 1 /\ At(p, 0) = p + Leaves - 1
    BY <1>1, LeafLevel
  <2>2. q + Leaves - 1 = p + Leaves - 1
    BY <1>4, <2>1
  <2>3. q \in Nat /\ p \in Nat /\ Leaves \in Nat
    BY <1>1, TreeSizes DEF LeafNo
  <2> QED
    BY <2>2, <2>3
<1>6. PICK i \in Up : k = i + 1
  <2>1. k - 1 \in Up /\ k = (k - 1) + 1
    BY <1>4, <1>5, TreeSizes DEF Up
  <2> QED
    BY <2>1
<1>7. i < j /\ i < k
  BY <1>4, <1>6 DEF Up
<1>8. i \notin T
  BY <1>2, <1>3, <1>7 DEF Up
<1>9. At(q, i) # At(p, i)
  BY <1>8 DEF T
<1>10. At(q, i + 1) = At(p, i + 1) /\ i + 1 \in Up
  BY <1>4, <1>6
<1>11. At(q, i) = At(p, i) \/ At(q, i) = Sibling(At(p, i))
  BY <1>1, <1>10, Siblings
<1>12. q \in LeavesUnder[At(q, i)]
  BY <1>1, UnderAt
<1> QED
  BY <1>7, <1>9, <1>11, <1>12

-----------------------------------------------------------------------------
(* The covering set.                                                       *)

\* One round of the loop: the next full subtree, and what remains.
FirstNode(a, rest) ==
    getNodeOnPath(a + 1 - rest + 2 ^ Log2(rest) - 1, height - Log2(rest))

Round(a, f, rest) ==
    IF rest = 0 THEN {} ELSE {FirstNode(a, rest)} \cup f[rest - 2 ^ Log2(rest)]

IsCover(a, f) == f = [rest \in 0 .. a + 1 |-> Round(a, f, rest)]

\* What a round leaves.
LEMMA Remains ==
    ASSUME NEW a \in LeafNo, NEW rest \in 0 .. a + 1, rest # 0
    PROVE  /\ Log2(rest) \in Up
           /\ 2 ^ Log2(rest) <= rest
           /\ rest < 2 ^ (Log2(rest) + 1)
           /\ rest - 2 ^ Log2(rest) \in 0 .. rest - 1
<1>1. rest \in Nat \ {0} /\ rest < 2 ^ height
  BY TreeSizes DEF LeafNo
<1>2. /\ Log2(rest) \in 0 .. height - 1
      /\ 2 ^ Log2(rest) <= rest
      /\ rest < 2 ^ (Log2(rest) + 1)
  BY <1>1, TreeSizes, Logarithm
<1>3. 2 ^ Log2(rest) \in Nat \ {0}
  BY <1>2, PowerType
<1> QED
  BY <1>1, <1>2, <1>3 DEF Up

\* The loop ends, so that the recursion defines the covering set.
LEMMA CoverDefined ==
    ASSUME NEW a \in LeafNo
    PROVE  \E f : IsCover(a, f) /\ findCoveringSet[a] = f[a + 1]
<1> DEFINE Ok(m, f) == /\ f = [r \in 0 .. m |-> f[r]]
                       /\ \A r \in 0 .. m : f[r] = Round(a, f, r)
           G == {m \in 0 .. a + 1 : \E f : Ok(m, f)}
<1>1. a \in Nat /\ a + 1 \in Nat
  BY DEF LeafNo
<1>2. 0 \in G
  <2> DEFINE f == [r \in 0 .. 0 |-> {}]
  <2>1. f = [r \in 0 .. 0 |-> f[r]]
    OBVIOUS
  <2>2. \A r \in 0 .. 0 : f[r] = Round(a, f, r)
    BY DEF Round
  <2> HIDE DEF f
  <2>3. Ok(0, f)
    BY <2>1, <2>2
  <2> QED
    BY <1>1, <2>3
<1>3. ASSUME NEW m \in 0 .. a, m \in G PROVE m + 1 \in G
  <2>1. PICK f : Ok(m, f)
    BY <1>3
  <2> DEFINE g == [r \in 0 .. m + 1 |-> IF r = m + 1 THEN Round(a, f, m + 1) ELSE f[r]]
  <2>2. m + 1 \in 0 .. a + 1 /\ m \in Nat
    BY <1>1
  <2>3. g[m + 1] = Round(a, f, m + 1) /\ \A r \in 0 .. m : g[r] = f[r]
    BY <2>2
  <2>4. g = [r \in 0 .. m + 1 |-> g[r]]
    OBVIOUS
  <2> HIDE DEF g
  <2>5. ASSUME NEW r \in 0 .. m + 1 PROVE Round(a, g, r) = Round(a, f, r)
    <3>1. CASE r = 0
      BY <3>1 DEF Round
    <3>2. CASE r # 0
      <4>1. r \in 0 .. a + 1
        BY <2>2, <1>1
      <4>2. r - 2 ^ Log2(r) \in 0 .. r - 1
        BY <3>2, <4>1, Remains
      <4>3. r - 2 ^ Log2(r) \in 0 .. m
        BY <2>2, <4>2
      <4>4. g[r - 2 ^ Log2(r)] = f[r - 2 ^ Log2(r)]
        BY <2>3, <4>3
      <4> QED
        BY <4>4, Zenon DEF Round
    <3> QED
      BY <3>1, <3>2
  <2>6. ASSUME NEW r \in 0 .. m + 1 PROVE g[r] = Round(a, g, r)
    <3>1. CASE r = m + 1
      BY <3>1, <2>3, <2>5
    <3>2. CASE r # m + 1
      <4>1. r \in 0 .. m
        BY <3>2, <2>2
      <4> QED
        BY <4>1, <2>1, <2>3, <2>5
    <3> QED
      BY <3>1, <3>2
  <2>7. Ok(m + 1, g)
    BY <2>4, <2>6
  <2> QED
    BY <2>2, <2>7
<1>4. PICK n \in Nat : n = a + 1
  BY <1>1
<1> HIDE DEF G
<1>a. 0 .. n - 1 = 0 .. a
  BY <1>1, <1>4
<1>5. \A k \in 0 .. n - 1 : k \in G => k + 1 \in G
  BY <1>3, <1>a
<1>6. \A k \in 0 .. n : k \in G
  BY <1>2, <1>4, <1>5, Induction
<1>7. a + 1 \in G
  BY <1>1, <1>4, <1>6
<1>8. PICK f : Ok(a + 1, f)
  BY <1>7 DEF G
<1>9. IsCover(a, f)
  <2>1. [r \in 0 .. a + 1 |-> f[r]] = [r \in 0 .. a + 1 |-> Round(a, f, r)]
    BY <1>8
  <2> QED
    BY <1>8, <2>1, Zenon DEF IsCover
<1> DEFINE c == CHOOSE h : IsCover(a, h)
<1>10. IsCover(a, c)
  BY <1>9, Zenon
<1>11. findCoveringSet[a] = c[a + 1]
  BY DEF findCoveringSet, IsCover, Round, FirstNode, LeafNo
<1> QED
  BY <1>10, <1>11

\* A node of level k that starts at s has the leaves from s on.
LEMMA FirstSubtree ==
    ASSUME NEW k \in Up, NEW z \in Nat, NEW s \in LeafNo, s = z * 2 ^ k
    PROVE  /\ getNodeOnPath(s + 2 ^ k - 1, height - k) = At(s, k)
           /\ LeavesUnder[At(s, k)] = s .. s + 2 ^ k - 1
<1>1. PICK c \in Nat \ {0}, q \in Nat \ {0} :
          c = 2 ^ k /\ q = 2 ^ (height - 1 - k) /\ Leaves = q * c
  BY LevelSizes
<1>2. PICK t \in Nat : t = z + q
  OBVIOUS
<1>3. s \in Nat /\ k \in Nat /\ height \in Nat /\ Leaves \in Nat
  BY TreeSizes DEF LeafNo, Up
<1>4. s + Leaves = t * c /\ t * c \in Nat
  <2>1. t * c = z * c + q * c
    BY <1>2
  <2> QED
    BY <1>1, <2>1
<1>5. ASSUME NEW p \in LeafNo
      PROVE  At(p, k) = t - 1 <=> p \in s .. s + c - 1
  <2>1. p \in Nat /\ p + Leaves \in Nat
    BY <1>3 DEF LeafNo
  <2>2. PICK u \in Nat : u = (p + Leaves) \div c /\ c * u <= p + Leaves /\ p + Leaves < c * u + c
    BY <2>1, Quotient
  <2>3. At(p, k) = u - 1
    BY <1>1, <2>2 DEF At
  <2>4. u = t => p \in s .. s + c - 1
    <3> SUFFICES ASSUME u = t PROVE p \in s .. s + c - 1
      OBVIOUS
    <3>1. c * u = t * c
      OBVIOUS
    <3> QED
      BY <1>3, <1>4, <2>1, <2>2, <3>1
  <2>5. p \in s .. s + c - 1 => u = t
    <3> SUFFICES ASSUME p \in s .. s + c - 1 PROVE u = t
      OBVIOUS
    <3>1. t * c <= p + Leaves /\ p + Leaves < t * c + c
      BY <1>3, <1>4, <2>1
    <3> QED
      BY <2>1, <2>2, <3>1, QuotientIs
  <2>6. At(p, k) = t - 1 <=> u = t
    BY <1>2, <2>2, <2>3
  <2> QED
    BY <2>4, <2>5, <2>6
<1>6. s + c <= Leaves
  <2>1. z < q
    <3> SUFFICES ASSUME q <= z PROVE FALSE
      OBVIOUS
    <3>1. c * q <= c * z
      OBVIOUS
    <3>2. Leaves <= s
      BY <1>1, <3>1
    <3> QED
      BY <1>3, <3>2 DEF LeafNo
  <2>2. c * (z + 1) <= c * q
    BY <2>1
  <2>3. c * (z + 1) = s + c
    BY <1>1
  <2> QED
    BY <1>1, <2>2, <2>3
<1>7. s .. s + c - 1 \subseteq LeafNo /\ s \in s .. s + c - 1
  BY <1>3, <1>6 DEF LeafNo
<1>8. At(s, k) = t - 1
  BY <1>5, <1>7
<1>9. ASSUME NEW p PROVE p \in LeavesUnder[At(s, k)] <=> p \in s .. s + c - 1
  <2>1. p \in LeavesUnder[At(s, k)] <=> p \in LeafNo /\ At(p, k) = At(s, k)
    BY UnderAt
  <2>2. p \in LeafNo => (At(p, k) = t - 1 <=> p \in s .. s + c - 1)
    BY <1>5
  <2> QED
    BY <1>7, <1>8, <2>1, <2>2
<1>10. getNodeOnPath(s + 2 ^ k - 1, height - k) = At(s, k)
  <2>1. PICK p \in LeafNo : p = s + c - 1 /\ p \in s .. s + c - 1
    BY <1>3, <1>7
  <2>2. At(p, k) = t - 1
    BY <1>5, <2>1
  <2>3. height - (height - k) = k
    BY <1>3
  <2>4. getNodeOnPath(p, height - k) = At(p, k)
    BY <2>3, Zenon DEF getNodeOnPath, At
  <2> QED
    BY <1>1, <1>8, <2>1, <2>2, <2>4
<1> QED
  BY <1>1, <1>9, <1>10

\* The subtrees S make up the leaves s .. e, each once, and are the largest.
Covers(S, s, e) ==
    /\ S \subseteq Node
    /\ \A p \in LeafNo : (\E t \in S : p \in LeavesUnder[t]) <=> p \in s .. e
    /\ \A t, u \in S, p \in LeafNo : p \in LeavesUnder[t] /\ p \in LeavesUnder[u] => t = u
    /\ \A n \in Node : LeavesUnder[n] \subseteq s .. e =>
          \E t \in S : t = n \/ t \in Above[n]

\* The uncovered leaves begin at a multiple of every smaller power.
Aligned(s, rest) == \E n \in Nat, z \in Nat : s = z * 2 ^ n /\ rest < 2 ^ n

\* They stay so.
LEMMA StaysAligned ==
    ASSUME NEW s \in Nat, NEW rest \in Nat, NEW k \in Nat, Aligned(s, rest),
           2 ^ k <= rest, rest < 2 ^ (k + 1)
    PROVE  /\ \E z \in Nat : s = z * 2 ^ k
           /\ Aligned(s + 2 ^ k, rest - 2 ^ k)
<1>1. PICK n \in Nat, y \in Nat : s = y * 2 ^ n /\ rest < 2 ^ n
  BY DEF Aligned
<1>2. k <= n
  <2> SUFFICES ASSUME n <= k PROVE FALSE
    OBVIOUS
  <2>1. 2 ^ n <= 2 ^ k /\ 2 ^ n \in Nat /\ 2 ^ k \in Nat
    BY PowerGrows, PowerType
  <2> QED
    BY <1>1, <2>1
<1>3. PICK m \in Nat : n = m + k
  <2>1. n - k \in Nat /\ n = (n - k) + k
    BY <1>2
  <2> QED
    BY <2>1
<1>4. PICK b \in Nat, c \in Nat : b = 2 ^ m /\ c = 2 ^ k
  BY PowerType
<1>5. 2 ^ n = b * c
  BY <1>3, <1>4, PowerSum
<1>6. s = y * (b * c)
  BY <1>1, <1>5
<1>7. PICK z \in Nat : z = y * b
  OBVIOUS
<1>8. s = z * c
  BY <1>6, <1>7
<1>9. s + c = (z + 1) * c /\ z + 1 \in Nat
  BY <1>8
<1>10. 2 ^ (k + 1) = 2 * c
  BY <1>4, PowerNext
<1>11. rest - c < c
  BY <1>10
<1>12. Aligned(s + c, rest - c)
  BY <1>4, <1>9, <1>11 DEF Aligned
<1> QED
  BY <1>4, <1>8, <1>12

\* The first leaf of a subtree is a multiple of its size.
LEMMA SubtreeStart ==
    ASSUME NEW q \in LeafNo, NEW j \in Up
    PROVE  \E y \in LeafNo, w \in Nat : y = w * 2 ^ j /\ At(y, j) = At(q, j)
<1>1. PICK d \in Nat \ {0}, b \in Nat \ {0} :
          d = 2 ^ j /\ b = 2 ^ (height - 1 - j) /\ Leaves = b * d
  BY LevelSizes
<1>2. PICK n \in Nat : n = At(q, j) /\ b - 1 <= n /\ n <= 2 * b - 2
  <2>1. At(q, j) \in Nat
    BY LevelRange DEF Node
  <2> QED
    BY <1>1, <2>1, LevelRange
<1>3. PICK w \in Nat : n + 1 = w + b /\ w < b
  <2>1. n + 1 - b \in Nat /\ n + 1 = (n + 1 - b) + b
    BY <1>2
  <2>2. n + 1 - b < b
    BY <1>2
  <2> QED
    BY <2>1, <2>2
<1>4. w * d \in Nat /\ w * d < b * d
  <2>1. d * (w + 1) <= d * b
    BY <1>3
  <2>2. d * (w + 1) = w * d + d
    OBVIOUS
  <2> QED
    BY <2>1, <2>2
<1>5. PICK y \in LeafNo : y = w * d
  BY <1>1, <1>4 DEF LeafNo
<1>6. PICK x \in Nat : x = (n + 1) * d
  OBVIOUS
<1>7. x = y + Leaves
  <2>1. (w + b) * d = w * d + b * d
    OBVIOUS
  <2> QED
    BY <1>1, <1>3, <1>5, <1>6, <2>1
<1>8. x \div d = n + 1
  BY <1>6, QuotientIs
<1>a. (y + Leaves) \div 2 ^ j = n + 1
  BY <1>1, <1>7, <1>8, Zenon
<1>b. (n + 1) - 1 = n
  OBVIOUS
<1>9. At(y, j) = n
  BY <1>a, <1>b, Zenon DEF At
<1> QED
  BY <1>1, <1>2, <1>5, <1>9

\* One round: a subtree, and what covers the rest.
LEMMA OneRound ==
    ASSUME NEW s \in LeafNo, NEW k \in Up, NEW z \in Nat, s = z * 2 ^ k,
           NEW e \in LeafNo, s + 2 ^ k <= e + 1, e + 1 - s < 2 ^ (k + 1),
           NEW S, Covers(S, s + 2 ^ k, e)
    PROVE  Covers({At(s, k)} \cup S, s, e)
<1>1. PICK c \in Nat \ {0} : c = 2 ^ k
  BY PowerType DEF Up
<1>2. s \in Nat /\ e \in Nat /\ k \in Nat
  BY TreeSizes DEF LeafNo, Up
<1> DEFINE t == At(s, k)
<1>3. t \in Node
  BY LevelRange
<1>4. LeavesUnder[t] = s .. s + c - 1
  BY <1>1, FirstSubtree
<1>5. s + c <= e + 1 /\ Covers(S, s + c, e)
  BY <1>1
<1> HIDE DEF t
<1>6. {t} \cup S \subseteq Node
  BY <1>3, <1>5 DEF Covers
<1>7. ASSUME NEW p \in LeafNo
      PROVE  (\E u \in {t} \cup S : p \in LeavesUnder[u]) <=> p \in s .. e
  <2>1. (\E u \in S : p \in LeavesUnder[u]) <=> p \in s + c .. e
    BY <1>5 DEF Covers
  <2>2. p \in s .. e <=> p \in s .. s + c - 1 \/ p \in s + c .. e
    BY <1>2, <1>5 DEF LeafNo
  <2> QED
    BY <1>4, <2>1, <2>2
<1>8. ASSUME NEW u \in {t} \cup S, NEW v \in {t} \cup S, NEW p \in LeafNo,
             p \in LeavesUnder[u], p \in LeavesUnder[v]
      PROVE  u = v
  <2>1. ASSUME NEW x \in S, p \in LeavesUnder[x] PROVE ~(p \in LeavesUnder[t])
    <3>1. p \in s + c .. e
      BY <1>5, <2>1 DEF Covers
    <3>2. p \notin s .. s + c - 1
      BY <1>2, <3>1 DEF LeafNo
    <3> QED
      BY <1>4, <3>2
  <2>2. CASE u \in S /\ v \in S
    BY <1>5, <1>8, <2>2 DEF Covers
  <2>3. CASE u = t
    BY <1>8, <2>1, <2>3
  <2>4. CASE v = t
    BY <1>8, <2>1, <2>4
  <2> QED
    BY <2>2, <2>3, <2>4
<1>9. ASSUME NEW n \in Node, LeavesUnder[n] \subseteq s .. e
      PROVE  \E u \in {t} \cup S : u = n \/ u \in Above[n]
  <2>1. CASE \E q \in LeavesUnder[n] : q \in s .. s + c - 1
    <3>1. PICK q \in LeavesUnder[n] : q \in s .. s + c - 1
      BY <2>1
    <3>2. PICK j \in Up : q \in LeafNo /\ n = At(q, j)
      BY <3>1, UnderPath
    <3>3. q \in LeavesUnder[At(s, k)]
      BY <1>4, <3>1 DEF t
    <3>4. t = At(q, k)
      BY <3>3, UnderAt DEF t
    <3>5. j \in Nat
      BY DEF Up
    <3>6. ~(k + 1 <= j)
      <4> SUFFICES ASSUME k + 1 <= j PROVE FALSE
        OBVIOUS
      <4>1. PICK d \in Nat \ {0} : d = 2 ^ j
        BY <3>5, PowerType
      <4>2. 2 * c <= d
        <5>1. 2 ^ (k + 1) = 2 * c
          BY <1>1, <1>2, PowerNext
        <5>2. 2 ^ (k + 1) <= 2 ^ j
          BY <1>2, <3>5, PowerGrows
        <5> QED
          BY <4>1, <5>1, <5>2
      <4>3. \E x \in Nat : LeavesUnder[n] = x .. x + d - 1
        <5>1. PICK y \in LeafNo, w \in Nat : y = w * d /\ At(y, j) = n
          BY <3>2, <4>1, SubtreeStart
        <5>2. LeavesUnder[At(y, j)] = y .. y + d - 1
          BY <4>1, <5>1, FirstSubtree
        <5> QED
          BY <5>1, <5>2 DEF LeafNo
      <4>4. PICK x \in Nat : LeavesUnder[n] = x .. x + d - 1
        BY <4>3
      <4>5. x \in s .. e /\ x + d - 1 \in s .. e
        BY <1>9, <4>4
      <4>6. e + 1 - s < 2 * c
        BY <1>1, <1>2, PowerNext
      <4> QED
        BY <1>2, <4>2, <4>5, <4>6
    <3>7. j <= k
      BY <1>2, <3>5, <3>6
    <3>8. t = n \/ t \in Above[n]
      <4>1. j = k \/ j < k
        BY <1>2, <3>5, <3>7
      <4> QED
        BY <3>2, <3>4, <4>1, AboveAt
    <3> QED
      BY <3>8
  <2>2. CASE \A q \in LeavesUnder[n] : q \notin s .. s + c - 1
    <3>1. ASSUME NEW q \in LeavesUnder[n] PROVE q \in s + c .. e
      <4>1. q \in s .. e /\ q \notin s .. s + c - 1
        BY <1>9, <2>2
      <4> QED
        BY <1>2, <4>1
    <3> QED
      BY <1>5, <3>1 DEF Covers
  <2> QED
    BY <2>1, <2>2
<1>10. Covers({t} \cup S, s, e)
  BY <1>6, <1>7, <1>8, <1>9 DEF Covers
<1> QED
  BY <1>10 DEF t

(***************************************************************************)
(* Server::findCoveringSet makes up the leaves 0 .. a_w of full subtrees,  *)
(* disjoint ones, and every full subtree of these leaves lies in one.      *)
(***************************************************************************)
LEMMA CoverIs ==
    ASSUME NEW a \in LeafNo
    PROVE  Covers(findCoveringSet[a], 0, a)
<1>1. PICK f : IsCover(a, f) /\ findCoveringSet[a] = f[a + 1]
  BY CoverDefined
<1>2. a \in Nat /\ a + 1 \in Nat /\ a < Leaves /\ Leaves \in Nat
  BY TreeSizes DEF LeafNo
<1>3. ASSUME NEW r \in 0 .. a + 1 PROVE f[r] = Round(a, f, r)
  BY <1>1 DEF IsCover
<1> DEFINE Good(r) == Aligned(a + 1 - r, r) => Covers(f[r], a + 1 - r, a)
           B == {r \in 0 .. a + 1 : ~Good(r)}
<1>4. B = {}
  <2> SUFFICES ASSUME B # {} PROVE FALSE
    OBVIOUS
  <2>1. B \subseteq Nat
    OBVIOUS
  <2> HIDE DEF B
  <2>2. PICK r \in B : \A y \in B : r <= y
    BY <2>1, Minimum
  <2>3. r \in 0 .. a + 1 /\ ~Good(r)
    BY DEF B
  <2>4. Aligned(a + 1 - r, r) /\ ~Covers(f[r], a + 1 - r, a)
    BY <2>3
  <2>5. CASE r = 0
    <3>1. f[r] = {}
      BY <1>3, <2>3, <2>5 DEF Round
    <3>2. a + 1 - r .. a = {}
      BY <1>2, <2>5
    <3>3. ASSUME NEW n \in Node PROVE ~(LeavesUnder[n] \subseteq {})
      BY UnderSome
    <3>4. Covers({}, a + 1 - r, a)
      BY <3>2, <3>3 DEF Covers
    <3> QED
      BY <2>4, <3>1, <3>4
  <2>6. CASE r # 0
    <3>1. PICK k \in Up : /\ k = Log2(r)
                          /\ 2 ^ k <= r
                          /\ r < 2 ^ (k + 1)
                          /\ r - 2 ^ k \in 0 .. r - 1
      BY <2>3, <2>6, Remains
    <3>2. PICK s \in LeafNo : s = a + 1 - r
      BY <1>2, <2>3, <2>6 DEF LeafNo
    <3>3. k \in Nat /\ s \in Nat /\ r \in Nat
      BY <1>2, <2>3, <3>2 DEF Up, LeafNo
    <3>4. PICK m \in Nat : m = 2 ^ k
      BY <3>3, PowerType
    <3>5. PICK y \in 0 .. r - 1 : y = r - 2 ^ k
      BY <3>1
    <3>6. Aligned(s, r)
      BY <2>4, <3>2
    <3>7. (\E z \in Nat : s = z * 2 ^ k) /\ Aligned(s + 2 ^ k, r - 2 ^ k)
      BY <3>1, <3>3, <3>6, StaysAligned
    <3>8. PICK z \in Nat : s = z * 2 ^ k
      BY <3>7
    <3>9. a + 1 - y = s + 2 ^ k
      BY <1>2, <3>2, <3>3, <3>4, <3>5
    <3>10. y \in 0 .. a + 1 /\ y \notin B
      BY <2>2, <2>3, <3>3, <3>5
    <3>11. Covers(f[y], s + 2 ^ k, a)
      <4>1. Good(y)
        BY <3>10 DEF B
      <4>2. Aligned(a + 1 - y, y)
        BY <3>5, <3>7, <3>9
      <4> QED
        BY <3>9, <4>1, <4>2
    <3>12. s + 2 ^ k <= a + 1
      BY <1>2, <3>1, <3>2, <3>3, <3>4
    <3>13. a + 1 - s = r
      BY <1>2, <3>2, <3>3
    <3>14. a + 1 - s < 2 ^ (k + 1)
      BY <3>1, <3>13
    <3>15. Covers({At(s, k)} \cup f[y], s, a)
      BY <3>8, <3>11, <3>12, <3>14, OneRound
    <3>16. FirstNode(a, r) = At(s, k)
      <4>1. FirstNode(a, r) = getNodeOnPath(s + 2 ^ k - 1, height - k)
        BY <3>1, <3>2 DEF FirstNode
      <4> QED
        BY <4>1, <3>8, FirstSubtree
    <3>17. f[r] = {At(s, k)} \cup f[y]
      <4>1. f[r] = {FirstNode(a, r)} \cup f[r - 2 ^ Log2(r)]
        BY <1>3, <2>3, <2>6 DEF Round
      <4> QED
        BY <3>1, <3>5, <3>16, <4>1
    <3> QED
      BY <2>4, <3>2, <3>15, <3>17
  <2> QED
    BY <2>5, <2>6
<1>5. a + 1 \in 0 .. a + 1 /\ Good(a + 1)
  BY <1>2, <1>4
<1>6. Aligned(0, a + 1)
  <2>1. 0 = 0 * 2 ^ (height + 1) /\ height + 1 \in Nat
    BY TreeSizes, PowerType
  <2>2. a + 1 < 2 ^ (height + 1)
    BY <1>2, TreeSizes, PowerNext
  <2> QED
    BY <2>1, <2>2 DEF Aligned
<1>7. a + 1 - (a + 1) = 0
  BY <1>2
<1> QED
  BY <1>1, <1>5, <1>6, <1>7

-----------------------------------------------------------------------------
(* Marks and their ancestors.                                              *)

\* An ancestor of an ancestor is one.
LEMMA AboveTransitive ==
    ASSUME NEW n \in Node, NEW b \in Above[n], NEW a \in Above[b]
    PROVE  /\ a \in Above[n] /\ a \in Node /\ b \in Node
           /\ a < b /\ b < n
<1>1. b \in Node /\ b < n /\ LeavesUnder[n] \subseteq LeavesUnder[b]
  BY DEF Above
<1>2. a \in Node /\ a < b /\ LeavesUnder[b] \subseteq LeavesUnder[a]
  BY <1>1 DEF Above
<1>3. a < n
  BY <1>1, <1>2 DEF Node
<1> QED
  BY <1>1, <1>2, <1>3 DEF Above

\* A node of a set is topmost or below a topmost one.
LEMMA TopmostOver ==
    ASSUME NEW S, S \subseteq Node, NEW n \in S
    PROVE  \E m \in Topmost(S) : m = n \/ m \in Above[n]
<1> DEFINE T == {m \in S : m = n \/ m \in Above[n]}
<1>0. Node \subseteq Nat
  BY TreeSizes
<1>1. T \subseteq Nat /\ n \in T
  BY <1>0
<1> HIDE DEF T
<1>2. PICK m \in T : \A y \in T : m <= y
  BY <1>1, Minimum
<1>3. m \in S /\ (m = n \/ m \in Above[n])
  BY DEF T
<1>4. ASSUME NEW a \in Above[m] PROVE a \notin S
  <2> SUFFICES ASSUME a \in S PROVE FALSE
    OBVIOUS
  <2>1. a \in Above[n]
    BY <1>3, AboveTransitive
  <2>2. a \in T
    BY <2>1 DEF T
  <2>3. a < m /\ m \in Int /\ a \in Int
    BY <1>3 DEF Above, Node
  <2>4. m <= a
    BY <1>2, <2>2
  <2> QED
    BY <2>3, <2>4
<1> QED
  BY <1>3, <1>4 DEF Topmost

\* What the topmost nodes of S and m are depends on the topmost ones of S.
LEMMA TopmostAdd ==
    ASSUME NEW S, S \subseteq Node, NEW T, T \subseteq Node, NEW m \in Node,
           Topmost(S) = Topmost(T)
    PROVE  Topmost(S \cup {m}) \subseteq Topmost(T \cup {m})
<1> SUFFICES ASSUME NEW n \in Topmost(S \cup {m}) PROVE n \in Topmost(T \cup {m})
  OBVIOUS
<1>1. n \in S \cup {m} /\ Above[n] \cap (S \cup {m}) = {}
  BY DEF Topmost
<1>2. CASE n \in S
  <2>1. n \in Topmost(S)
    BY <1>1, <1>2 DEF Topmost
  <2>2. n \in T /\ Above[n] \cap T = {}
    BY <2>1 DEF Topmost
  <2> QED
    BY <1>1, <2>2 DEF Topmost
<1>3. CASE n = m
  <2>1. ASSUME NEW t \in Above[m], t \in T PROVE FALSE
    <3>1. PICK u \in Topmost(T) : u = t \/ u \in Above[t]
      BY <2>1, TopmostOver
    <3>2. u \in Above[m]
      BY <3>1, AboveTransitive
    <3>3. u \in S
      BY DEF Topmost
    <3> QED
      BY <1>1, <1>3, <3>2, <3>3
  <2> QED
    BY <1>1, <1>3, <2>1 DEF Topmost
<1> QED
  BY <1>1, <1>2, <1>3

\* The topmost nodes cover the same leaves.
LEMMA TopmostLeaves ==
    ASSUME NEW S, S \subseteq Node, NEW p
    PROVE  (\E n \in S : p \in LeavesUnder[n]) <=> (\E m \in Topmost(S) : p \in LeavesUnder[m])
<1>1. ASSUME NEW n \in S, p \in LeavesUnder[n] PROVE \E m \in Topmost(S) : p \in LeavesUnder[m]
  <2>1. PICK m \in Topmost(S) : m = n \/ m \in Above[n]
    BY TopmostOver
  <2>2. LeavesUnder[n] \subseteq LeavesUnder[m]
    BY <2>1 DEF Above
  <2> QED
    BY <1>1, <2>2
<1>2. Topmost(S) \subseteq S
  BY DEF Topmost
<1> QED
  BY <1>1, <1>2

-----------------------------------------------------------------------------
(* The client's maps, of the setup phase until it ends.                    *)

CurOdel == IF phase = "setup" THEN setupOdel ELSE Odel

Record == [src_cnt : 0 .. MaxSrc, a_w : LeafNo]

\* The keywords Ocnt has counted right: all of them during the setup phase,
\* and after it the one at the root of its tree.
Counted(w) == phase = "setup" \/ w = root \/ w \notin DOMAIN CurOcnt

\* The caller uses one keyword, which then is always counted right.
OneKeyword == \A v, w \in Keyword : v = w

\* The maps of the other phase are empty, and Ocnt knows its root.
PhasesApart ==
    /\ phase \in {"setup", "live"}
    /\ phase = "setup" => Ocnt = Empty /\ Odel = Empty /\ Ostate = {}
    /\ DOMAIN setupOcnt = {} => setupOcnt = Empty /\ setupOdel = Empty /\ setupOstate = {}
    /\ \/ root = NoKeyword /\ DOMAIN Ocnt = {}
       \/ root \in DOMAIN Ocnt

\* The records have their types, and a colour or an identifier has counters.
Records ==
    /\ CurOcnt \in [DOMAIN CurOcnt -> Record] /\ DOMAIN CurOcnt \subseteq Keyword
    /\ CurOdel \in [DOMAIN CurOdel -> LeafNo]
    /\ CurOstate \subseteq (DOMAIN CurOcnt) \X Node
    /\ live \in [Keyword -> SUBSET Ind] /\ finalRes \subseteq Ind
    /\ \A w \in Keyword : \A x \in live[w] : <<w, x>> \in DOMAIN CurOdel /\ w \in DOMAIN CurOcnt

\* The server's addresses are of generations reached and leaves given out.
Addresses ==
    /\ I \in [DOMAIN I -> Ind]
    /\ \A a \in DOMAIN I :
          \E w \in DOMAIN CurOcnt, s \in Nat, p \in LeafNo :
              /\ a = <<w, s, At(p, 0)>>
              /\ \/ s < CurOcnt[w].src_cnt
                 \/ s = CurOcnt[w].src_cnt /\ p <= CurOcnt[w].a_w
    /\ \A d \in Dstate :
          \E w \in DOMAIN CurOcnt, s \in Nat, n \in Node :
              d = <<w, s, n>> /\ s <= CurOcnt[w].src_cnt

\* What the operations do to the maps in use.
Grows(w, x) ==
    LET c == Counters(CurOcnt, w)
    IN  /\ Store(w, x, c)
        /\ \E d \in Record :
              /\ \/ d = [src_cnt |-> c.src_cnt, a_w |-> c.a_w + 1]
                 \/ /\ ~Counted(w)'
                    /\ w \in DOMAIN CurOcnt
                    /\ d = [src_cnt |-> c.src_cnt + 1, a_w |-> c.a_w]
              /\ CurOcnt' = Put(CurOcnt, w, d)
        /\ CurOdel' = Put(CurOdel, <<w, x>>, c.a_w + 1)
        /\ CurOstate' = CurOstate

Shrinks(w, x) ==
    LET nodes == Coloured(CurOstate, w, CurOdel[<<w, x>>])
    IN  /\ Mark(w, x, CurOcnt[w].src_cnt, nodes)
        /\ CurOstate' = CurOstate \cup ({w} \X nodes)
        /\ CurOcnt' = CurOcnt /\ CurOdel' = CurOdel

Moves(w) ==
    LET c == CurOcnt[w]
    IN  /\ w \in DOMAIN CurOcnt
        /\ c.src_cnt < MaxSrc
        /\ finalRes' = Results(w, c)
        /\ I' = EntriesMoved(w, c)
        /\ Dstate' = MarksMoved(w, c)
        /\ CurOcnt' = Put(CurOcnt, w, [src_cnt |-> c.src_cnt + 1, a_w |-> c.a_w])
        /\ CurOdel' = CurOdel /\ CurOstate' = CurOstate /\ live' = live

Stays ==
    /\ CurOcnt' = CurOcnt /\ CurOdel' = CurOdel /\ CurOstate' = CurOstate
    /\ I' = I /\ Dstate' = Dstate /\ live' = live /\ finalRes' = finalRes

\* Put is what it is.
LEMMA PutIs ==
    ASSUME NEW m, NEW k, NEW v
    PROVE  /\ DOMAIN Put(m, k, v) = DOMAIN m \cup {k}
           /\ Put(m, k, v)[k] = v
           /\ \A j \in DOMAIN m : j # k => Put(m, k, v)[j] = m[j]
           /\ Put(m, k, v) = [j \in DOMAIN m \cup {k} |-> Put(m, k, v)[j]]
BY DEF Put

\* Changing one field of a record.
LEMMA PutField ==
    ASSUME NEW m, m \in [DOMAIN m -> Record], NEW w \in DOMAIN m
    PROVE  /\ [m EXCEPT ![w].src_cnt = @ + 1] =
                 Put(m, w, [src_cnt |-> m[w].src_cnt + 1, a_w |-> m[w].a_w])
           /\ [m EXCEPT ![w].a_w = @ + 1] =
                 Put(m, w, [src_cnt |-> m[w].src_cnt, a_w |-> m[w].a_w + 1])
<1>1. m[w] = [src_cnt |-> m[w].src_cnt, a_w |-> m[w].a_w]
  BY DEF Record
<1>2. [m[w] EXCEPT !.src_cnt = m[w].src_cnt + 1] =
          [src_cnt |-> m[w].src_cnt + 1, a_w |-> m[w].a_w]
  BY <1>1
<1>3. [m[w] EXCEPT !.a_w = m[w].a_w + 1] =
          [src_cnt |-> m[w].src_cnt, a_w |-> m[w].a_w + 1]
  BY <1>1
<1>4. ASSUME NEW r
      PROVE  [m EXCEPT ![w] = r] = Put(m, w, r)
  <2>1. DOMAIN m \cup {w} = DOMAIN m
    OBVIOUS
  <2>2. [m EXCEPT ![w] = r] = [j \in DOMAIN m |-> IF j = w THEN r ELSE m[j]]
    OBVIOUS
  <2> QED
    BY <2>1, <2>2, Zenon DEF Put
<1>5. [m EXCEPT ![w].src_cnt = @ + 1] =
          [m EXCEPT ![w] = [src_cnt |-> m[w].src_cnt + 1, a_w |-> m[w].a_w]]
  BY <1>2
<1>6. [m EXCEPT ![w].a_w = @ + 1] =
          [m EXCEPT ![w] = [src_cnt |-> m[w].src_cnt, a_w |-> m[w].a_w + 1]]
  BY <1>3
<1> QED
  BY <1>4, <1>5, <1>6, Zenon

\* The counters before an insertion.
LEMMA CountersBefore ==
    ASSUME Records, NEW w \in Keyword
    PROVE  LET c == Counters(CurOcnt, w)
           IN  /\ c.src_cnt \in 0 .. MaxSrc
               /\ c.a_w \in -1 .. Leaves - 1
               /\ w \in DOMAIN CurOcnt => c = CurOcnt[w] /\ c \in Record
               /\ w \notin DOMAIN CurOcnt => c.src_cnt = 0 /\ c.a_w = -1
<1>1. CASE w \in DOMAIN CurOcnt
  <2>1. CurOcnt[w] \in Record
    BY <1>1 DEF Records
  <2> QED
    BY <1>1, <2>1, TreeSizes DEF Counters, Record, LeafNo
<1>2. CASE w \notin DOMAIN CurOcnt
  BY <1>2, TreeSizes, QOSAssumption DEF Counters, NoCounters
<1> QED
  BY <1>1, <1>2


\* The number of insertions stays below that of the leaves.
LEMMA NextLeaf ==
    ASSUME Records, NEW w \in Keyword, Counters(CurOcnt, w).a_w + 1 < MaxInserts
    PROVE  Counters(CurOcnt, w).a_w + 1 \in LeafNo
<1>1. MaxInserts \in 0 .. Leaves
  BY QOSAssumption DEF Leaves
<1>2. Counters(CurOcnt, w).a_w \in -1 .. Leaves - 1
  BY CountersBefore
<1> QED
  BY <1>1, <1>2, TreeSizes DEF LeafNo

\* An insertion in the setup phase.
LEMMA SetupInsertGrows ==
    ASSUME PhasesApart, Records, NEW w \in Keyword, NEW x \in Ind, SetupInsert(w, x)
    PROVE  PhasesApart' /\ Grows(w, x)
<1>1. /\ phase = "setup" /\ phase' = "setup"
      /\ Ocnt' = Ocnt /\ root' = root /\ Odel' = Odel /\ Ostate' = Ostate
      /\ setupOstate' = setupOstate
      /\ setupOcnt' = Put(setupOcnt, w, [src_cnt |-> Counters(setupOcnt, w).src_cnt,
                                         a_w |-> Counters(setupOcnt, w).a_w + 1])
      /\ setupOdel' = Put(setupOdel, <<w, x>>, Counters(setupOcnt, w).a_w + 1)
      /\ Store(w, x, Counters(setupOcnt, w))
  BY DEF SetupInsert, maps
<1>2. /\ CurOcnt = setupOcnt /\ CurOcnt' = setupOcnt'
      /\ CurOdel = setupOdel /\ CurOdel' = setupOdel'
      /\ CurOstate = setupOstate /\ CurOstate' = setupOstate'
  BY <1>1 DEF CurOcnt, CurOdel, CurOstate
<1> DEFINE c == Counters(CurOcnt, w)
           d == [src_cnt |-> c.src_cnt, a_w |-> c.a_w + 1]
<1>3. d \in Record
  <2>1. c.src_cnt \in 0 .. MaxSrc
    BY CountersBefore
  <2>2. c.a_w + 1 \in LeafNo
    <3>1. c.a_w + 1 < MaxInserts
      BY <1>1, <1>2 DEF Store
    <3> QED
      BY <3>1, NextLeaf
  <2> QED
    BY <2>1, <2>2 DEF Record
<1>4. Grows(w, x)
  BY <1>1, <1>2, <1>3 DEF Grows
<1>5. DOMAIN setupOcnt' # {}
  <2>1. setupOcnt' = Put(setupOcnt, w, d)
    BY <1>1, <1>2, Zenon
  <2> HIDE DEF d
  <2>2. DOMAIN setupOcnt' = DOMAIN setupOcnt \cup {w}
    BY <2>1, PutIs, Zenon
  <2> QED
    BY <2>2
<1> QED
  BY <1>1, <1>4, <1>5 DEF PhasesApart

\* An ordinary insertion.
LEMMA InsertGrows ==
    ASSUME PhasesApart, Records, NEW w \in Keyword, NEW x \in Ind, Insert(w, x)
    PROVE  PhasesApart' /\ Grows(w, x)
<1>1. /\ phase = "live" \/ DOMAIN setupOcnt = {}
      /\ phase' = "live"
      /\ Ocnt' = incrementAwCnt(w) /\ Ocnt'[w].src_cnt <= MaxSrc
      /\ root' = RootAfter(w)
      /\ Odel' = Put(Odel, <<w, x>>, Counters(Ocnt, w).a_w + 1)
      /\ Ostate' = Ostate
      /\ setupOcnt' = setupOcnt /\ setupOdel' = setupOdel /\ setupOstate' = setupOstate
      /\ Store(w, x, Counters(Ocnt, w))
  BY DEF Insert, setupMaps
<1>2. CurOcnt = Ocnt /\ CurOdel = Odel /\ CurOstate = Ostate
  BY <1>1 DEF PhasesApart, CurOcnt, CurOdel, CurOstate
<1>3. CurOcnt' = Ocnt' /\ CurOdel' = Odel' /\ CurOstate' = Ostate'
  BY <1>1 DEF CurOcnt, CurOdel, CurOstate
<1>4. Ocnt \in [DOMAIN Ocnt -> Record] /\ DOMAIN Ocnt \subseteq Keyword
  BY <1>2 DEF Records
<1> DEFINE c == Counters(Ocnt, w)
           d == [src_cnt |-> c.src_cnt, a_w |-> c.a_w + 1]
           e == [src_cnt |-> c.src_cnt + 1, a_w |-> c.a_w]
<1>5. /\ c.src_cnt \in 0 .. MaxSrc /\ c.a_w + 1 \in LeafNo
      /\ w \in DOMAIN Ocnt => c = Ocnt[w] /\ c \in Record
      /\ w \notin DOMAIN Ocnt => c.src_cnt = 0 /\ c.a_w = -1
  <2>1. c.a_w + 1 < MaxInserts
    BY <1>1 DEF Store
  <2> QED
    BY <1>2, <2>1, CountersBefore, NextLeaf
<1>6. d \in Record
  BY <1>5 DEF Record
<1>7. root \in DOMAIN Ocnt => root \in Keyword /\ root # NoKeyword
  BY <1>4, QOSAssumption
<1>8. \/ Ocnt' = Put(Ocnt, w, d)
      \/ /\ ~Counted(w)'
         /\ w \in DOMAIN Ocnt
         /\ Ocnt' = Put(Ocnt, w, e)
  <2>1. CASE w \notin DOMAIN Ocnt
    <3>1. Ocnt' = Put(Ocnt, w, [src_cnt |-> 0, a_w |-> 0])
      BY <1>1, <2>1 DEF incrementAwCnt
    <3>2. d = [src_cnt |-> 0, a_w |-> 0]
      BY <1>5, <2>1
    <3> QED
      BY <3>1, <3>2
  <2>2. CASE w \in DOMAIN Ocnt /\ w = root
    <3>1. Ocnt' = [Ocnt EXCEPT ![w].a_w = @ + 1]
      BY <1>1, <2>2, Zenon DEF incrementAwCnt
    <3>a. w \in DOMAIN Ocnt
      BY <2>2
    <3>2. [Ocnt EXCEPT ![w].a_w = @ + 1] =
              Put(Ocnt, w, [src_cnt |-> Ocnt[w].src_cnt, a_w |-> Ocnt[w].a_w + 1])
      BY <1>4, <3>a, PutField, Zenon
    <3>3. c = Ocnt[w]
      BY <1>5, <2>2
    <3> QED
      BY <3>1, <3>2, <3>3, Zenon
  <2>3. CASE w \in DOMAIN Ocnt /\ w # root
    <3>1. Ocnt' = [Ocnt EXCEPT ![w].src_cnt = @ + 1]
      BY <1>1, <2>3, Zenon DEF incrementAwCnt
    <3>2. ~Counted(w)'
      <4>1. root # NoKeyword
        BY <1>7, <2>3 DEF PhasesApart
      <4>2. root' = root
        BY <1>1, <2>3, <4>1 DEF RootAfter
      <4>3. w \in DOMAIN CurOcnt'
        BY <1>3, <2>3, <3>1
      <4> QED
        BY <1>1, <2>3, <4>2, <4>3 DEF Counted
    <3>3. [Ocnt EXCEPT ![w].src_cnt = @ + 1] =
              Put(Ocnt, w, [src_cnt |-> Ocnt[w].src_cnt + 1, a_w |-> Ocnt[w].a_w])
      BY <1>4, <2>3, PutField, Zenon
    <3>4. c = Ocnt[w]
      BY <1>5, <2>3
    <3> QED
      BY <2>3, <3>1, <3>2, <3>3, <3>4, Zenon
  <2> QED
    BY <2>1, <2>2, <2>3
<1> HIDE DEF d, e
<1>9. \E r \in Record :
         /\ r = d \/ (~Counted(w)' /\ w \in DOMAIN CurOcnt /\ r = e)
         /\ CurOcnt' = Put(CurOcnt, w, r)
  <2>1. CASE Ocnt' = Put(Ocnt, w, d)
    BY <1>2, <1>3, <1>6, <2>1
  <2>2. CASE ~Counted(w)' /\ w \in DOMAIN Ocnt /\ Ocnt' = Put(Ocnt, w, e)
    <3>1. Ocnt'[w] = e
      <4>1. PICK r : r = e /\ Ocnt' = Put(Ocnt, w, r)
        BY <2>2, Zenon
      <4>a. Put(Ocnt, w, r)[w] = r
        BY DEF Put
      <4>2. Ocnt'[w] = r
        BY <4>1, <4>a
      <4> QED
        BY <4>1, <4>2, Zenon
    <3>2. e \in Record
      <4>1. c \in Record /\ e.src_cnt = c.src_cnt + 1 /\ e.a_w = c.a_w
        BY <1>5, <2>2 DEF e
      <4>2. e.src_cnt <= MaxSrc
        BY <1>1, <3>1
      <4>3. c.src_cnt + 1 \in 0 .. MaxSrc
        BY <1>5, <4>1, <4>2, QOSAssumption
      <4> QED
        BY <4>1, <4>3 DEF e, Record
    <3> QED
      BY <1>2, <1>3, <2>2, <3>2
  <2> QED
    BY <1>8, <2>1, <2>2
<1>10. Grows(w, x)
  BY <1>1, <1>2, <1>3, <1>9 DEF Grows, d, e
<1>11. DOMAIN Ocnt' = DOMAIN Ocnt \cup {w}
  <2>1. PICK r : Ocnt' = Put(Ocnt, w, r)
    BY <1>8, Zenon
  <2> QED
    BY <2>1, PutIs, Zenon
<1>12. root' \in DOMAIN Ocnt'
  <2>1. root' = w \/ (root' = root /\ root # NoKeyword)
    BY <1>1 DEF RootAfter
  <2> QED
    BY <1>11, <2>1 DEF PhasesApart
<1> QED
  BY <1>1, <1>10, <1>12 DEF PhasesApart

\* A removal, in either phase.
LEMMA RemoveShrinks ==
    ASSUME PhasesApart, Records, NEW w \in Keyword, NEW x \in Ind,
           SetupRemove(w, x) \/ Remove(w, x)
    PROVE  PhasesApart' /\ x \in live[w] /\ Shrinks(w, x)
<1>1. CASE SetupRemove(w, x)
  <2>1. /\ phase = "setup" /\ x \in live[w]
        /\ Ocnt' = Ocnt /\ root' = root /\ Odel' = Odel /\ Ostate' = Ostate
        /\ setupOcnt' = setupOcnt /\ setupOdel' = setupOdel
        /\ Mark(w, x, setupOcnt[w].src_cnt, Coloured(setupOstate, w, setupOdel[<<w, x>>]))
        /\ setupOstate' = setupOstate \cup
              ({w} \X Coloured(setupOstate, w, setupOdel[<<w, x>>]))
    BY <1>1 DEF SetupRemove, maps
  <2>2. phase' = "setup"
    BY <2>1 DEF Mark
  <2>3. /\ CurOcnt = setupOcnt /\ CurOcnt' = setupOcnt'
        /\ CurOdel = setupOdel /\ CurOdel' = setupOdel'
        /\ CurOstate = setupOstate /\ CurOstate' = setupOstate'
    BY <2>1, <2>2 DEF CurOcnt, CurOdel, CurOstate
  <2>4. Shrinks(w, x)
    BY <2>1, <2>3, Zenon DEF Shrinks
  <2>5. DOMAIN setupOcnt # {}
    BY <2>1, <2>3 DEF Records
  <2> QED
    BY <2>1, <2>2, <2>4, <2>5 DEF PhasesApart
<1>2. CASE Remove(w, x)
  <2>1. /\ phase = "live" /\ x \in live[w]
        /\ Ocnt' = Ocnt /\ root' = root /\ Odel' = Odel
        /\ setupOcnt' = setupOcnt /\ setupOdel' = setupOdel /\ setupOstate' = setupOstate
        /\ Mark(w, x, Ocnt[w].src_cnt, Coloured(Ostate, w, Odel[<<w, x>>]))
        /\ Ostate' = Ostate \cup ({w} \X Coloured(Ostate, w, Odel[<<w, x>>]))
    BY <1>2 DEF Remove, setupMaps
  <2>2. phase' = "live"
    BY <2>1 DEF Mark
  <2>3. /\ CurOcnt = Ocnt /\ CurOcnt' = Ocnt'
        /\ CurOdel = Odel /\ CurOdel' = Odel'
        /\ CurOstate = Ostate /\ CurOstate' = Ostate'
    BY <2>1, <2>2 DEF CurOcnt, CurOdel, CurOstate
  <2>4. Shrinks(w, x)
    BY <2>1, <2>3, Zenon DEF Shrinks
  <2> QED
    BY <2>1, <2>2, <2>4 DEF PhasesApart
<1> QED
  BY <1>1, <1>2

\* A search.
LEMMA SearchMoves ==
    ASSUME PhasesApart, Records, NEW w \in Keyword, Search(w)
    PROVE  PhasesApart' /\ Moves(w)
<1>1. /\ phase = "live" /\ phase' = "live"
      /\ w \in DOMAIN Ocnt /\ Ocnt[w].src_cnt < MaxSrc
      /\ finalRes' = Results(w, Ocnt[w])
      /\ I' = EntriesMoved(w, Ocnt[w])
      /\ Dstate' = MarksMoved(w, Ocnt[w])
      /\ Ocnt' = [Ocnt EXCEPT ![w].src_cnt = @ + 1]
      /\ root' = root /\ Odel' = Odel /\ Ostate' = Ostate /\ live' = live
      /\ setupOcnt' = setupOcnt /\ setupOdel' = setupOdel /\ setupOstate' = setupOstate
  BY DEF Search, setupMaps
<1>2. /\ CurOcnt = Ocnt /\ CurOcnt' = Ocnt'
      /\ CurOdel = Odel /\ CurOdel' = Odel'
      /\ CurOstate = Ostate /\ CurOstate' = Ostate'
  BY <1>1 DEF CurOcnt, CurOdel, CurOstate
<1>3. Ocnt \in [DOMAIN Ocnt -> Record]
  BY <1>2 DEF Records
<1> DEFINE d == [src_cnt |-> Ocnt[w].src_cnt + 1, a_w |-> Ocnt[w].a_w]
<1>4. Ocnt' = Put(Ocnt, w, d)
  BY <1>1, <1>3, PutField, Zenon
<1> HIDE DEF d
<1>5. DOMAIN Ocnt' = DOMAIN Ocnt
  BY <1>1, <1>4, PutIs
<1>6. PhasesApart'
  BY <1>1, <1>5 DEF PhasesApart
<1>7. Moves(w)
  BY <1>1, <1>2, <1>4, Zenon DEF Moves, d
<1> QED
  BY <1>6, <1>7

\* The end of the setup phase changes which maps are in use, not what is in them.
LEMMA EndSetupStays ==
    ASSUME PhasesApart, Records, EndSetup
    PROVE  PhasesApart' /\ Stays
<1>1. /\ phase = "setup" /\ phase' = "live"
      /\ DOMAIN setupOcnt # {}
      /\ Ocnt' = setupOcnt /\ Odel' = setupOdel /\ Ostate' = setupOstate
      /\ root' = Min(DOMAIN setupOcnt)
      /\ setupOcnt' = setupOcnt /\ setupOdel' = setupOdel /\ setupOstate' = setupOstate
      /\ I' = I /\ Dstate' = Dstate /\ live' = live /\ finalRes' = finalRes
  BY DEF EndSetup, setupMaps
<1>2. /\ CurOcnt = setupOcnt /\ CurOcnt' = setupOcnt
      /\ CurOdel = setupOdel /\ CurOdel' = setupOdel
      /\ CurOstate = setupOstate /\ CurOstate' = setupOstate
  BY <1>1 DEF CurOcnt, CurOdel, CurOstate
<1>3. DOMAIN setupOcnt \subseteq Nat
  BY <1>2, QOSAssumption DEF Records
<1>4. Min(DOMAIN setupOcnt) \in DOMAIN setupOcnt
  <2>1. \E y \in DOMAIN setupOcnt : \A z \in DOMAIN setupOcnt : y <= z
    BY <1>1, <1>3, Minimum
  <2> QED
    BY <2>1 DEF Min
<1>5. PhasesApart'
  BY <1>1, <1>4 DEF PhasesApart
<1> QED
  BY <1>1, <1>2, <1>5 DEF Stays

\* Every step, in terms of the maps in use.
LEMMA Steps ==
    ASSUME PhasesApart, Records, [Next]_vars
    PROVE  /\ PhasesApart'
           /\ \/ \E w \in Keyword, x \in Ind : Grows(w, x) \/ (x \in live[w] /\ Shrinks(w, x))
              \/ \E w \in Keyword : Moves(w)
              \/ Stays
<1>1. CASE \E w \in Keyword, x \in Ind : SetupInsert(w, x) \/ Insert(w, x)
  BY <1>1, SetupInsertGrows, InsertGrows
<1>2. CASE \E w \in Keyword, x \in Ind : SetupRemove(w, x) \/ Remove(w, x)
  BY <1>2, RemoveShrinks
<1>3. CASE \E w \in Keyword : Search(w)
  BY <1>3, SearchMoves
<1>4. CASE EndSetup
  BY <1>4, EndSetupStays
<1>5. CASE UNCHANGED vars
  <2>1. /\ Ocnt' = Ocnt /\ root' = root /\ Odel' = Odel /\ Ostate' = Ostate
        /\ setupOcnt' = setupOcnt /\ setupOdel' = setupOdel /\ setupOstate' = setupOstate
        /\ I' = I /\ Dstate' = Dstate /\ phase' = phase /\ live' = live
        /\ finalRes' = finalRes
    BY <1>5 DEF vars, maps, setupMaps
  <2>2. Stays
    BY <2>1 DEF Stays, CurOcnt, CurOdel, CurOstate
  <2> QED
    BY <2>1, <2>2 DEF PhasesApart
<1> QED
  BY <1>1, <1>2, <1>3, <1>4, <1>5 DEF Next


-----------------------------------------------------------------------------
(* Types and addresses, of one keyword or two.                             *)

\* Put keeps the type of a map.
LEMMA PutType ==
    ASSUME NEW S, NEW m, m \in [DOMAIN m -> S], NEW k, NEW v \in S
    PROVE  Put(m, k, v) \in [DOMAIN Put(m, k, v) -> S]
<1>1. ASSUME NEW j \in DOMAIN m \cup {k} PROVE Put(m, k, v)[j] \in S
  BY DEF Put
<1>2. DOMAIN Put(m, k, v) = DOMAIN m \cup {k}
  BY PutIs, Zenon
<1>3. Put(m, k, v) = [j \in DOMAIN m \cup {k} |-> Put(m, k, v)[j]]
  BY DEF Put
<1> DEFINE f == Put(m, k, v)
<1> HIDE DEF f
<1>4. f \in [DOMAIN f -> S]
  BY <1>1, <1>2, <1>3 DEF f
<1> QED
  BY <1>4 DEF f

\* The bottom of a path is its leaf.
LEMMA LeafNode ==
    ASSUME NEW p \in LeafNo
    PROVE  getNodeOnPath(p, height) = At(p, 0)
<1>1. height - height = 0
  BY TreeSizes
<1> QED
  BY <1>1, Zenon DEF getNodeOnPath, At

\* Leaves have different nodes.
LEMMA LeafApart ==
    ASSUME NEW p \in LeafNo, NEW q \in LeafNo, At(p, 0) = At(q, 0)
    PROVE  p = q
<1>1. p + Leaves - 1 = q + Leaves - 1
  BY LeafLevel
<1> QED
  BY <1>1, TreeSizes DEF LeafNo

\* What an insertion does, in the terms of the proofs.
Added(w, x, p, d) ==
    /\ x \notin live[w]
    /\ live' = [live EXCEPT ![w] = @ \cup {x}]
    /\ p = Counters(CurOcnt, w).a_w + 1 /\ p \in LeafNo
    /\ I' = Put(I, <<w, Counters(CurOcnt, w).src_cnt, At(p, 0)>>, x)
    /\ Dstate' = Dstate /\ finalRes' = finalRes
    /\ \/ d = [src_cnt |-> Counters(CurOcnt, w).src_cnt, a_w |-> p]
       \/ /\ ~Counted(w)'
          /\ w \in DOMAIN CurOcnt
          /\ d = [src_cnt |-> Counters(CurOcnt, w).src_cnt + 1,
                  a_w |-> Counters(CurOcnt, w).a_w]
    /\ CurOcnt' = Put(CurOcnt, w, d)
    /\ CurOdel' = Put(CurOdel, <<w, x>>, p)
    /\ CurOstate' = CurOstate

LEMMA GrowsIs ==
    ASSUME Records, NEW w \in Keyword, NEW x \in Ind, Grows(w, x)
    PROVE  \E p \in LeafNo, d \in Record : Added(w, x, p, d)
<1> DEFINE c == Counters(CurOcnt, w)
<1>1. PICK d \in Record : /\ \/ d = [src_cnt |-> c.src_cnt, a_w |-> c.a_w + 1]
                             \/ /\ ~Counted(w)'
                                /\ w \in DOMAIN CurOcnt
                                /\ d = [src_cnt |-> c.src_cnt + 1, a_w |-> c.a_w]
                          /\ CurOcnt' = Put(CurOcnt, w, d)
  BY DEF Grows
<1>2. /\ Store(w, x, c)
      /\ CurOdel' = Put(CurOdel, <<w, x>>, c.a_w + 1)
      /\ CurOstate' = CurOstate
  BY DEF Grows
<1>3. c.a_w + 1 \in LeafNo
  BY <1>2, NextLeaf DEF Store
<1>4. PICK p \in LeafNo : p = c.a_w + 1
  BY <1>3
<1>5. /\ x \notin live[w]
      /\ live' = [live EXCEPT ![w] = @ \cup {x}]
      /\ I' = Put(I, <<w, c.src_cnt, getNodeOnPath(p, height)>>, x)
      /\ Dstate' = Dstate /\ finalRes' = finalRes
  BY <1>2, <1>4 DEF Store
<1>6. getNodeOnPath(p, height) = At(p, 0)
  BY LeafNode
<1>7. I' = Put(I, <<w, c.src_cnt, At(p, 0)>>, x)
  BY <1>5, <1>6
<1>8. CurOdel' = Put(CurOdel, <<w, x>>, p)
  BY <1>2, <1>4
<1>9. \/ d = [src_cnt |-> c.src_cnt, a_w |-> p]
      \/ /\ ~Counted(w)'
         /\ w \in DOMAIN CurOcnt
         /\ d = [src_cnt |-> c.src_cnt + 1, a_w |-> c.a_w]
  BY <1>1, <1>4, Zenon
<1>10. Added(w, x, p, d)
  BY <1>1, <1>2, <1>4, <1>5, <1>7, <1>8, <1>9, Zenon DEF Added
<1> QED
  BY <1>10

\* An entry's address.
LEMMA EntryAt ==
    ASSUME Addresses, NEW w, NEW s, NEW n, <<w, s, n>> \in DOMAIN I
    PROVE  /\ w \in DOMAIN CurOcnt /\ s \in Nat
           /\ \E p \in LeafNo : /\ n = At(p, 0)
                                /\ \/ s < CurOcnt[w].src_cnt
                                   \/ s = CurOcnt[w].src_cnt /\ p <= CurOcnt[w].a_w
<1>1. PICK v \in DOMAIN CurOcnt, r \in Nat, p \in LeafNo :
          /\ <<w, s, n>> = <<v, r, At(p, 0)>>
          /\ \/ r < CurOcnt[v].src_cnt
             \/ r = CurOcnt[v].src_cnt /\ p <= CurOcnt[v].a_w
  BY DEF Addresses
<1>2. w = v /\ s = r /\ n = At(p, 0)
  BY <1>1
<1> QED
  BY <1>1, <1>2

\* An insertion takes an address that is free.
LEMMA GrowsFresh ==
    ASSUME Records, Addresses, NEW w \in Keyword, NEW x \in Ind,
           NEW p \in LeafNo, NEW d \in Record, Added(w, x, p, d)
    PROVE  <<w, Counters(CurOcnt, w).src_cnt, At(p, 0)>> \notin DOMAIN I
<1> DEFINE c == Counters(CurOcnt, w)
<1> SUFFICES ASSUME <<w, c.src_cnt, At(p, 0)>> \in DOMAIN I PROVE FALSE
  OBVIOUS
<1>1. PICK q \in LeafNo : /\ w \in DOMAIN CurOcnt
                          /\ At(p, 0) = At(q, 0)
                          /\ \/ c.src_cnt < CurOcnt[w].src_cnt
                             \/ c.src_cnt = CurOcnt[w].src_cnt /\ q <= CurOcnt[w].a_w
  BY EntryAt
<1>2. c = CurOcnt[w] /\ c.src_cnt \in Nat /\ c.a_w \in Int
  BY <1>1, CountersBefore DEF Record, LeafNo
<1>3. q <= c.a_w
  BY <1>1, <1>2
<1>4. p = q
  BY <1>1, LeafApart
<1>5. p = c.a_w + 1
  BY DEF Added
<1> QED
  BY <1>2, <1>3, <1>4, <1>5

LEMMA GrowsRecords ==
    ASSUME Records, NEW w \in Keyword, NEW x \in Ind,
           NEW p \in LeafNo, NEW d \in Record, Added(w, x, p, d)
    PROVE  Records'
<1>1. /\ CurOcnt' = Put(CurOcnt, w, d) /\ CurOdel' = Put(CurOdel, <<w, x>>, p)
      /\ CurOstate' = CurOstate /\ live' = [live EXCEPT ![w] = @ \cup {x}]
      /\ finalRes' = finalRes
  BY DEF Added
<1>2. CurOcnt' \in [DOMAIN CurOcnt' -> Record]
  BY <1>1, PutType DEF Records
<1>3. CurOdel' \in [DOMAIN CurOdel' -> LeafNo]
  BY <1>1, PutType DEF Records
<1>4. DOMAIN CurOcnt' = DOMAIN CurOcnt \cup {w}
  BY <1>1, PutIs, Zenon
<1>5. DOMAIN CurOdel' = DOMAIN CurOdel \cup {<<w, x>>}
  BY <1>1, PutIs, Zenon
<1>6. DOMAIN CurOcnt' \subseteq Keyword /\ CurOstate' \subseteq (DOMAIN CurOcnt') \X Node
  BY <1>1, <1>4 DEF Records
<1>7. live' \in [Keyword -> SUBSET Ind] /\ finalRes' \subseteq Ind
  BY <1>1 DEF Records
<1>8. ASSUME NEW v \in Keyword, NEW y \in live'[v]
      PROVE  <<v, y>> \in DOMAIN CurOdel' /\ v \in DOMAIN CurOcnt'
  <2>1. (v = w /\ y = x) \/ y \in live[v]
    BY <1>1, <1>8 DEF Records
  <2> QED
    BY <1>4, <1>5, <2>1 DEF Records
<1> QED
  BY <1>2, <1>3, <1>6, <1>7, <1>8 DEF Records

LEMMA GrowsAddresses ==
    ASSUME Records, Addresses, NEW w \in Keyword, NEW x \in Ind,
           NEW p \in LeafNo, NEW d \in Record, Added(w, x, p, d)
    PROVE  /\ Addresses'
           /\ \A a \in DOMAIN I : a \in DOMAIN I' /\ I'[a] = I[a]
<1> DEFINE c == Counters(CurOcnt, w)
           new == <<w, c.src_cnt, At(p, 0)>>
<1>1. /\ CurOcnt' = Put(CurOcnt, w, d) /\ I' = Put(I, new, x)
      /\ Dstate' = Dstate /\ p = c.a_w + 1
      /\ \/ d = [src_cnt |-> c.src_cnt, a_w |-> p]
         \/ /\ w \in DOMAIN CurOcnt
            /\ d = [src_cnt |-> c.src_cnt + 1, a_w |-> c.a_w]
  BY DEF Added
<1>2. new \notin DOMAIN I
  BY GrowsFresh
<1>3. /\ c.src_cnt \in Nat /\ c.a_w \in Int /\ p \in Nat
      /\ w \in DOMAIN CurOcnt => c = CurOcnt[w] /\ c.src_cnt \in Nat /\ c.a_w \in Nat
  BY CountersBefore DEF Record, LeafNo
<1>4. \/ d.src_cnt = c.src_cnt /\ d.a_w = p
      \/ d.src_cnt = c.src_cnt + 1 /\ w \in DOMAIN CurOcnt
  BY <1>1
<1>5. d.src_cnt \in Nat /\ d.a_w \in Nat
  BY DEF Record, LeafNo
<1> HIDE DEF c, new
<1>6. DOMAIN CurOcnt' = DOMAIN CurOcnt \cup {w}
  BY <1>1, PutIs, Zenon
<1>7. DOMAIN I' = DOMAIN I \cup {new}
  BY <1>1, PutIs, Zenon
<1>8. CurOcnt'[w] = d
  <2>1. Put(CurOcnt, w, d)[w] = d
    BY DEF Put
  <2> QED
    BY <1>1, <2>1
<1>9. ASSUME NEW v \in DOMAIN CurOcnt, v # w PROVE CurOcnt'[v] = CurOcnt[v]
  <2>1. Put(CurOcnt, w, d)[v] = CurOcnt[v]
    BY <1>9 DEF Put
  <2> QED
    BY <1>1, <2>1
<1>10. ASSUME NEW a \in DOMAIN I PROVE a \in DOMAIN I' /\ I'[a] = I[a]
  <2>1. a # new
    BY <1>2
  <2>2. Put(I, new, x)[a] = I[a]
    BY <2>1 DEF Put
  <2> QED
    BY <1>1, <1>7, <2>2
<1>11. I' \in [DOMAIN I' -> Ind]
  BY <1>1, PutType DEF Addresses
<1>12. ASSUME NEW a \in DOMAIN I'
       PROVE  \E v \in DOMAIN CurOcnt', s \in Nat, q \in LeafNo :
                 /\ a = <<v, s, At(q, 0)>>
                 /\ \/ s < CurOcnt'[v].src_cnt
                    \/ s = CurOcnt'[v].src_cnt /\ q <= CurOcnt'[v].a_w
  <2>1. CASE a = new
    <3>1. c.src_cnt < d.src_cnt \/ (c.src_cnt = d.src_cnt /\ p <= d.a_w)
      BY <1>3, <1>4, <1>5
    <3>2. a = <<w, c.src_cnt, At(p, 0)>>
      BY <2>1 DEF new
    <3> QED
      BY <1>3, <1>6, <1>8, <3>1, <3>2
  <2>2. CASE a \in DOMAIN I
    <3>1. PICK v \in DOMAIN CurOcnt, s \in Nat, q \in LeafNo :
              /\ a = <<v, s, At(q, 0)>>
              /\ \/ s < CurOcnt[v].src_cnt
                 \/ s = CurOcnt[v].src_cnt /\ q <= CurOcnt[v].a_w
      BY <2>2 DEF Addresses
    <3>2. v \in DOMAIN CurOcnt'
      BY <1>6
    <3>3. CASE v # w
      BY <1>9, <3>1, <3>2, <3>3
    <3>4. CASE v = w
      <4>1. s < c.src_cnt \/ (s = c.src_cnt /\ q <= c.a_w)
        BY <1>3, <3>1, <3>4
      <4>2. q \in Nat
        BY TreeSizes DEF LeafNo
      <4>3. s < d.src_cnt \/ (s = d.src_cnt /\ q <= d.a_w)
        BY <1>1, <1>3, <1>4, <1>5, <4>1, <4>2
      <4> QED
        BY <1>8, <3>1, <3>2, <3>4, <4>3
    <3> QED
      BY <3>3, <3>4
  <2> QED
    BY <1>7, <2>1, <2>2
<1>13. ASSUME NEW e \in Dstate'
       PROVE  \E v \in DOMAIN CurOcnt', s \in Nat, n \in Node :
                 e = <<v, s, n>> /\ s <= CurOcnt'[v].src_cnt
  <2>1. PICK v \in DOMAIN CurOcnt, s \in Nat, n \in Node :
            e = <<v, s, n>> /\ s <= CurOcnt[v].src_cnt
    BY <1>1 DEF Addresses
  <2>2. v \in DOMAIN CurOcnt'
    BY <1>6
  <2>3. s <= CurOcnt'[v].src_cnt
    <3>1. CASE v # w
      BY <1>9, <2>1, <3>1
    <3>2. CASE v = w
      <4>1. s <= c.src_cnt
        BY <1>3, <2>1, <3>2
      <4>2. s <= d.src_cnt
        BY <1>3, <1>4, <1>5, <4>1
      <4> QED
        BY <1>8, <3>2, <4>2
    <3> QED
      BY <3>1, <3>2
  <2> QED
    BY <2>1, <2>2, <2>3
<1>14. Addresses'
  BY <1>11, <1>12, <1>13 DEF Addresses
<1> QED
  BY <1>10, <1>14


\* The node that a removal colours, if any, is the topmost that changes.
LEMMA ColouredIs ==
    ASSUME NEW S, NEW w, NEW pos \in LeafNo
    PROVE  /\ Coloured(S, w, pos) \subseteq Changed(S, w, pos)
           /\ Changed(S, w, pos) \subseteq Path[pos]
           /\ Path[pos] \subseteq Node
           /\ Changed(S, w, pos) # {} =>
                 \E m \in Changed(S, w, pos) : Coloured(S, w, pos) = {m}
<1> DEFINE T == Changed(S, w, pos)
<1>1. Path[pos] \subseteq Node
  <2>1. ASSUME NEW n \in Path[pos] PROVE n \in Node
    <3>1. PICK j \in Up : n = At(pos, j)
      BY PathIs
    <3> QED
      BY <3>1, LevelRange
  <2> QED
    BY <2>1
<1>2. T \subseteq Path[pos]
  BY DEF Changed
<1>3. T \subseteq Nat
  BY <1>1, <1>2, TreeSizes
<1>4. T # {} => Min(T) \in T
  <2> HIDE DEF T
  <2>1. T # {} => \E y \in T : \A z \in T : y <= z
    BY <1>3, Minimum
  <2> QED
    BY <2>1 DEF Min
<1>5. Coloured(S, w, pos) = IF T = {} THEN {} ELSE {Min(T)}
  BY DEF Coloured
<1> HIDE DEF T
<1>6. Coloured(S, w, pos) \subseteq T /\ (T # {} => \E m \in T : Coloured(S, w, pos) = {m})
  BY <1>4, <1>5
<1> QED
  BY <1>1, <1>2, <1>6 DEF T

LEMMA ShrinksKeeps ==
    ASSUME Records, Addresses, NEW w \in Keyword, NEW x \in live[w], Shrinks(w, x)
    PROVE  Records' /\ Addresses' /\ I' = I
<1> DEFINE pos == CurOdel[<<w, x>>]
           src == CurOcnt[w].src_cnt
           nodes == Coloured(CurOstate, w, pos)
<1>1. <<w, x>> \in DOMAIN CurOdel /\ w \in DOMAIN CurOcnt /\ x \in Ind
  BY DEF Records
<1>2. pos \in LeafNo /\ src \in Nat
  BY <1>1 DEF Records, Record
<1>3. nodes \subseteq Node
  BY <1>2, ColouredIs
<1>4. /\ live' = [live EXCEPT ![w] = @ \ {x}]
      /\ Dstate' = Dstate \cup ({w} \X {src} \X nodes)
      /\ I' = I /\ finalRes' = finalRes
      /\ CurOstate' = CurOstate \cup ({w} \X nodes)
      /\ CurOcnt' = CurOcnt /\ CurOdel' = CurOdel
  BY DEF Shrinks, Mark
<1> HIDE DEF pos, src, nodes
<1>5. Records'
  <2>1. live' \in [Keyword -> SUBSET Ind]
    BY <1>4 DEF Records
  <2>2. \A v \in Keyword : live'[v] \subseteq live[v]
    BY <1>4 DEF Records
  <2>3. CurOstate' \subseteq (DOMAIN CurOcnt') \X Node
    BY <1>1, <1>3, <1>4 DEF Records
  <2>4. ASSUME NEW v \in Keyword, NEW y \in live'[v]
        PROVE  <<v, y>> \in DOMAIN CurOdel' /\ v \in DOMAIN CurOcnt'
    BY <1>4, <2>2 DEF Records
  <2> QED
    BY <1>4, <2>1, <2>3, <2>4 DEF Records
<1>6. ASSUME NEW e \in Dstate'
      PROVE  \E v \in DOMAIN CurOcnt', s \in Nat, n \in Node :
                e = <<v, s, n>> /\ s <= CurOcnt'[v].src_cnt
  <2>1. CASE e \in Dstate
    BY <1>4, <2>1 DEF Addresses
  <2>2. CASE e \in {w} \X {src} \X nodes
    <3>1. PICK n \in nodes : e = <<w, src, n>>
      BY <2>2
    <3>2. src <= CurOcnt'[w].src_cnt
      BY <1>2, <1>4 DEF src
    <3> QED
      BY <1>1, <1>2, <1>3, <1>4, <3>1, <3>2
  <2> QED
    BY <1>4, <2>1, <2>2
<1>7. Addresses'
  BY <1>4, <1>6 DEF Addresses
<1> QED
  BY <1>4, <1>5, <1>7

\* What a search moves.
LEMMA SearchSets ==
    ASSUME Addresses, NEW w \in Keyword, NEW c
    PROVE  /\ deletes(w, c) \subseteq Visited(w, c)
           /\ Visited(w, c) \subseteq Node
           /\ \A n \in deletes(w, c) : <<w, c.src_cnt, n>> \in Dstate
           /\ \A n \in ciphers(w, c) : <<w, c.src_cnt, n>> \in DOMAIN I
BY DEF deletes, Visited, ciphers

\* What a search does, entry by entry.
Moved(w, c) ==
    /\ w \in DOMAIN CurOcnt /\ c \in Record /\ c.src_cnt + 1 \in 0 .. MaxSrc
    /\ CurOcnt' = Put(CurOcnt, w, [src_cnt |-> c.src_cnt + 1, a_w |-> c.a_w])
    /\ CurOdel' = CurOdel /\ CurOstate' = CurOstate /\ live' = live
    /\ finalRes' = Results(w, c)
    /\ \A a : a \in DOMAIN I' <=>
          \/ a \in DOMAIN I /\ ~\E n \in ciphers(w, c) : a = <<w, c.src_cnt, n>>
          \/ \E n \in ciphers(w, c) : a = <<w, c.src_cnt + 1, n>>
    /\ \A n \in ciphers(w, c) : I'[<<w, c.src_cnt + 1, n>>] = I[<<w, c.src_cnt, n>>]
    /\ \A a \in DOMAIN I : a \in DOMAIN I' => I'[a] = I[a]
    /\ I' = [a \in DOMAIN I' |-> I'[a]]
    /\ \A e : e \in Dstate' <=>
          \/ e \in Dstate /\ ~\E n \in deletes(w, c) : e = <<w, c.src_cnt, n>>
          \/ \E n \in deletes(w, c) : e = <<w, c.src_cnt + 1, n>>

LEMMA MovesIs ==
    ASSUME Records, Addresses, NEW w \in Keyword, Moves(w)
    PROVE  Moved(w, CurOcnt[w])
<1>0. PICK c : c = CurOcnt[w]
  OBVIOUS
<1>1. /\ w \in DOMAIN CurOcnt /\ c.src_cnt < MaxSrc
      /\ finalRes' = Results(w, c)
      /\ I' = EntriesMoved(w, c)
      /\ Dstate' = MarksMoved(w, c)
      /\ CurOcnt' = Put(CurOcnt, w, [src_cnt |-> c.src_cnt + 1, a_w |-> c.a_w])
      /\ CurOdel' = CurOdel /\ CurOstate' = CurOstate /\ live' = live
  BY <1>0 DEF Moves
<1>2. c \in Record /\ c.src_cnt \in 0 .. MaxSrc
  BY <1>0, <1>1 DEF Records, Record
<1>3. c.src_cnt + 1 \in 0 .. MaxSrc
  BY <1>1, <1>2, QOSAssumption
<1> DEFINE src == c.src_cnt
           C == ciphers(w, c)
           D == deletes(w, c)
           old == {w} \X {src} \X C
           new == {w} \X {src + 1} \X C
<1>4. /\ \A a : a \in old <=> \E n \in C : a = <<w, src, n>>
      /\ \A a : a \in new <=> \E n \in C : a = <<w, src + 1, n>>
  OBVIOUS
<1>5. I' = [a \in (DOMAIN I \ old) \cup new |->
               IF a \in new THEN I[<<w, src, a[3]>>] ELSE I[a]]
  BY <1>1 DEF EntriesMoved
<1>6. /\ \A a : a \in {w} \X {src} \X D <=> \E n \in D : a = <<w, src, n>>
      /\ \A a : a \in {w} \X {src + 1} \X D <=> \E n \in D : a = <<w, src + 1, n>>
  OBVIOUS
<1>7. Dstate' = (Dstate \ ({w} \X {src} \X D)) \cup ({w} \X {src + 1} \X D)
  BY <1>1 DEF MarksMoved
<1>8. \A e : e \in Dstate' <=>
         \/ e \in Dstate /\ ~\E n \in D : e = <<w, src, n>>
         \/ \E n \in D : e = <<w, src + 1, n>>
  BY <1>6, <1>7
<1>9. ASSUME NEW a \in DOMAIN I PROVE a \notin new
  <2> SUFFICES ASSUME NEW n \in C, a = <<w, src + 1, n>> PROVE FALSE
    BY <1>4
  <2>0. <<w, src + 1, n>> \in DOMAIN I
    BY <1>9
  <2>1. src + 1 <= c.src_cnt
    BY <1>0, <1>2, <2>0, EntryAt
  <2> QED
    BY <1>2, <2>1
<1> HIDE DEF src, C, D, old, new
<1>10. DOMAIN I' = (DOMAIN I \ old) \cup new
  BY <1>5
<1>11. \A a : a \in DOMAIN I' <=>
          \/ a \in DOMAIN I /\ ~\E n \in C : a = <<w, src, n>>
          \/ \E n \in C : a = <<w, src + 1, n>>
  BY <1>4, <1>10
<1>12. ASSUME NEW n \in C PROVE I'[<<w, src + 1, n>>] = I[<<w, src, n>>]
  <2>1. <<w, src + 1, n>> \in new
    BY <1>4
  <2>2. <<w, src + 1, n>>[3] = n
    OBVIOUS
  <2> QED
    BY <1>5, <2>1, <2>2
<1>13. ASSUME NEW a \in DOMAIN I, a \in DOMAIN I' PROVE I'[a] = I[a]
  BY <1>5, <1>9, <1>13
<1>14. I' = [a \in DOMAIN I' |-> I'[a]]
  BY <1>5
<1>15. Moved(w, c)
  BY <1>1, <1>2, <1>3, <1>8, <1>11, <1>12, <1>13, <1>14 DEF src, C, D, Moved
<1> QED
  BY <1>0, <1>15

LEMMA MovesKeeps ==
    ASSUME Records, Addresses, NEW w \in Keyword, Moves(w)
    PROVE  /\ Records' /\ Addresses'
           /\ \A a \in DOMAIN I : a \in DOMAIN I' => I'[a] = I[a]
<1> DEFINE c == CurOcnt[w]
           d == [src_cnt |-> c.src_cnt + 1, a_w |-> c.a_w]
<1>0. Moved(w, c)
  BY MovesIs
<1>1. /\ w \in DOMAIN CurOcnt /\ c \in Record /\ c.src_cnt + 1 \in 0 .. MaxSrc
      /\ CurOcnt' = Put(CurOcnt, w, d)
      /\ CurOdel' = CurOdel /\ CurOstate' = CurOstate /\ live' = live
      /\ finalRes' = Results(w, c)
  BY <1>0 DEF Moved
<1>2. /\ \A a : a \in DOMAIN I' <=>
            \/ a \in DOMAIN I /\ ~\E n \in ciphers(w, c) : a = <<w, c.src_cnt, n>>
            \/ \E n \in ciphers(w, c) : a = <<w, c.src_cnt + 1, n>>
      /\ \A n \in ciphers(w, c) :
            I'[<<w, c.src_cnt + 1, n>>] = I[<<w, c.src_cnt, n>>]
      /\ \A a \in DOMAIN I : a \in DOMAIN I' => I'[a] = I[a]
      /\ I' = [a \in DOMAIN I' |-> I'[a]]
  BY <1>0, Zenon DEF Moved
<1>3. \A e : e \in Dstate' <=>
         \/ e \in Dstate /\ ~\E n \in deletes(w, c) : e = <<w, c.src_cnt, n>>
         \/ \E n \in deletes(w, c) : e = <<w, c.src_cnt + 1, n>>
  BY <1>0, Zenon DEF Moved
<1>4. d \in Record /\ d.src_cnt = c.src_cnt + 1 /\ d.a_w = c.a_w
  BY <1>1 DEF Record
<1>5. c.src_cnt \in Nat /\ d.src_cnt \in Nat
  BY <1>1, <1>4 DEF Record
<1>6. /\ \A n \in ciphers(w, c) : <<w, c.src_cnt, n>> \in DOMAIN I
      /\ deletes(w, c) \subseteq Node
  BY SearchSets
<1>7. \A a \in DOMAIN I : I[a] \in Ind
  BY DEF Addresses
<1>8. Results(w, c) \subseteq Ind
  BY <1>6, <1>7 DEF Results
<1> DEFINE C == ciphers(w, c)
           D == deletes(w, c)
<1> HIDE DEF c, d, C, D
<1>9. DOMAIN CurOcnt' = DOMAIN CurOcnt
  <2>1. DOMAIN CurOcnt' = DOMAIN CurOcnt \cup {w}
    BY <1>1, PutIs, Zenon
  <2> QED
    BY <1>1, <2>1
<1>10. CurOcnt'[w] = d
  <2>1. Put(CurOcnt, w, d)[w] = d
    BY DEF Put
  <2> QED
    BY <1>1, <2>1
<1>11. ASSUME NEW v \in DOMAIN CurOcnt, v # w PROVE CurOcnt'[v] = CurOcnt[v]
  <2>1. Put(CurOcnt, w, d)[v] = CurOcnt[v]
    BY <1>11 DEF Put
  <2> QED
    BY <1>1, <2>1
<1>12. Records'
  <2>1. CurOcnt' \in [DOMAIN CurOcnt' -> Record]
    BY <1>1, <1>4, PutType DEF Records
  <2> QED
    BY <1>1, <1>8, <1>9, <2>1 DEF Records
<1>13. I' \in [DOMAIN I' -> Ind]
  <2>1. ASSUME NEW a \in DOMAIN I' PROVE I'[a] \in Ind
    <3>1. CASE a \in DOMAIN I
      BY <1>2, <1>7, <3>1
    <3>2. CASE \E n \in C : a = <<w, c.src_cnt + 1, n>>
      BY <1>2, <1>6, <1>7, <3>2 DEF C
    <3> QED
      BY <1>2, <3>1, <3>2 DEF C
  <2> QED
    BY <1>2, <2>1
<1>14. ASSUME NEW a \in DOMAIN I'
       PROVE  \E v \in DOMAIN CurOcnt', s \in Nat, q \in LeafNo :
                 /\ a = <<v, s, At(q, 0)>>
                 /\ \/ s < CurOcnt'[v].src_cnt
                    \/ s = CurOcnt'[v].src_cnt /\ q <= CurOcnt'[v].a_w
  <2>1. CASE a \in DOMAIN I
    <3>1. PICK v \in DOMAIN CurOcnt, s \in Nat, q \in LeafNo :
              /\ a = <<v, s, At(q, 0)>>
              /\ \/ s < CurOcnt[v].src_cnt
                 \/ s = CurOcnt[v].src_cnt /\ q <= CurOcnt[v].a_w
      BY <2>1 DEF Addresses
    <3>2. CASE v # w
      BY <1>9, <1>11, <3>1, <3>2
    <3>3. CASE v = w
      <4>1. s <= c.src_cnt
        BY <1>5, <3>1, <3>3 DEF c
      <4>2. s < CurOcnt'[v].src_cnt
        BY <1>4, <1>5, <1>10, <3>3, <4>1
      <4> QED
        BY <1>9, <3>1, <4>2
    <3> QED
      BY <3>2, <3>3
  <2>2. CASE \E n \in C : a = <<w, c.src_cnt + 1, n>>
    <3>1. PICK n \in C : a = <<w, c.src_cnt + 1, n>>
      BY <2>2
    <3>2. PICK q \in LeafNo : /\ n = At(q, 0)
                              /\ \/ c.src_cnt < c.src_cnt
                                 \/ c.src_cnt = c.src_cnt /\ q <= c.a_w
      BY <1>6, EntryAt DEF C, c
    <3>3. q <= d.a_w
      BY <1>4, <1>5, <3>2
    <3> QED
      BY <1>1, <1>4, <1>5, <1>9, <1>10, <3>1, <3>2, <3>3
  <2> QED
    BY <1>2, <2>1, <2>2 DEF C
<1>15. ASSUME NEW e \in Dstate'
       PROVE  \E v \in DOMAIN CurOcnt', s \in Nat, n \in Node :
                 e = <<v, s, n>> /\ s <= CurOcnt'[v].src_cnt
  <2>1. CASE e \in Dstate
    <3>1. PICK v \in DOMAIN CurOcnt, s \in Nat, n \in Node :
              e = <<v, s, n>> /\ s <= CurOcnt[v].src_cnt
      BY <2>1 DEF Addresses
    <3>2. s <= CurOcnt'[v].src_cnt
      <4>1. CASE v # w
        BY <1>11, <3>1, <4>1
      <4>2. CASE v = w
        <5>1. s <= c.src_cnt
          BY <3>1, <4>2 DEF c
        <5> QED
          BY <1>4, <1>5, <1>10, <4>2, <5>1
      <4> QED
        BY <4>1, <4>2
    <3> QED
      BY <1>9, <3>1, <3>2
  <2>2. CASE \E n \in D : e = <<w, c.src_cnt + 1, n>>
    <3>1. PICK n \in D : e = <<w, c.src_cnt + 1, n>>
      BY <2>2
    <3>2. n \in Node
      BY <1>6 DEF D
    <3>3. c.src_cnt + 1 \in Nat /\ c.src_cnt + 1 <= CurOcnt'[w].src_cnt
      BY <1>4, <1>5, <1>10
    <3> QED
      BY <1>1, <1>9, <3>1, <3>2, <3>3
  <2> QED
    BY <1>3, <2>1, <2>2 DEF D
<1>16. Addresses'
  BY <1>13, <1>14, <1>15 DEF Addresses
<1> QED
  BY <1>2, <1>12, <1>16


\* The inductive invariant for one keyword or two.
IInv == PhasesApart /\ Records /\ Addresses

LEMMA IInvInit == Init => IInv
<1> SUFFICES ASSUME Init PROVE IInv
  OBVIOUS
<1>1. /\ Ocnt = Empty /\ root = NoKeyword /\ Odel = Empty /\ Ostate = {}
      /\ setupOcnt = Empty /\ setupOdel = Empty /\ setupOstate = {}
      /\ I = Empty /\ Dstate = {} /\ phase = "setup"
      /\ live = [w \in Keyword |-> {}] /\ finalRes = {}
  BY DEF Init
<1>2. CurOcnt = Empty /\ CurOdel = Empty /\ CurOstate = {}
  BY <1>1 DEF CurOcnt, CurOdel, CurOstate
<1>3. DOMAIN Empty = {} /\ \A S : Empty \in [DOMAIN Empty -> S]
  BY DEF Empty
<1>4. PhasesApart
  BY <1>1, <1>3 DEF PhasesApart
<1>5. Records
  BY <1>1, <1>2, <1>3 DEF Records
<1>6. Addresses
  BY <1>1, <1>3 DEF Addresses
<1> QED
  BY <1>4, <1>5, <1>6 DEF IInv

\* A step keeps the invariant and overwrites no entry.
LEMMA IInvNext ==
    ASSUME IInv, [Next]_vars
    PROVE  IInv' /\ \A a \in (DOMAIN I) \cap (DOMAIN I') : I'[a] = I[a]
<1>1. PhasesApart /\ Records /\ Addresses
  BY DEF IInv
<1>2. /\ PhasesApart'
      /\ \/ \E w \in Keyword, x \in Ind : Grows(w, x) \/ (x \in live[w] /\ Shrinks(w, x))
         \/ \E w \in Keyword : Moves(w)
         \/ Stays
  BY <1>1, Steps
<1>3. ASSUME NEW w \in Keyword, NEW x \in Ind, Grows(w, x)
      PROVE  Records' /\ Addresses' /\ \A a \in DOMAIN I : I'[a] = I[a]
  <2>1. PICK p \in LeafNo, d \in Record : Added(w, x, p, d)
    BY <1>1, <1>3, GrowsIs
  <2> QED
    BY <1>1, <2>1, GrowsRecords, GrowsAddresses
<1>4. ASSUME NEW w \in Keyword, NEW x \in live[w], Shrinks(w, x)
      PROVE  Records' /\ Addresses' /\ I' = I
  BY <1>1, <1>4, ShrinksKeeps
<1>5. ASSUME NEW w \in Keyword, Moves(w)
      PROVE  Records' /\ Addresses' /\ \A a \in DOMAIN I : a \in DOMAIN I' => I'[a] = I[a]
  BY <1>1, <1>5, MovesKeeps
<1>6. ASSUME Stays
      PROVE  Records' /\ Addresses' /\ I' = I
  BY <1>1, <1>6 DEF Stays, Records, Addresses
<1> QED
  BY <1>2, <1>3, <1>4, <1>5, <1>6 DEF IInv

LEMMA IInvTypes == IInv => TypeOK
<1> SUFFICES ASSUME IInv PROVE TypeOK
  OBVIOUS
<1>1. PhasesApart /\ Records /\ Addresses
  BY DEF IInv
<1>2. ASSUME NEW w \in DOMAIN CurOcnt
      PROVE  /\ w \in Keyword
             /\ CurOcnt[w].src_cnt \in 0 .. MaxSrc
             /\ CurOcnt[w].a_w \in 0 .. Leaves - 1
  BY <1>1 DEF Records, Record, LeafNo
<1>3. root \in Keyword \cup {NoKeyword}
  <2>1. CASE phase = "setup"
    <3>1. DOMAIN Ocnt = {}
      BY <1>1, <2>1 DEF PhasesApart, Empty
    <3> QED
      BY <1>1, <3>1 DEF PhasesApart
  <2>2. CASE phase # "setup"
    <3>1. CurOcnt = Ocnt
      BY <2>2 DEF CurOcnt
    <3> QED
      BY <1>1, <1>2, <3>1 DEF PhasesApart
  <2> QED
    BY <2>1, <2>2
<1>4. CurOstate \subseteq Keyword \X Node
  BY <1>1, <1>2 DEF Records
<1>5. ASSUME NEW w \in DOMAIN CurOcnt, NEW s \in Nat, s <= CurOcnt[w].src_cnt
      PROVE  s \in 0 .. MaxSrc
  BY <1>2, <1>5, QOSAssumption
<1>6. ASSUME NEW a \in DOMAIN I
      PROVE  a \in Keyword \X (0 .. MaxSrc) \X Node /\ a[3] >= Leaves - 1 /\ I[a] \in Ind
  <2>1. PICK w \in DOMAIN CurOcnt, s \in Nat, p \in LeafNo :
            /\ a = <<w, s, At(p, 0)>>
            /\ \/ s < CurOcnt[w].src_cnt
               \/ s = CurOcnt[w].src_cnt /\ p <= CurOcnt[w].a_w
    BY <1>1 DEF Addresses
  <2>2. s <= CurOcnt[w].src_cnt
    BY <1>2, <2>1
  <2>3. At(p, 0) \in Node /\ At(p, 0) >= Leaves - 1
    BY LeafLevel, LevelRange, LeavesLast
  <2>4. I[a] \in Ind
    BY <1>1 DEF Addresses
  <2> QED
    BY <1>2, <1>5, <2>1, <2>2, <2>3, <2>4
<1>7. Dstate \subseteq Keyword \X (0 .. MaxSrc) \X Node
  BY <1>1, <1>2, <1>5 DEF Addresses
<1>8. phase \in {"setup", "live"} /\ live \in [Keyword -> SUBSET Ind] /\ finalRes \subseteq Ind
  BY <1>1 DEF PhasesApart, Records
<1> QED
  BY <1>2, <1>3, <1>4, <1>6, <1>7, <1>8 DEF TypeOK

(***************************************************************************)
(* For any tree, any identifiers and one keyword or two, QOS is within its *)
(* types: in particular no counter a_w runs past the leaves and nothing is *)
(* stored at an inner node.                                                *)
(***************************************************************************)
THEOREM TypesKept == Spec => []TypeOK
<1>1. Init => IInv
  BY IInvInit
<1>2. IInv /\ [Next]_vars => IInv'
  BY IInvNext
<1>3. IInv => TypeOK
  BY IInvTypes
<1> QED
  BY <1>1, <1>2, <1>3, PTL DEF Spec

(***************************************************************************)
(* No entry of I is ever overwritten, whatever the order of insertions,    *)
(* removals and searches: a generation that Client::search starts has no   *)
(* entries yet, and Client::insert takes a leaf that none has in its       *)
(* generation, even where Ocnt increments the wrong counter.               *)
(***************************************************************************)
THEOREM EntriesKept == Spec => EntriesNotOverwritten
<1>1. Init => IInv
  BY IInvInit
<1>2. IInv /\ [Next]_vars => IInv'
  BY IInvNext
<1>3. IInv /\ [Next]_vars => [\A a \in (DOMAIN I) \cap (DOMAIN I') : I'[a] = I[a]]_vars
  BY IInvNext
<1> QED
  BY <1>1, <1>2, <1>3, PTL DEF Spec, EntriesNotOverwritten


-----------------------------------------------------------------------------
(* One keyword: marks, entries and the caller's view.                      *)

Colours(w) == {n \in Node : <<w, n>> \in CurOstate}

Marks(w, src) == {n \in Node : <<w, src, n>> \in Dstate}

LiveAt(w) == {CurOdel[<<w, x>>] : x \in live[w]}

\* The entries of w in use are those of live[w], each at its leaf; the
\* colours stand for the other leaves up to a_w, and so do the marks.
Agrees(w, c) ==
    /\ \A x \in live[w] :
          /\ CurOdel[<<w, x>>] <= c.a_w
          /\ <<w, c.src_cnt, At(CurOdel[<<w, x>>], 0)>> \in DOMAIN I
          /\ I[<<w, c.src_cnt, At(CurOdel[<<w, x>>], 0)>>] = x
    /\ \A p \in LeafNo :
          (\E n \in Colours(w) : p \in LeavesUnder[n]) <=> p <= c.a_w /\ p \notin LiveAt(w)
    /\ Marks(w, c.src_cnt) \subseteq Colours(w)
    /\ Topmost(Colours(w)) = Topmost(Marks(w, c.src_cnt))

AllAgree == \A w \in Keyword : Counted(w) => Agrees(w, Counters(CurOcnt, w))

\* A keyword without counters has nothing.
LEMMA NothingAgrees ==
    ASSUME Records, Addresses, NEW w \in Keyword, w \notin DOMAIN CurOcnt
    PROVE  live[w] = {} /\ Agrees(w, Counters(CurOcnt, w))
<1>1. live[w] = {}
  BY DEF Records
<1>2. Colours(w) = {}
  BY DEF Records, Colours
<1>3. ASSUME NEW s PROVE Marks(w, s) = {}
  <2>1. ASSUME NEW n \in Node, <<w, s, n>> \in Dstate PROVE FALSE
    <3>1. PICK v \in DOMAIN CurOcnt, r \in Nat, b \in Node : <<w, s, n>> = <<v, r, b>>
      BY <2>1 DEF Addresses
    <3> QED
      BY <3>1
  <2> QED
    BY <2>1 DEF Marks
<1>4. Counters(CurOcnt, w).a_w = -1
  BY CountersBefore
<1>5. \A p \in LeafNo : ~(p <= -1)
  BY TreeSizes DEF LeafNo
<1> QED
  BY <1>1, <1>2, <1>3, <1>4, <1>5 DEF Agrees

\* An insertion.
LEMMA GrowsAgrees ==
    ASSUME Records, Addresses, NEW w \in Keyword, Counted(w)', NEW x \in Ind,
           NEW p \in LeafNo, NEW d \in Record, Added(w, x, p, d),
           Agrees(w, Counters(CurOcnt, w))
    PROVE  Agrees(w, Counters(CurOcnt, w))'
<1> DEFINE c == Counters(CurOcnt, w)
           new == <<w, c.src_cnt, At(p, 0)>>
<1>1. /\ x \notin live[w] /\ live' = [live EXCEPT ![w] = @ \cup {x}]
      /\ p = c.a_w + 1
      /\ I' = Put(I, new, x) /\ Dstate' = Dstate
      /\ d = [src_cnt |-> c.src_cnt, a_w |-> p]
      /\ CurOcnt' = Put(CurOcnt, w, d)
      /\ CurOdel' = Put(CurOdel, <<w, x>>, p) /\ CurOstate' = CurOstate
  BY DEF Added
<1>2. new \notin DOMAIN I
  BY GrowsFresh
<1>3. c.a_w \in Int /\ d.src_cnt = c.src_cnt /\ d.a_w = p
  BY <1>1, CountersBefore
<1>4. Counters(CurOcnt, w)' = d
  <2>1. DOMAIN CurOcnt' = DOMAIN CurOcnt \cup {w}
    BY <1>1, PutIs, Zenon
  <2>2. Put(CurOcnt, w, d)[w] = d
    BY DEF Put
  <2>3. CurOcnt'[w] = d
    BY <1>1, <2>2
  <2> QED
    BY <2>1, <2>3 DEF Counters
<1>5. Agrees(w, c)
  OBVIOUS
<1> HIDE DEF c, new
<1>6. Colours(w)' = Colours(w) /\ Marks(w, d.src_cnt)' = Marks(w, c.src_cnt)
  BY <1>1, <1>3 DEF Colours, Marks
<1>7. live'[w] = live[w] \cup {x}
  BY <1>1 DEF Records
<1>8. ASSUME NEW y \in live[w] PROVE CurOdel'[<<w, y>>] = CurOdel[<<w, y>>]
  <2>1. <<w, y>> \in DOMAIN CurOdel /\ <<w, y>> # <<w, x>>
    BY <1>1 DEF Records
  <2>2. Put(CurOdel, <<w, x>>, p)[<<w, y>>] = CurOdel[<<w, y>>]
    BY <2>1 DEF Put
  <2> QED
    BY <1>1, <2>2
<1>9. CurOdel'[<<w, x>>] = p
  <2>1. Put(CurOdel, <<w, x>>, p)[<<w, x>>] = p
    BY DEF Put
  <2> QED
    BY <1>1, <2>1
<1>10. \A q : q \in LiveAt(w)' <=> q \in LiveAt(w) \/ q = p
  <2>1. LiveAt(w)' = {CurOdel'[<<w, y>>] : y \in live'[w]}
    BY DEF LiveAt
  <2>2. \A q : q \in LiveAt(w)' <=> \E y \in live[w] \cup {x} : q = CurOdel'[<<w, y>>]
    BY <1>7, <2>1
  <2>3. \A q : q \in LiveAt(w) <=> \E y \in live[w] : q = CurOdel[<<w, y>>]
    BY DEF LiveAt
  <2> QED
    BY <1>8, <1>9, <2>2, <2>3
<1>11. ASSUME NEW a \in DOMAIN I PROVE a \in DOMAIN I' /\ I'[a] = I[a]
  BY GrowsAddresses
<1>12. new \in DOMAIN I' /\ I'[new] = x
  <2>1. Put(I, new, x)[new] = x
    BY DEF Put
  <2>2. DOMAIN I' = DOMAIN I \cup {new}
    BY <1>1, PutIs, Zenon
  <2> QED
    BY <1>1, <2>1, <2>2
<1>13. ASSUME NEW y \in live'[w]
       PROVE  /\ CurOdel'[<<w, y>>] <= d.a_w
              /\ <<w, d.src_cnt, At(CurOdel'[<<w, y>>], 0)>> \in DOMAIN I'
              /\ I'[<<w, d.src_cnt, At(CurOdel'[<<w, y>>], 0)>>] = y
  <2>1. CASE y = x
    <3>1. <<w, d.src_cnt, At(CurOdel'[<<w, y>>], 0)>> = new
      BY <1>3, <1>9, <2>1 DEF new
    <3>2. p <= p
      BY TreeSizes DEF LeafNo
    <3> QED
      BY <1>3, <1>9, <1>12, <2>1, <3>1, <3>2
  <2>2. CASE y \in live[w]
    <3>1. PICK q : q = CurOdel[<<w, y>>] /\ q = CurOdel'[<<w, y>>]
      BY <1>8, <2>2
    <3>2. q \in LeafNo
      BY <2>2, <3>1 DEF Records
    <3>3. /\ q <= c.a_w
          /\ <<w, c.src_cnt, At(q, 0)>> \in DOMAIN I
          /\ I[<<w, c.src_cnt, At(q, 0)>>] = y
      BY <1>5, <2>2, <3>1 DEF Agrees
    <3>4. q <= p
      BY <1>1, <1>3, <3>2, <3>3 DEF LeafNo
    <3> QED
      BY <1>3, <1>11, <3>1, <3>3, <3>4
  <2> QED
    BY <1>7, <2>1, <2>2
<1>14. ASSUME NEW q \in LeafNo
       PROVE  (\E n \in Colours(w) : q \in LeavesUnder[n]) <=> q <= p /\ q \notin LiveAt(w)'
  <2>1. (\E n \in Colours(w) : q \in LeavesUnder[n]) <=> q <= c.a_w /\ q \notin LiveAt(w)
    BY <1>5 DEF Agrees
  <2>2. q <= p <=> q <= c.a_w \/ q = p
    BY <1>1, <1>3 DEF LeafNo
  <2>3. q = p => ~(q <= c.a_w)
    BY <1>1, <1>3
  <2> QED
    BY <1>10, <2>1, <2>2, <2>3
<1>15. /\ Marks(w, c.src_cnt) \subseteq Colours(w)
       /\ Topmost(Colours(w)) = Topmost(Marks(w, c.src_cnt))
  BY <1>5 DEF Agrees
<1>16. Agrees(w, d)'
  BY <1>3, <1>6, <1>13, <1>14, <1>15 DEF Agrees
<1> QED
  BY <1>4, <1>16

\* Colouring At(pos, j) once the siblings below are coloured covers pos too,
\* and nothing else.
LEMMA Paints ==
    ASSUME NEW S, S \subseteq Node, NEW pos \in LeafNo, NEW j \in Up,
           \A i \in Up : i < j => Sibling(At(pos, i)) \in S,
           NEW q \in LeafNo
    PROVE  (\E n \in S \cup {At(pos, j)} : q \in LeavesUnder[n])
               <=> (\E n \in S : q \in LeavesUnder[n]) \/ q = pos
<1>1. pos \in LeavesUnder[At(pos, j)]
  BY UnderAt
<1>2. ASSUME q \in LeavesUnder[At(pos, j)], q # pos
      PROVE  \E n \in S : q \in LeavesUnder[n]
  <2>1. PICK i \in Up : i < j /\ q \in LeavesUnder[Sibling(At(pos, i))]
    BY <1>2, SubtreeSplit
  <2> QED
    BY <2>1
<1> QED
  BY <1>1, <1>2

\* What a removal colours, for a leaf that no colour covers.
LEMMA ColouredAt ==
    ASSUME Records, NEW w \in Keyword, NEW pos \in LeafNo,
           ~ \E n \in Colours(w) : pos \in LeavesUnder[n]
    PROVE  \E j \in Up :
              /\ Coloured(CurOstate, w, pos) = {At(pos, j)}
              /\ \A i \in Up : i < j => Sibling(At(pos, i)) \in Colours(w)
<1>1. 0 \in Up
  BY TreeSizes DEF Up
<1>2. At(pos, 0) \in Path[pos] /\ At(pos, 0) \in Node
  BY <1>1, PathIs, LevelRange
<1>3. pos \in LeavesUnder[At(pos, 0)]
  BY <1>1, UnderAt
<1>4. <<w, At(pos, 0)>> \notin CurOstate
  BY <1>2, <1>3 DEF Colours
<1>5. ASSUME NEW i \in Up, NEW k \in Up, i < k PROVE At(pos, k) < At(pos, i)
  <2>1. At(pos, k) \in Above[At(pos, i)]
    BY <1>5, AboveAt
  <2>2. At(pos, i) \in Node
    BY LevelRange
  <2> QED
    BY <2>1, <2>2 DEF Above
<1>6. \A b \in Path[pos] : ~(b > At(pos, 0))
  <2>1. ASSUME NEW b \in Path[pos] PROVE ~(b > At(pos, 0))
    <3>1. PICK k \in Up : b = At(pos, k)
      BY PathIs
    <3>2. b \in Node
      BY <3>1, LevelRange
    <3>3. CASE k = 0
      BY <1>2, <3>1, <3>2, <3>3, TreeSizes DEF Node
    <3>4. CASE k # 0
      <4>1. 0 < k
        BY <3>4 DEF Up
      <4>2. b < At(pos, 0)
        BY <1>1, <1>5, <3>1, <4>1
      <4> QED
        BY <1>2, <3>2, <4>2, TreeSizes DEF Node
    <3> QED
      BY <3>3, <3>4
  <2> QED
    BY <2>1
<1>7. At(pos, 0) \in Changed(CurOstate, w, pos)
  BY <1>2, <1>4, <1>6 DEF Changed
<1>8. PICK m \in Changed(CurOstate, w, pos) : Coloured(CurOstate, w, pos) = {m}
  BY <1>7, ColouredIs
<1>9. PICK j \in Up : m = At(pos, j)
  BY <1>8, PathIs DEF Changed
<1>10. ASSUME NEW i \in Up, i < j PROVE Sibling(At(pos, i)) \in Colours(w)
  <2>1. At(pos, j) < At(pos, i) /\ At(pos, i) \in Path[pos]
    BY <1>5, <1>10, PathIs
  <2>2. At(pos, j) \in Node /\ At(pos, i) \in Node
    BY LevelRange
  <2>3. At(pos, i) > m
    BY <1>9, <2>1, <2>2, TreeSizes DEF Node
  <2>4. <<w, Sibling(At(pos, i))>> \in CurOstate
    BY <1>8, <2>1, <2>3 DEF Changed
  <2> QED
    BY <2>4 DEF Colours, Records
<1> QED
  BY <1>8, <1>9, <1>10

\* A removal.
LEMMA ShrinksAgrees ==
    ASSUME Records, Addresses, NEW w \in Keyword, NEW x \in live[w], Shrinks(w, x),
           Agrees(w, Counters(CurOcnt, w))
    PROVE  Agrees(w, Counters(CurOcnt, w))'
<1>0. PICK c, pos, C, M :
         /\ c = Counters(CurOcnt, w) /\ pos = CurOdel[<<w, x>>]
         /\ C = Colours(w) /\ M = Marks(w, Counters(CurOcnt, w).src_cnt)
  OBVIOUS
<1>1. <<w, x>> \in DOMAIN CurOdel /\ w \in DOMAIN CurOcnt /\ x \in Ind
  BY DEF Records
<1>2. pos \in LeafNo /\ c = CurOcnt[w]
  BY <1>0, <1>1 DEF Records, Counters
<1>3. Agrees(w, c)
  BY <1>0
<1>4. /\ live' = [live EXCEPT ![w] = @ \ {x}]
      /\ Dstate' = Dstate \cup ({w} \X {c.src_cnt} \X Coloured(CurOstate, w, pos))
      /\ I' = I
      /\ CurOstate' = CurOstate \cup ({w} \X Coloured(CurOstate, w, pos))
      /\ CurOcnt' = CurOcnt /\ CurOdel' = CurOdel
  BY <1>0, <1>2 DEF Shrinks, Mark
<1>5. Counters(CurOcnt, w)' = c
  BY <1>0, <1>4 DEF Counters
<1>6. pos \in LiveAt(w) /\ pos <= c.a_w
  BY <1>0, <1>3 DEF LiveAt, Agrees
<1>7. ~ \E n \in C : pos \in LeavesUnder[n]
  BY <1>0, <1>2, <1>3, <1>6 DEF Agrees
<1>8. PICK j \in Up : /\ Coloured(CurOstate, w, pos) = {At(pos, j)}
                      /\ \A i \in Up : i < j => Sibling(At(pos, i)) \in C
  BY <1>0, <1>2, <1>7, ColouredAt
<1>9. PICK m \in Node : m = At(pos, j)
  BY <1>2, LevelRange
<1>10. Colours(w)' = C \cup {m}
  BY <1>0, <1>4, <1>8, <1>9 DEF Colours
<1>11. Marks(w, c.src_cnt)' = M \cup {m}
  <2>1. \A n \in Node : <<w, c.src_cnt, n>> \in Dstate' <=> <<w, c.src_cnt, n>> \in Dstate \/ n = m
    BY <1>4, <1>8, <1>9
  <2> QED
    BY <1>0, <2>1 DEF Marks
<1>12. C \subseteq Node /\ M \subseteq Node
  BY <1>0 DEF Colours, Marks
<1>13. live'[w] = live[w] \ {x}
  BY <1>4 DEF Records
<1>14. \A q : q \in LiveAt(w)' <=> q \in LiveAt(w) /\ q # pos
  <2>1. LiveAt(w)' = {CurOdel[<<w, y>>] : y \in live[w] \ {x}}
    BY <1>4, <1>13 DEF LiveAt
  <2>2. ASSUME NEW y \in live[w], CurOdel[<<w, y>>] = pos PROVE y = x
    <3>1. /\ I[<<w, c.src_cnt, At(CurOdel[<<w, y>>], 0)>>] = y
          /\ I[<<w, c.src_cnt, At(CurOdel[<<w, x>>], 0)>>] = x
      BY <1>3 DEF Agrees
    <3> QED
      BY <1>0, <2>2, <3>1
  <2>3. CurOdel[<<w, x>>] = pos
    BY <1>0
  <2> QED
    BY <2>1, <2>2, <2>3 DEF LiveAt
<1>15. ASSUME NEW y \in live'[w]
       PROVE  /\ CurOdel'[<<w, y>>] <= c.a_w
              /\ <<w, c.src_cnt, At(CurOdel'[<<w, y>>], 0)>> \in DOMAIN I'
              /\ I'[<<w, c.src_cnt, At(CurOdel'[<<w, y>>], 0)>>] = y
  BY <1>3, <1>4, <1>13 DEF Agrees
<1>16. ASSUME NEW q \in LeafNo
       PROVE  (\E n \in Colours(w)' : q \in LeavesUnder[n]) <=> q <= c.a_w /\ q \notin LiveAt(w)'
  <2>1. (\E n \in C : q \in LeavesUnder[n]) <=> q <= c.a_w /\ q \notin LiveAt(w)
    BY <1>0, <1>3 DEF Agrees
  <2>2. (\E n \in Colours(w)' : q \in LeavesUnder[n])
            <=> (\E n \in C : q \in LeavesUnder[n]) \/ q = pos
    BY <1>2, <1>8, <1>9, <1>10, <1>12, Paints
  <2> QED
    BY <1>6, <1>14, <2>1, <2>2
<1>17. Marks(w, c.src_cnt)' \subseteq Colours(w)'
  BY <1>0, <1>3, <1>10, <1>11 DEF Agrees
<1>18. Topmost(C \cup {m}) = Topmost(M \cup {m})
  <2>1. Topmost(C) = Topmost(M)
    BY <1>0, <1>3 DEF Agrees
  <2>2. Topmost(C \cup {m}) \subseteq Topmost(M \cup {m})
    BY <1>12, <2>1, TopmostAdd
  <2>3. Topmost(M \cup {m}) \subseteq Topmost(C \cup {m})
    BY <1>12, <2>1, TopmostAdd
  <2> QED
    BY <2>2, <2>3
<1>19. Topmost(Colours(w))' = Topmost(Marks(w, c.src_cnt))'
  BY <1>10, <1>11, <1>18 DEF Topmost
<1>20. Agrees(w, c)'
  BY <1>4, <1>15, <1>16, <1>17, <1>19 DEF Agrees
<1> QED
  BY <1>5, <1>20

\* Leaving out marks below others changes no topmost one.
LEMMA TopmostBetween ==
    ASSUME NEW S, S \subseteq Node, NEW T, T \subseteq S, Topmost(S) \subseteq T
    PROVE  Topmost(T) = Topmost(S)
<1>1. ASSUME NEW n \in Topmost(S) PROVE n \in Topmost(T)
  BY <1>1 DEF Topmost
<1>2. ASSUME NEW n \in Topmost(T) PROVE n \in Topmost(S)
  <2>1. n \in T /\ n \in S /\ Above[n] \cap T = {}
    BY <1>2 DEF Topmost
  <2>2. ASSUME NEW a \in Above[n], a \in S PROVE FALSE
    <3>1. PICK m \in Topmost(S) : m = a \/ m \in Above[a]
      BY <2>2, TopmostOver
    <3>2. m \in T
      BY <3>1
    <3>3. m \in Above[n]
      BY <2>1, <2>2, <3>1, AboveTransitive
    <3> QED
      BY <2>1, <3>2, <3>3
  <2> QED
    BY <2>1, <2>2 DEF Topmost
<1> QED
  BY <1>1, <1>2

\* The nodes a search visits under a mark, and the leaves it hands out.
LEMMA SearchMeets ==
    ASSUME Records, NEW w \in DOMAIN CurOcnt, w \in Keyword, NEW c \in Record, Agrees(w, c)
    PROVE  /\ Topmost(Marks(w, c.src_cnt)) \subseteq deletes(w, c)
           /\ deletes(w, c) \subseteq Marks(w, c.src_cnt)
<1>1. PICK S : S = findCoveringSet[c.a_w]
  OBVIOUS
<1>2. c.a_w \in LeafNo
  BY DEF Record
<1>3. Covers(S, 0, c.a_w)
  BY <1>1, <1>2, CoverIs
<1>4. ASSUME NEW n \in Topmost(Marks(w, c.src_cnt)) PROVE n \in deletes(w, c)
  <2>1. /\ n \in Marks(w, c.src_cnt) /\ Above[n] \cap Marks(w, c.src_cnt) = {}
    BY <1>4 DEF Topmost
  <2>2. n \in Node /\ n \in Colours(w) /\ <<w, c.src_cnt, n>> \in Dstate
    BY <2>1 DEF Agrees, Marks
  <2>3. LeavesUnder[n] \subseteq LeafNo
    BY <2>2, UnderSome
  <2>4. ASSUME NEW q \in LeavesUnder[n] PROVE q \in 0 .. c.a_w
    <3>1. q \in LeafNo /\ q <= c.a_w
      BY <2>2, <2>3, <2>4 DEF Agrees
    <3> QED
      BY <1>2, <3>1 DEF LeafNo
  <2>5. PICK t \in S : t = n \/ t \in Above[n]
    BY <1>3, <2>2, <2>4 DEF Covers
  <2>6. ASSUME NEW a \in Above[n] PROVE <<w, c.src_cnt, a>> \notin Dstate
    <3>1. a \in Node
      BY <2>2, <2>6 DEF Above
    <3> QED
      BY <2>1, <2>6, <3>1 DEF Marks
  <2>7. n \in Visited(w, c)
    BY <1>1, <2>2, <2>5, <2>6 DEF Visited
  <2> QED
    BY <2>2, <2>7 DEF deletes
<1>5. deletes(w, c) \subseteq Marks(w, c.src_cnt)
  BY DEF deletes, Visited, Marks
<1> QED
  BY <1>4, <1>5

\* Every entry in use is found.
LEMMA SearchFinds ==
    ASSUME Records, Addresses, NEW w \in DOMAIN CurOcnt, w \in Keyword, NEW c \in Record,
           Agrees(w, c), NEW x \in live[w]
    PROVE  At(CurOdel[<<w, x>>], 0) \in ciphers(w, c)
<1>1. PICK S, p : S = findCoveringSet[c.a_w] /\ p = CurOdel[<<w, x>>]
  OBVIOUS
<1>2. c.a_w \in LeafNo
  BY DEF Record
<1>3. Covers(S, 0, c.a_w)
  BY <1>1, <1>2, CoverIs
<1>4. p \in LeafNo
  BY <1>1 DEF Records
<1>5. 0 \in Up
  BY TreeSizes DEF Up
<1>6. PICK n \in Node : n = At(p, 0)
  BY <1>4, <1>5, LevelRange
<1>7. p <= c.a_w /\ <<w, c.src_cnt, n>> \in DOMAIN I
  BY <1>1, <1>6 DEF Agrees
<1>8. ASSUME NEW m \in Colours(w) PROVE p \notin LeavesUnder[m]
  BY <1>1, <1>4, <1>8 DEF Agrees, LiveAt
<1>9. ASSUME NEW k \in Up PROVE <<w, c.src_cnt, At(p, k)>> \notin Dstate
  <2>1. At(p, k) \in Node /\ p \in LeavesUnder[At(p, k)]
    BY <1>4, LevelRange, UnderAt
  <2>2. At(p, k) \notin Marks(w, c.src_cnt)
    BY <1>8, <2>1 DEF Agrees
  <2> QED
    BY <2>1, <2>2 DEF Marks
<1>10. PICK t \in S : p \in LeavesUnder[t]
  BY <1>2, <1>3, <1>4, <1>7 DEF Covers, LeafNo
<1>11. PICK j \in Up : t = At(p, j)
  BY <1>3, <1>4, <1>10, UnderPath DEF Covers
<1>12. t \in Above[n] \cup {n}
  <2>1. CASE j = 0
    BY <1>6, <1>11, <2>1
  <2>2. CASE j # 0
    <3>1. 0 < j
      BY <2>2 DEF Up
    <3> QED
      BY <1>4, <1>5, <1>6, <1>11, <3>1, AboveAt
  <2> QED
    BY <2>1, <2>2
<1>13. ASSUME NEW a \in Above[n] PROVE <<w, c.src_cnt, a>> \notin Dstate
  <2>1. PICK k \in Up : a = At(p, k)
    BY <1>4, <1>5, <1>6, <1>13, AboveAt
  <2> QED
    BY <1>9, <2>1
<1>14. n \in Visited(w, c)
  BY <1>1, <1>12, <1>13 DEF Visited
<1>15. n \notin deletes(w, c)
  BY <1>5, <1>6, <1>9 DEF deletes
<1>16. n >= Leaves - 1
  BY <1>4, <1>5, <1>6, LeavesLast
<1> QED
  BY <1>1, <1>6, <1>7, <1>14, <1>15, <1>16 DEF ciphers, indexes

\* And nothing else is.
LEMMA SearchFindsOnly ==
    ASSUME Records, Addresses, NEW w \in DOMAIN CurOcnt, w \in Keyword, NEW c \in Record,
           c = CurOcnt[w], Agrees(w, c), NEW n \in ciphers(w, c)
    PROVE  \E x \in live[w] : n = At(CurOdel[<<w, x>>], 0)
<1>1. PICK S : S = findCoveringSet[c.a_w]
  OBVIOUS
<1>2. c.a_w \in LeafNo /\ c.src_cnt \in Nat
  BY QOSAssumption DEF Record
<1>3. Covers(S, 0, c.a_w)
  BY <1>1, <1>2, CoverIs
<1>4. /\ n \in Visited(w, c) /\ n \notin deletes(w, c)
      /\ <<w, c.src_cnt, n>> \in DOMAIN I /\ n \in Node
  BY DEF ciphers, indexes, Visited
<1>5. PICK p \in LeafNo : n = At(p, 0) /\ p <= c.a_w
  <2>1. PICK v \in DOMAIN CurOcnt, s \in Nat, p \in LeafNo :
            /\ <<w, c.src_cnt, n>> = <<v, s, At(p, 0)>>
            /\ \/ s < CurOcnt[v].src_cnt
               \/ s = CurOcnt[v].src_cnt /\ p <= CurOcnt[v].a_w
    BY <1>4 DEF Addresses
  <2> QED
    BY <1>2, <2>1
<1>6. 0 \in Up
  BY TreeSizes DEF Up
<1>7. <<w, c.src_cnt, n>> \notin Dstate
  BY <1>4 DEF deletes
<1>8. ASSUME p \notin LiveAt(w) PROVE FALSE
  <2>1. \E m \in Colours(w) : p \in LeavesUnder[m]
    BY <1>5, <1>8 DEF Agrees
  <2>2. \E m \in Topmost(Colours(w)) : p \in LeavesUnder[m]
    BY <2>1, TopmostLeaves DEF Colours
  <2>3. PICK m \in Topmost(Marks(w, c.src_cnt)) : p \in LeavesUnder[m]
    BY <2>2 DEF Agrees
  <2>4. m \in deletes(w, c)
    BY <2>3, SearchMeets
  <2>5. m \in Node /\ <<w, c.src_cnt, m>> \in Dstate /\ m \in Visited(w, c)
    BY <2>4 DEF deletes, Visited
  <2>6. PICK j \in Up : m = At(p, j)
    BY <2>3, <2>5, UnderPath
  <2>7. j # 0
    BY <1>5, <1>7, <2>5, <2>6
  <2>8. m \in Above[n]
    <3>1. 0 < j
      BY <2>7 DEF Up
    <3> QED
      BY <1>5, <1>6, <2>6, <3>1, AboveAt
  <2>9. PICK t \in S : /\ t \in Above[n] \cup {n}
                       /\ t <= m => <<w, c.src_cnt, m>> \notin Dstate
    BY <1>1, <1>4, <2>8 DEF Visited
  <2>10. PICK u \in S : u \in Above[m] \cup {m}
    BY <1>1, <2>5 DEF Visited
  <2>11. p \in LeavesUnder[n]
    BY <1>5, <1>6, UnderAt
  <2>12. p \in LeavesUnder[t]
    BY <1>4, <2>9, <2>11 DEF Above
  <2>13. p \in LeavesUnder[u] /\ u <= m
    <3>1. CASE u = m
      BY <2>3, <2>5, <3>1, TreeSizes DEF Node
    <3>2. CASE u \in Above[m]
      <4>1. u \in Node /\ u < m /\ LeavesUnder[m] \subseteq LeavesUnder[u]
        BY <2>5, <3>2 DEF Above
      <4> QED
        BY <2>3, <2>5, <4>1, TreeSizes DEF Node
    <3> QED
      BY <2>10, <3>1, <3>2
  <2>14. t = u
    BY <1>3, <2>12, <2>13 DEF Covers
  <2> QED
    BY <2>5, <2>9, <2>13, <2>14
<1> QED
  BY <1>5, <1>8 DEF LiveAt

LEMMA ResultsAreLive ==
    ASSUME Records, Addresses, NEW w \in DOMAIN CurOcnt, w \in Keyword, NEW c \in Record,
           c = CurOcnt[w], Agrees(w, c)
    PROVE  Results(w, c) = live[w]
<1>1. ASSUME NEW x \in live[w] PROVE x \in Results(w, c)
  <2>1. I[<<w, c.src_cnt, At(CurOdel[<<w, x>>], 0)>>] = x
    BY DEF Agrees
  <2>2. At(CurOdel[<<w, x>>], 0) \in ciphers(w, c)
    BY SearchFinds
  <2> QED
    BY <2>1, <2>2 DEF Results
<1>2. ASSUME NEW y \in Results(w, c) PROVE y \in live[w]
  <2>1. PICK n \in ciphers(w, c) : y = I[<<w, c.src_cnt, n>>]
    BY <1>2 DEF Results
  <2>2. PICK x \in live[w] : n = At(CurOdel[<<w, x>>], 0)
    BY <2>1, SearchFindsOnly
  <2> QED
    BY <2>1, <2>2 DEF Agrees
<1> QED
  BY <1>1, <1>2

\* A search.
LEMMA MovesAgrees ==
    ASSUME Records, Addresses, NEW w \in Keyword, Moves(w),
           Agrees(w, Counters(CurOcnt, w))
    PROVE  /\ Agrees(w, Counters(CurOcnt, w))'
           /\ finalRes' = live[w]
<1>1. Moved(w, CurOcnt[w])
  BY MovesIs
<1>2. PICK c \in Record : c = CurOcnt[w]
  BY <1>1 DEF Moved
<1>3. PICK e, D, C : /\ e = [src_cnt |-> c.src_cnt + 1, a_w |-> c.a_w]
                     /\ D = deletes(w, c) /\ C = Colours(w)
  OBVIOUS
<1>4. w \in DOMAIN CurOcnt /\ Agrees(w, c)
  BY <1>1, <1>2 DEF Moved, Counters
<1>5. /\ CurOcnt' = Put(CurOcnt, w, e)
      /\ CurOdel' = CurOdel /\ CurOstate' = CurOstate /\ live' = live
      /\ finalRes' = Results(w, c)
      /\ \A a : a \in DOMAIN I' <=>
            \/ a \in DOMAIN I /\ ~\E n \in ciphers(w, c) : a = <<w, c.src_cnt, n>>
            \/ \E n \in ciphers(w, c) : a = <<w, c.src_cnt + 1, n>>
      /\ \A n \in ciphers(w, c) : I'[<<w, c.src_cnt + 1, n>>] = I[<<w, c.src_cnt, n>>]
      /\ \A b : b \in Dstate' <=>
            \/ b \in Dstate /\ ~\E n \in D : b = <<w, c.src_cnt, n>>
            \/ \E n \in D : b = <<w, c.src_cnt + 1, n>>
  BY <1>1, <1>2, <1>3 DEF Moved
<1>6. e.src_cnt = c.src_cnt + 1 /\ e.a_w = c.a_w /\ c.src_cnt \in Nat
  BY <1>3, QOSAssumption DEF Record
<1>7. Counters(CurOcnt, w)' = e
  <2>1. DOMAIN CurOcnt' = DOMAIN CurOcnt \cup {w}
    BY <1>5, PutIs, Zenon
  <2>2. Put(CurOcnt, w, e)[w] = e
    BY DEF Put
  <2>3. CurOcnt'[w] = e
    BY <1>5, <2>2
  <2> QED
    BY <2>1, <2>3 DEF Counters
<1>8. /\ Topmost(Marks(w, c.src_cnt)) \subseteq D /\ D \subseteq Marks(w, c.src_cnt)
  BY <1>3, <1>4, SearchMeets
<1>9. D \subseteq C /\ Topmost(C) = Topmost(D)
  <2>1. Marks(w, c.src_cnt) \subseteq C /\ Topmost(C) = Topmost(Marks(w, c.src_cnt))
    BY <1>3, <1>4 DEF Agrees
  <2>2. Marks(w, c.src_cnt) \subseteq Node
    BY DEF Marks
  <2>3. Topmost(D) = Topmost(Marks(w, c.src_cnt))
    BY <1>8, <2>2, TopmostBetween
  <2> QED
    BY <1>8, <2>1, <2>3
<1>10. ASSUME NEW n \in Node PROVE <<w, e.src_cnt, n>> \notin Dstate
  <2>1. ASSUME <<w, e.src_cnt, n>> \in Dstate PROVE FALSE
    <3>1. PICK v \in DOMAIN CurOcnt, s \in Nat, m \in Node :
             <<w, e.src_cnt, n>> = <<v, s, m>> /\ s <= CurOcnt[v].src_cnt
      BY <2>1 DEF Addresses
    <3> QED
      BY <1>2, <1>6, <3>1
  <2> QED
    BY <2>1
<1>11. Marks(w, e.src_cnt)' = D
  <2>1. ASSUME NEW n \in Node PROVE <<w, e.src_cnt, n>> \in Dstate' <=> n \in D
    BY <1>5, <1>6, <1>10
  <2>2. D \subseteq Node
    BY <1>8 DEF Marks
  <2>3. Marks(w, e.src_cnt)' = {n \in Node : <<w, e.src_cnt, n>> \in Dstate'}
    BY DEF Marks
  <2> QED
    BY <2>1, <2>2, <2>3
<1>12. Colours(w)' = C /\ LiveAt(w)' = LiveAt(w)
  BY <1>3, <1>5 DEF Colours, LiveAt
<1>13. ASSUME NEW y \in live'[w]
       PROVE  /\ CurOdel'[<<w, y>>] <= e.a_w
              /\ <<w, e.src_cnt, At(CurOdel'[<<w, y>>], 0)>> \in DOMAIN I'
              /\ I'[<<w, e.src_cnt, At(CurOdel'[<<w, y>>], 0)>>] = y
  <2>1. y \in live[w]
    BY <1>5
  <2>2. PICK n : n = At(CurOdel[<<w, y>>], 0)
    OBVIOUS
  <2>3. n \in ciphers(w, c)
    BY <1>4, <2>1, <2>2, SearchFinds
  <2>4. CurOdel[<<w, y>>] <= c.a_w /\ I[<<w, c.src_cnt, n>>] = y
    BY <1>4, <2>1, <2>2 DEF Agrees
  <2>5. <<w, c.src_cnt + 1, n>> \in DOMAIN I'
    BY <1>5, <2>3
  <2>6. I'[<<w, c.src_cnt + 1, n>>] = y
    BY <1>5, <2>3, <2>4
  <2> QED
    BY <1>5, <1>6, <2>2, <2>4, <2>5, <2>6
<1>14. ASSUME NEW q \in LeafNo
       PROVE  (\E n \in C : q \in LeavesUnder[n]) <=> q <= e.a_w /\ q \notin LiveAt(w)
  BY <1>3, <1>4, <1>6 DEF Agrees
<1>15. Topmost(Colours(w))' = Topmost(Marks(w, e.src_cnt))'
  BY <1>9, <1>11, <1>12 DEF Topmost
<1>16. Agrees(w, e)'
  BY <1>9, <1>11, <1>12, <1>13, <1>14, <1>15 DEF Agrees
<1>17. finalRes' = live[w]
  BY <1>2, <1>4, <1>5, ResultsAreLive
<1> QED
  BY <1>7, <1>16, <1>17

-----------------------------------------------------------------------------
(* The keywords that are counted right, together.                          *)

\* A keyword that Ocnt has miscounted never counts as right again.
LEMMA CountedBefore ==
    ASSUME PhasesApart, Records, [Next]_vars, NEW v \in Keyword, Counted(v)'
    PROVE  Counted(v)
<1>1. CASE phase = "setup"
  BY <1>1 DEF Counted
<1>2. CASE phase = "live"
  <2>1. CurOcnt = Ocnt
    BY <1>2 DEF CurOcnt
  <2>2. ASSUME phase' = "live" PROVE CurOcnt' = Ocnt'
    BY <2>2 DEF CurOcnt
  <2>3. ASSUME NEW w \in Keyword, NEW x \in Ind, Insert(w, x) PROVE Counted(v)
    <3>1. phase' = "live" /\ Ocnt' = incrementAwCnt(w) /\ root' = RootAfter(w)
      BY <2>3 DEF Insert
    <3>2. w \in DOMAIN Ocnt => DOMAIN Ocnt' = DOMAIN Ocnt
      BY <3>1 DEF incrementAwCnt
    <3>3. w \notin DOMAIN Ocnt => DOMAIN Ocnt' = DOMAIN Ocnt \cup {w}
      <4>1. PICK r : r = [src_cnt |-> 0, a_w |-> 0]
        OBVIOUS
      <4>2. DOMAIN Put(Ocnt, w, r) = DOMAIN Ocnt \cup {w}
        BY PutIs, Zenon
      <4>3. w \notin DOMAIN Ocnt => Ocnt' = Put(Ocnt, w, r)
        BY <3>1, <4>1, Zenon DEF incrementAwCnt
      <4> QED
        BY <4>2, <4>3, Zenon
    <3>4. root' = root \/ (root' = w /\ (root = NoKeyword \/ w \notin DOMAIN Ocnt))
      BY <3>1 DEF RootAfter
    <3>5. root = NoKeyword => DOMAIN Ocnt = {}
      BY <2>1, QOSAssumption DEF PhasesApart, Records
    <3> QED
      BY <1>2, <2>1, <2>2, <3>1, <3>2, <3>3, <3>4, <3>5 DEF Counted
  <2>4. ASSUME NEW w \in Keyword, NEW x \in Ind, Remove(w, x) PROVE Counted(v)
    BY <1>2, <2>1, <2>2, <2>4 DEF Remove, Mark, Counted
  <2>5. ASSUME NEW w \in Keyword, Search(w) PROVE Counted(v)
    BY <1>2, <2>1, <2>2, <2>5 DEF Search, Counted
  <2>6. ASSUME UNCHANGED vars PROVE Counted(v)
    BY <1>2, <2>1, <2>2, <2>6 DEF vars, maps, Counted
  <2>7. ASSUME NEW w \in Keyword, NEW x \in Ind, SetupInsert(w, x) \/ SetupRemove(w, x) PROVE FALSE
    BY <1>2, <2>7 DEF SetupInsert, SetupRemove
  <2>8. ~EndSetup
    BY <1>2 DEF EndSetup
  <2> QED
    BY <2>3, <2>4, <2>5, <2>6, <2>7, <2>8 DEF Next
<1> QED
  BY <1>1, <1>2 DEF PhasesApart

\* An operation on a keyword leaves everything of another one alone.
Untouched(v) ==
    /\ Counters(CurOcnt, v)' = Counters(CurOcnt, v)
    /\ live'[v] = live[v]
    /\ \A y \in live[v] : CurOdel'[<<v, y>>] = CurOdel[<<v, y>>]
    /\ Colours(v)' = Colours(v)
    /\ \A s : Marks(v, s)' = Marks(v, s)
    /\ \A s, n : <<v, s, n>> \in DOMAIN I =>
          <<v, s, n>> \in DOMAIN I' /\ I'[<<v, s, n>>] = I[<<v, s, n>>]

LEMMA UntouchedAgrees ==
    ASSUME NEW v \in Keyword, Untouched(v), Agrees(v, Counters(CurOcnt, v))
    PROVE  Agrees(v, Counters(CurOcnt, v))'
<1>1. PICK c, C, M, L : /\ c = Counters(CurOcnt, v) /\ C = Colours(v)
                        /\ M = Marks(v, Counters(CurOcnt, v).src_cnt) /\ L = LiveAt(v)
  OBVIOUS
<1>2. /\ Counters(CurOcnt, v)' = c /\ Colours(v)' = C /\ Marks(v, c.src_cnt)' = M
      /\ live'[v] = live[v]
  BY <1>1 DEF Untouched
<1>3. LiveAt(v)' = L
  <2>1. \A y \in live[v] : CurOdel'[<<v, y>>] = CurOdel[<<v, y>>]
    BY DEF Untouched
  <2> QED
    BY <1>1, <1>2, <2>1 DEF LiveAt
<1>4. Agrees(v, c)
  BY <1>1
<1>5. ASSUME NEW y \in live'[v]
      PROVE  /\ CurOdel'[<<v, y>>] <= c.a_w
             /\ <<v, c.src_cnt, At(CurOdel'[<<v, y>>], 0)>> \in DOMAIN I'
             /\ I'[<<v, c.src_cnt, At(CurOdel'[<<v, y>>], 0)>>] = y
  BY <1>2, <1>4 DEF Untouched, Agrees
<1>6. /\ \A p \in LeafNo : (\E n \in C : p \in LeavesUnder[n]) <=> p <= c.a_w /\ p \notin L
      /\ M \subseteq C /\ Topmost(C) = Topmost(M)
  BY <1>1, <1>4 DEF Agrees
<1>7. Topmost(Colours(v))' = Topmost(Marks(v, c.src_cnt))'
  BY <1>2, <1>6 DEF Topmost
<1>8. Agrees(v, c)'
  BY <1>2, <1>3, <1>5, <1>6, <1>7 DEF Agrees
<1> QED
  BY <1>2, <1>8

LEMMA GrowsApart ==
    ASSUME Records, Addresses, NEW w \in Keyword, NEW x \in Ind,
           NEW p \in LeafNo, NEW d \in Record, Added(w, x, p, d),
           NEW v \in Keyword, v # w
    PROVE  Untouched(v)
<1>1. PICK new : new = <<w, Counters(CurOcnt, w).src_cnt, At(p, 0)>>
  OBVIOUS
<1>2. /\ live' = [live EXCEPT ![w] = @ \cup {x}]
      /\ I' = Put(I, new, x) /\ Dstate' = Dstate
      /\ CurOcnt' = Put(CurOcnt, w, d)
      /\ CurOdel' = Put(CurOdel, <<w, x>>, p) /\ CurOstate' = CurOstate
  BY <1>1 DEF Added
<1>3. Counters(CurOcnt, v)' = Counters(CurOcnt, v)
  <2>1. DOMAIN CurOcnt' = DOMAIN CurOcnt \cup {w}
    BY <1>2, PutIs, Zenon
  <2>2. v \in DOMAIN CurOcnt => Put(CurOcnt, w, d)[v] = CurOcnt[v]
    BY DEF Put
  <2> QED
    BY <1>2, <2>1, <2>2 DEF Counters
<1>4. live'[v] = live[v]
  BY <1>2 DEF Records
<1>5. ASSUME NEW y \in live[v] PROVE CurOdel'[<<v, y>>] = CurOdel[<<v, y>>]
  <2>1. <<v, y>> \in DOMAIN CurOdel /\ <<v, y>> # <<w, x>>
    BY DEF Records
  <2>2. Put(CurOdel, <<w, x>>, p)[<<v, y>>] = CurOdel[<<v, y>>]
    BY <2>1 DEF Put
  <2> QED
    BY <1>2, <2>2
<1>6. Colours(v)' = Colours(v) /\ \A s : Marks(v, s)' = Marks(v, s)
  BY <1>2 DEF Colours, Marks
<1>7. ASSUME NEW s, NEW n, <<v, s, n>> \in DOMAIN I
      PROVE  <<v, s, n>> \in DOMAIN I' /\ I'[<<v, s, n>>] = I[<<v, s, n>>]
  BY <1>7, GrowsAddresses
<1> QED
  BY <1>3, <1>4, <1>5, <1>6, <1>7 DEF Untouched

LEMMA ShrinksApart ==
    ASSUME Records, Addresses, NEW w \in Keyword, NEW x \in live[w], Shrinks(w, x),
           NEW v \in Keyword, v # w
    PROVE  Untouched(v)
<1>1. PICK nodes, src : /\ nodes = Coloured(CurOstate, w, CurOdel[<<w, x>>])
                        /\ src = CurOcnt[w].src_cnt
  OBVIOUS
<1>2. /\ live' = [live EXCEPT ![w] = @ \ {x}]
      /\ Dstate' = Dstate \cup ({w} \X {src} \X nodes)
      /\ I' = I
      /\ CurOstate' = CurOstate \cup ({w} \X nodes)
      /\ CurOcnt' = CurOcnt /\ CurOdel' = CurOdel
  BY <1>1 DEF Shrinks, Mark
<1>3. live'[v] = live[v]
  BY <1>2 DEF Records
<1>4. ASSUME NEW n PROVE <<v, n>> \in CurOstate' <=> <<v, n>> \in CurOstate
  BY <1>2
<1>5. ASSUME NEW s, NEW n PROVE <<v, s, n>> \in Dstate' <=> <<v, s, n>> \in Dstate
  BY <1>2
<1>6. Colours(v)' = Colours(v)
  BY <1>4 DEF Colours
<1>7. \A s : Marks(v, s)' = Marks(v, s)
  BY <1>5 DEF Marks
<1> QED
  BY <1>2, <1>3, <1>6, <1>7 DEF Untouched, Counters

LEMMA MovesApart ==
    ASSUME Records, Addresses, NEW w \in Keyword, Moves(w),
           NEW v \in Keyword, v # w
    PROVE  Untouched(v)
<1>1. Moved(w, CurOcnt[w])
  BY MovesIs
<1>2. PICK c \in Record : c = CurOcnt[w]
  BY <1>1 DEF Moved
<1>3. PICK e : e = [src_cnt |-> c.src_cnt + 1, a_w |-> c.a_w]
  OBVIOUS
<1>4. /\ w \in DOMAIN CurOcnt
      /\ CurOcnt' = Put(CurOcnt, w, e)
      /\ CurOdel' = CurOdel /\ CurOstate' = CurOstate /\ live' = live
      /\ \A a : a \in DOMAIN I' <=>
            \/ a \in DOMAIN I /\ ~\E n \in ciphers(w, c) : a = <<w, c.src_cnt, n>>
            \/ \E n \in ciphers(w, c) : a = <<w, c.src_cnt + 1, n>>
      /\ \A a \in DOMAIN I : a \in DOMAIN I' => I'[a] = I[a]
      /\ \A b : b \in Dstate' <=>
            \/ b \in Dstate /\ ~\E n \in deletes(w, c) : b = <<w, c.src_cnt, n>>
            \/ \E n \in deletes(w, c) : b = <<w, c.src_cnt + 1, n>>
  BY <1>1, <1>2, <1>3 DEF Moved
<1>5. Counters(CurOcnt, v)' = Counters(CurOcnt, v)
  <2>1. DOMAIN CurOcnt' = DOMAIN CurOcnt \cup {w}
    BY <1>4, PutIs, Zenon
  <2>2. v \in DOMAIN CurOcnt => Put(CurOcnt, w, e)[v] = CurOcnt[v]
    BY DEF Put
  <2> QED
    BY <1>4, <2>1, <2>2 DEF Counters
<1>6. ASSUME NEW s, NEW n PROVE <<v, s, n>> \in Dstate' <=> <<v, s, n>> \in Dstate
  BY <1>4
<1>7. \A s : Marks(v, s)' = Marks(v, s)
  BY <1>6 DEF Marks
<1>8. ASSUME NEW s, NEW n, <<v, s, n>> \in DOMAIN I
      PROVE  <<v, s, n>> \in DOMAIN I' /\ I'[<<v, s, n>>] = I[<<v, s, n>>]
  <2>1. <<v, s, n>> \in DOMAIN I'
    BY <1>4, <1>8
  <2> QED
    BY <1>4, <1>8, <2>1
<1>9. Colours(v)' = Colours(v)
  BY <1>4 DEF Colours
<1> QED
  BY <1>4, <1>5, <1>7, <1>8, <1>9 DEF Untouched

\* One step, for one keyword.
LEMMA AgreesNext ==
    ASSUME PhasesApart, Records, Addresses, [Next]_vars, NEW v \in Keyword, Counted(v)',
           Agrees(v, Counters(CurOcnt, v))
    PROVE  Agrees(v, Counters(CurOcnt, v))'
<1>1. \/ \E w \in Keyword, x \in Ind : Grows(w, x) \/ (x \in live[w] /\ Shrinks(w, x))
      \/ \E w \in Keyword : Moves(w)
      \/ Stays
  BY Steps
<1>2. ASSUME NEW w \in Keyword, NEW x \in Ind, Grows(w, x)
      PROVE  Agrees(v, Counters(CurOcnt, v))'
  <2>1. PICK p \in LeafNo, d \in Record : Added(w, x, p, d)
    BY <1>2, GrowsIs
  <2>2. CASE v = w
    BY <2>1, <2>2, GrowsAgrees
  <2>3. CASE v # w
    BY <2>1, <2>3, GrowsApart, UntouchedAgrees
  <2> QED
    BY <2>2, <2>3
<1>3. ASSUME NEW w \in Keyword, NEW x \in live[w], Shrinks(w, x)
      PROVE  Agrees(v, Counters(CurOcnt, v))'
  <2>1. CASE v = w
    BY <1>3, <2>1, ShrinksAgrees
  <2>2. CASE v # w
    BY <1>3, <2>2, ShrinksApart, UntouchedAgrees
  <2> QED
    BY <2>1, <2>2
<1>4. ASSUME NEW w \in Keyword, Moves(w)
      PROVE  Agrees(v, Counters(CurOcnt, v))'
  <2>1. CASE v = w
    BY <1>4, <2>1, MovesAgrees
  <2>2. CASE v # w
    BY <1>4, <2>2, MovesApart, UntouchedAgrees
  <2> QED
    BY <2>1, <2>2
<1>5. ASSUME Stays PROVE Agrees(v, Counters(CurOcnt, v))'
  <2>1. Untouched(v)
    BY <1>5 DEF Stays, Untouched, Counters, Colours, Marks
  <2> QED
    BY <2>1, UntouchedAgrees
<1> QED
  BY <1>1, <1>2, <1>3, <1>4, <1>5

\* The inductive invariant: the records and addresses of all keywords, and
\* the agreement of marks, entries and live identifiers of those counted right.
AgreeInv == IInv /\ AllAgree

LEMMA AgreeInvInit == Init => AgreeInv
<1> SUFFICES ASSUME Init PROVE AllAgree
  BY IInvInit DEF AgreeInv
<1>1. Records /\ Addresses
  BY IInvInit DEF IInv
<1>2. DOMAIN CurOcnt = {}
  BY DEF Init, CurOcnt, Empty
<1> QED
  BY <1>1, <1>2, NothingAgrees DEF AllAgree

LEMMA AgreeInvNext == AgreeInv /\ [Next]_vars => AgreeInv'
<1> SUFFICES ASSUME AgreeInv, [Next]_vars PROVE AllAgree'
  BY IInvNext DEF AgreeInv
<1>1. PhasesApart /\ Records /\ Addresses
  BY DEF AgreeInv, IInv
<1>2. ASSUME NEW v \in Keyword, Counted(v)' PROVE Agrees(v, Counters(CurOcnt, v))'
  <2>1. Counted(v)
    BY <1>1, <1>2, CountedBefore
  <2>2. Agrees(v, Counters(CurOcnt, v))
    BY <2>1 DEF AgreeInv, AllAgree
  <2> QED
    BY <1>1, <1>2, <2>2, AgreesNext
<1> QED
  BY <1>2 DEF AllAgree

\* With one keyword, it is counted right.
LEMMA OneCounted ==
    ASSUME OneKeyword, PhasesApart, Records, NEW w \in Keyword
    PROVE  Counted(w)
<1>1. CASE phase = "live" /\ w \in DOMAIN CurOcnt
  <2>1. w \in DOMAIN Ocnt /\ DOMAIN Ocnt \subseteq Keyword
    BY <1>1 DEF CurOcnt, Records
  <2>2. root \in Keyword
    BY <2>1 DEF PhasesApart
  <2> QED
    BY <2>2 DEF OneKeyword, Counted
<1> QED
  BY <1>1 DEF PhasesApart, Counted

-----------------------------------------------------------------------------
(* What a search finds.                                                    *)

(***************************************************************************)
(* With several keywords, a search of the one at the root of Ocnt's tree   *)
(* finds what was inserted under it and not removed since, and so does a   *)
(* search of any keyword of the setup phase: the wrong increment of        *)
(* AVLTree::incrementAwCnt harms no keyword but the one inserted.          *)
(***************************************************************************)
CountedFoundIsLive ==
    \A w \in Keyword :
        Counted(w) => /\ Found(w) = live[w]
                      /\ Cardinality(FoundAt(w)) = Cardinality(live[w])

LEMMA FoundLive ==
    ASSUME AgreeInv, NEW w \in Keyword, Counted(w)
    PROVE  /\ Found(w) = live[w]
           /\ Cardinality(FoundAt(w)) = Cardinality(live[w])
<1>1. Records /\ Addresses /\ Agrees(w, Counters(CurOcnt, w))
  BY DEF AgreeInv, IInv, AllAgree
<1>2. CASE w \notin DOMAIN CurOcnt
  <2>1. FoundAt(w) = {} /\ live[w] = {}
    BY <1>1, <1>2, NothingAgrees DEF FoundAt
  <2> QED
    BY <2>1 DEF Found
<1>3. CASE w \in DOMAIN CurOcnt
  <2>1. PICK c \in Record : c = CurOcnt[w]
    BY <1>1, <1>3 DEF Records
  <2>2. Agrees(w, c)
    BY <1>1, <1>3, <2>1 DEF Counters
  <2>3. FoundAt(w) = ciphers(w, c) /\ Found(w) = Results(w, c)
    BY <1>3, <2>1 DEF FoundAt, Found, Results
  <2>4. Found(w) = live[w]
    BY <1>1, <1>3, <2>1, <2>2, <2>3, ResultsAreLive
  <2>5. PICK F, L, f : /\ F = ciphers(w, c) /\ L = live[w]
                       /\ f = [n \in F |-> I[<<w, c.src_cnt, n>>]]
    OBVIOUS
  <2>6. \A n \in F : f[n] \in L
    BY <2>3, <2>4, <2>5 DEF Results
  <2>7. ASSUME NEW m \in F, NEW n \in F, f[m] = f[n] PROVE m = n
    <3>1. PICK x \in live[w] : m = At(CurOdel[<<w, x>>], 0)
      BY <1>1, <1>3, <2>1, <2>2, <2>5, SearchFindsOnly
    <3>2. PICK y \in live[w] : n = At(CurOdel[<<w, y>>], 0)
      BY <1>1, <1>3, <2>1, <2>2, <2>5, SearchFindsOnly
    <3>3. f[m] = x /\ f[n] = y
      BY <2>2, <2>5, <3>1, <3>2 DEF Agrees
    <3> QED
      BY <2>7, <3>1, <3>2, <3>3
  <2>8. \A x \in L : \E n \in F : f[n] = x
    BY <2>3, <2>4, <2>5 DEF Results
  <2>9. f \in Bijection(F, L)
    <3>1. f \in [F -> L]
      BY <2>5, <2>6
    <3>2. \A m, n \in F : f[m] = f[n] => m = n
      BY <2>7
    <3> QED
      BY <2>8, <3>1, <3>2, Fun_IsBij, Zenon
  <2>10. IsFiniteSet(F)
    <3>1. F \subseteq Node
      BY <2>5 DEF ciphers, indexes, Visited
    <3>2. 2 ^ height - 2 \in Int
      BY TreeSizes
    <3>3. IsFiniteSet(Node)
      BY <3>2, FS_Interval DEF Node
    <3> QED
      BY <3>1, <3>3, FS_Subset
  <2>11. Cardinality(F) = Cardinality(L)
    BY <2>9, <2>10, FS_Bijection DEF ExistsBijection
  <2> QED
    BY <2>3, <2>4, <2>5, <2>11
<1> QED
  BY <1>2, <1>3

LEMMA MarksReached ==
    ASSUME AgreeInv, NEW w \in DOMAIN CurOcnt, Counted(w), NEW c, c = CurOcnt[w]
    PROVE  /\ Topmost(Colours(w)) = Topmost(Marks(w, c.src_cnt))
           /\ UNION {LeavesUnder[t] : t \in findCoveringSet[c.a_w]} = 0 .. c.a_w
           /\ \A s, t \in findCoveringSet[c.a_w] :
                 s # t => LeavesUnder[s] \cap LeavesUnder[t] = {}
           /\ \A n \in Colours(w) :
                 \E t \in findCoveringSet[c.a_w] : LeavesUnder[n] \subseteq LeavesUnder[t]
<1>1. Records /\ w \in Keyword /\ Agrees(w, Counters(CurOcnt, w))
  BY DEF AgreeInv, IInv, AllAgree, Records
<1>2. Agrees(w, c) /\ c.a_w \in LeafNo
  BY <1>1 DEF Counters, Records, Record
<1>3. PICK S : S = findCoveringSet[c.a_w]
  OBVIOUS
<1>4. Covers(S, 0, c.a_w)
  BY <1>2, <1>3, CoverIs
<1>5. \A t \in S : t \in Node /\ LeavesUnder[t] \subseteq LeafNo
  BY <1>4, UnderSome DEF Covers
<1>6. ASSUME NEW p PROVE (\E t \in S : p \in LeavesUnder[t]) <=> p \in 0 .. c.a_w
  <2>1. p \in 0 .. c.a_w => p \in LeafNo
    BY <1>2, TreeSizes DEF LeafNo
  <2> QED
    BY <1>4, <1>5, <2>1 DEF Covers
<1>7. UNION {LeavesUnder[t] : t \in S} = 0 .. c.a_w
  BY <1>6
<1>8. ASSUME NEW s \in S, NEW t \in S, s # t PROVE LeavesUnder[s] \cap LeavesUnder[t] = {}
  BY <1>4, <1>5, <1>8 DEF Covers
<1>9. ASSUME NEW n \in Colours(w) PROVE \E t \in S : LeavesUnder[n] \subseteq LeavesUnder[t]
  <2>1. n \in Node /\ LeavesUnder[n] \subseteq LeafNo
    BY <1>9, UnderSome DEF Colours
  <2>2. ASSUME NEW p \in LeavesUnder[n] PROVE p \in 0 .. c.a_w
    <3>1. p \in LeafNo /\ p <= c.a_w
      BY <1>2, <1>9, <2>1, <2>2 DEF Agrees
    <3> QED
      BY <1>2, <3>1 DEF LeafNo
  <2>3. PICK t \in S : t = n \/ t \in Above[n]
    BY <1>4, <2>1, <2>2 DEF Covers
  <2> QED
    BY <2>1, <2>3 DEF Above
<1> QED
  BY <1>2, <1>3, <1>7, <1>8, <1>9 DEF Agrees


(***************************************************************************)
(* Whatever the other keyword does, a search of the keyword at the root of *)
(* Ocnt's tree, and of either as long as the setup phase lasts, finds what *)
(* was inserted under it and not removed since, each identifier once.  The *)
(* miscount of AVLTree::incrementAwCnt harms no other keyword than the one *)
(* that is inserted below the root.                                        *)
(***************************************************************************)
THEOREM CountedAlwaysFound == Spec => []CountedFoundIsLive
<1>1. Init => AgreeInv
  BY AgreeInvInit
<1>2. AgreeInv /\ [Next]_vars => AgreeInv'
  BY AgreeInvNext
<1>3. AgreeInv => CountedFoundIsLive
  BY FoundLive DEF CountedFoundIsLive
<1> QED
  BY <1>1, <1>2, <1>3, PTL DEF Spec

(***************************************************************************)
(* With one keyword, a search always finds what was inserted and not       *)
(* removed, each identifier once: after any removals and searches.         *)
(***************************************************************************)
THEOREM OneFoundIsLive == ASSUME OneKeyword PROVE Spec => []FoundIsLive
<1>1. Init => AgreeInv
  BY AgreeInvInit
<1>2. AgreeInv /\ [Next]_vars => AgreeInv'
  BY AgreeInvNext
<1>3. AgreeInv => FoundIsLive
  BY FoundLive, OneCounted DEF AgreeInv, IInv, FoundIsLive
<1> QED
  BY <1>1, <1>2, <1>3, PTL DEF Spec

(***************************************************************************)
(* With one keyword, the topmost colours of Ostate are the topmost marks   *)
(* of the keyword's generation at the server, although a search moves only *)
(* the marks it meets and leaves the others in the old generation.         *)
(***************************************************************************)
THEOREM MarksAlwaysAgree == ASSUME OneKeyword PROVE Spec => []MarksAgree
<1>1. Init => AgreeInv
  BY AgreeInvInit
<1>2. AgreeInv /\ [Next]_vars => AgreeInv'
  BY AgreeInvNext
<1>3. ASSUME AgreeInv PROVE MarksAgree
  <2>1. ASSUME NEW w \in DOMAIN CurOcnt
        PROVE  Topmost(Colours(w)) = Topmost(Marks(w, CurOcnt[w].src_cnt))
    <3>1. w \in Keyword
      BY <1>3 DEF AgreeInv, IInv, Records
    <3>2. Counted(w)
      BY <1>3, <3>1, OneCounted DEF AgreeInv, IInv
    <3>3. PICK c : c = CurOcnt[w]
      OBVIOUS
    <3> QED
      BY <1>3, <3>2, <3>3, MarksReached
  <2> QED
    BY <2>1 DEF MarksAgree, Colours, Marks
<1> QED
  BY <1>1, <1>2, <1>3, PTL DEF Spec

(***************************************************************************)
(* With one keyword, in a tree of any height, Server::findCoveringSet      *)
(* covers the leaves 0 .. a_w, each once, and lies nowhere below a colour, *)
(* so that recursiveSearch meets every mark it has to.                     *)
(***************************************************************************)
THEOREM CoverAlwaysReaches == ASSUME OneKeyword PROVE Spec => []CoverReachesMarks
<1>1. Init => AgreeInv
  BY AgreeInvInit
<1>2. AgreeInv /\ [Next]_vars => AgreeInv'
  BY AgreeInvNext
<1>3. ASSUME AgreeInv PROVE CoverReachesMarks
  <2>1. ASSUME NEW w \in DOMAIN CurOcnt
        PROVE  LET cover == findCoveringSet[CurOcnt[w].a_w]
               IN  /\ UNION {LeavesUnder[t] : t \in cover} = 0 .. CurOcnt[w].a_w
                   /\ \A s, t \in cover : s # t => LeavesUnder[s] \cap LeavesUnder[t] = {}
                   /\ \A n \in Colours(w) :
                         \E t \in cover : LeavesUnder[n] \subseteq LeavesUnder[t]
    <3>1. w \in Keyword
      BY <1>3 DEF AgreeInv, IInv, Records
    <3>2. Counted(w)
      BY <1>3, <3>1, OneCounted DEF AgreeInv, IInv
    <3>3. PICK c : c = CurOcnt[w]
      OBVIOUS
    <3> QED
      BY <1>3, <3>2, <3>3, MarksReached
  <2> QED
    BY <2>1 DEF CoverReachesMarks, Colours
<1> QED
  BY <1>1, <1>2, <1>3, PTL DEF Spec

-----------------------------------------------------------------------------
(* The refinement.                                                         *)

ContentsLive == [w \in Keyword |-> Found(w)] = live

LEMMA ContentsAreLive == ASSUME OneKeyword, AgreeInv PROVE ContentsLive
<1>1. live \in [Keyword -> SUBSET Ind]
  BY DEF AgreeInv, IInv, Records
<1>2. \A w \in Keyword : Found(w) = live[w]
  BY FoundLive, OneCounted DEF AgreeInv, IInv
<1> QED
  BY <1>1, <1>2 DEF ContentsLive

LEMMA StepRefines ==
    ASSUME OneKeyword, AgreeInv, [Next]_vars, ContentsLive'
    PROVE  \/ Index!ANext
           \/ UNCHANGED Index!avars
<1>1. PICK k : k = [w \in Keyword |-> Found(w)] /\ k = live
  BY ContentsAreLive DEF ContentsLive
<1>2. [w \in Keyword |-> Found(w)]' = live'
  BY DEF ContentsLive
<1>4. PhasesApart /\ Records /\ Addresses
  BY DEF AgreeInv, IInv
<1>5. ASSUME NEW w \in Keyword, NEW x \in Ind, Grows(w, x) PROVE Index!ANext
  <2>1. PICK p \in LeafNo, d \in Record : Added(w, x, p, d)
    BY <1>4, <1>5, GrowsIs
  <2>2. /\ x \notin k[w] /\ live' = [k EXCEPT ![w] = @ \cup {x}] /\ finalRes' = finalRes
    BY <1>1, <2>1 DEF Added
  <2>3. Index!AInsert(w, x)
    BY <1>1, <1>2, <2>2 DEF Index!AInsert
  <2> QED
    BY <2>3 DEF Index!ANext
<1>6. ASSUME NEW w \in Keyword, NEW x \in Ind, x \in live[w], Shrinks(w, x) PROVE Index!ANext
  <2>1. /\ x \in k[w] /\ live' = [k EXCEPT ![w] = @ \ {x}] /\ finalRes' = finalRes
    BY <1>1, <1>6 DEF Shrinks, Mark
  <2>2. Index!ARemove(w, x)
    BY <1>1, <1>2, <2>1 DEF Index!ARemove
  <2> QED
    BY <2>2 DEF Index!ANext
<1>7. ASSUME NEW w \in Keyword, Moves(w) PROVE Index!ANext
  <2>1. Agrees(w, Counters(CurOcnt, w))
    BY <1>4, OneCounted DEF AgreeInv, AllAgree
  <2>2. finalRes' = k[w] /\ live' = k
    BY <1>1, <1>4, <1>7, <2>1, MovesAgrees DEF Moves
  <2>3. Index!ASearch(w)
    BY <1>1, <1>2, <2>2 DEF Index!ASearch
  <2> QED
    BY <2>3 DEF Index!ANext
<1>8. ASSUME Stays PROVE UNCHANGED Index!avars
  <2>1. live' = k /\ finalRes' = finalRes
    BY <1>1, <1>8 DEF Stays
  <2> QED
    BY <1>1, <1>2, <2>1 DEF Index!avars
<1> QED
  BY <1>4, <1>5, <1>6, <1>7, <1>8, Steps

(***************************************************************************)
(* With one keyword, QOS implements the set of identifiers of SSESet:      *)
(* Client::insert adds one, Client::remove takes one away, Client::search  *)
(* returns them all, and the end of the setup phase changes none.          *)
(***************************************************************************)
THEOREM OneRefinesSet == ASSUME OneKeyword PROVE Spec => RefinesSet
<1>1. Init => AgreeInv
  BY AgreeInvInit
<1>2. AgreeInv /\ [Next]_vars => AgreeInv'
  BY AgreeInvNext
<1>3. Init => Index!AInit
  <2> SUFFICES ASSUME Init PROVE Index!AInit
    OBVIOUS
  <2>1. AgreeInv
    BY AgreeInvInit
  <2>2. [w \in Keyword |-> Found(w)] = live
    BY <2>1, ContentsAreLive DEF ContentsLive
  <2> QED
    BY <2>2 DEF Init, Index!AInit
<1>4. AgreeInv => ContentsLive
  BY ContentsAreLive
<1>5. AgreeInv /\ [Next]_vars /\ ContentsLive' => [Index!ANext]_(Index!avars)
  BY StepRefines
<1> QED
  BY <1>1, <1>2, <1>3, <1>4, <1>5, PTL DEF Spec, RefinesSet, Index!ASpec
=============================================================================
