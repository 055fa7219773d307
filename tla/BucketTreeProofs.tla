-------------------------- MODULE BucketTreeProofs --------------------------
(***************************************************************************)
(* What the operators of BucketTree compute, for every depth, size of a    *)
(* bucket and set of blocks.  Recursive functions are dealt with by the    *)
(* lemmas RecursionUp and RecursionDown.                                   *)
(***************************************************************************)
EXTENDS BucketTree, NumberLemmas

-----------------------------------------------------------------------------
(* Paths.  The nodes of depth d are numbered from 2^d - 1 to 2^(d+1) - 2.  *)

OfDepth(d) == 2 ^ d - 1 .. 2 ^ (d + 1) - 2

\* Bounds of a quotient, for GetNodeOnPath.
LEMMA QuotientRange ==
    ASSUME NEW x \in Nat, NEW p \in Nat \ {0}, NEW q \in Nat, q * p <= x, x < (2 * q) * p
    PROVE  x \div p \in Nat /\ q <= x \div p /\ x \div p < 2 * q
<1>1. PICK t \in Int, r \in Int : t = x \div p /\ r = x % p
  OBVIOUS
<1>2. x = p * t + r /\ 0 <= r /\ r < p
  BY <1>1
<1>3. q <= t
  <2> SUFFICES ASSUME t + 1 <= q PROVE FALSE
    OBVIOUS
  <2>1. (t + 1) * p <= q * p
    OBVIOUS
  <2> QED
    BY <1>2, <2>1
<1>4. t < 2 * q
  <2> SUFFICES ASSUME 2 * q <= t PROVE FALSE
    OBVIOUS
  <2>1. (2 * q) * p <= t * p
    OBVIOUS
  <2> QED
    BY <1>2, <2>1
<1> QED
  BY <1>1, <1>3, <1>4

\* The bucket of depth d on a path is one of the buckets of depth d.
LEMMA NodeOnPath ==
    ASSUME NEW l \in Leaf, NEW d \in 0 .. depth
    PROVE  GetNodeOnPath(l, d) \in OfDepth(d)
<1>0. depth \in Nat /\ d \in Nat /\ depth - d \in Nat
  BY BucketTreeAssumption
<1>1. PICK m \in Nat \ {0}, p \in Nat \ {0}, q \in Nat \ {0} :
           m = 2 ^ depth /\ p = 2 ^ (depth - d) /\ q = 2 ^ d
  BY <1>0, PowerType
<1>2. m = q * p
  <2>1. d + (depth - d) = depth
    BY <1>0
  <2> QED
    BY <1>0, <1>1, <2>1, PowerSum
<1>3. PICK x \in Nat : x = l + m
  BY <1>1 DEF Leaf
<1>4. q * p <= x /\ x < (2 * q) * p
  BY <1>1, <1>2, <1>3 DEF Leaf
<1>5. x \div p \in Nat /\ q <= x \div p /\ x \div p < 2 * q
  BY <1>4, QuotientRange
<1>6. 2 ^ (d + 1) = 2 * q
  BY <1>0, <1>1, PowerNext
<1>7. GetNodeOnPath(l, d) = x \div p - 1
  BY <1>1, <1>3 DEF GetNodeOnPath
<1>8. x \div p - 1 \in q - 1 .. 2 * q - 2
  BY <1>5
<1> QED
  BY <1>1, <1>6, <1>7, <1>8 DEF OfDepth

\* A bucket has one depth.
LEMMA DepthUnique ==
    ASSUME NEW d \in 0 .. depth, NEW e \in 0 .. depth, NEW n \in OfDepth(d), n \in OfDepth(e)
    PROVE  d = e
<1>0. depth \in Nat /\ d \in Nat /\ e \in Nat
  BY BucketTreeAssumption
<1>1. ASSUME NEW a \in Nat, NEW b \in Nat, a < b, n \in OfDepth(a), n \in OfDepth(b)
      PROVE  FALSE
  <2>1. 2 ^ (a + 1) <= 2 ^ b
    BY <1>1, PowerGrows
  <2>2. 2 ^ (a + 1) \in Nat /\ 2 ^ b \in Nat /\ 2 ^ a \in Nat /\ 2 ^ (b + 1) \in Nat
    BY PowerType
  <2> QED
    BY <1>1, <2>1, <2>2 DEF OfDepth
<1> QED
  BY <1>0, <1>1

\* DepthOf is the depth of a bucket.
LEMMA DepthFact ==
    ASSUME NEW d \in 0 .. depth, NEW n \in OfDepth(d)
    PROVE  n \in Node /\ DepthOf[n] = d
<1>0. depth \in Nat /\ d \in Nat
  BY BucketTreeAssumption
<1>1. n \in Node
  <2>1. 2 ^ (d + 1) <= 2 ^ (depth + 1)
    BY <1>0, PowerGrows
  <2>2. 2 ^ d \in Nat \ {0} /\ 2 ^ (d + 1) \in Nat /\ 2 ^ (depth + 1) \in Nat
    BY <1>0, PowerType
  <2> QED
    BY <2>1, <2>2 DEF OfDepth, Node
<1>2. DepthOf[n] = CHOOSE e \in 0 .. depth : n \in OfDepth(e)
  BY <1>1 DEF DepthOf, OfDepth
<1>3. \A e \in 0 .. depth : n \in OfDepth(e) => e = d
  BY DepthUnique
<1> QED
  BY <1>1, <1>2, <1>3

\* A bucket on a path is the one GetNodeOnPath names at its depth.
LEMMA PathFact ==
    ASSUME NEW l \in Leaf, NEW n \in Path[l]
    PROVE  /\ n \in Node
           /\ DepthOf[n] \in 0 .. depth
           /\ n = GetNodeOnPath(l, DepthOf[n])
<1>1. PICK d \in 0 .. depth : n = GetNodeOnPath(l, d)
  BY DEF Path
<1>2. n \in OfDepth(d)
  BY <1>1, NodeOnPath
<1> QED
  BY <1>1, <1>2, DepthFact

\* A path has one node of each depth.
\* A path has one bucket at each depth.
LEMMA PathOne ==
    ASSUME NEW l \in Leaf, NEW n \in Path[l], NEW k \in Path[l], DepthOf[n] = DepthOf[k]
    PROVE  n = k
BY PathFact

-----------------------------------------------------------------------------
(* The first blocks of a set.                                              *)

\* A finite set of numbers has a greatest one.
LEMMA Maximum ==
    ASSUME NEW T, T \subseteq Nat, IsFiniteSet(T), T # {}
    PROVE  \E x \in T : \A y \in T : y <= x
<1> DEFINE HasMax(U) == \E x \in U : \A y \in U : y <= x
           G == {c \in Nat : \A U \in SUBSET Nat :
                                IsFiniteSet(U) /\ Cardinality(U) = c /\ U # {} => HasMax(U)}
<1>1. 0 \in G
  BY FS_EmptySet
<1>2. Cardinality(T) \in Nat
  BY FS_CardinalityType
<1>3. ASSUME NEW c \in 0 .. Cardinality(T) - 1, c \in G PROVE c + 1 \in G
  <2>1. ASSUME NEW U \in SUBSET Nat, IsFiniteSet(U), Cardinality(U) = c + 1, U # {}
        PROVE  HasMax(U)
    <3>1. PICK u \in U : TRUE
      BY <2>1
    <3> DEFINE V == U \ {u}
    <3>2. IsFiniteSet(V) /\ Cardinality(V) = c /\ V \in SUBSET Nat
      <4>1. c \in Nat
        BY <1>2
      <4>2. IsFiniteSet(V) /\ Cardinality(V) = Cardinality(U) - 1
        BY <2>1, FS_RemoveElement
      <4> QED
        BY <2>1, <4>1, <4>2
    <3>3. CASE V = {}
      <4>1. U = {u} /\ u \in Nat
        BY <3>1, <3>3
      <4> QED
        BY <4>1
    <3>4. CASE V # {}
      <4>1. PICK x \in V : \A y \in V : y <= x
        BY <1>3, <3>2, <3>4
      <4>2. CASE x <= u
        BY <4>1, <4>2
      <4>3. CASE u <= x
        BY <4>1, <4>3
      <4> QED
        BY <4>2, <4>3
    <3> QED
      BY <3>3, <3>4
  <2> QED
    BY <2>1
<1> HIDE DEF G
<1>4. \A c \in 0 .. Cardinality(T) : c \in G
  BY <1>1, <1>2, <1>3, Induction
<1>5. Cardinality(T) \in G
  BY <1>2, <1>4
<1> QED
  BY <1>5 DEF G

\* First takes at most k of the set.
LEMMA FirstFact ==
    ASSUME NEW S, S \subseteq Nat, IsFiniteSet(S), NEW k \in Nat
    PROVE  /\ First(k, S) \subseteq S
           /\ IsFiniteSet(First(k, S))
           /\ Cardinality(First(k, S)) <= k
<1> DEFINE T == First(k, S)
<1>1. T \subseteq S
  BY DEF First
<1>2. IsFiniteSet(T) /\ Cardinality(T) \in Nat
  BY <1>1, FS_Subset, FS_CardinalityType
<1>3. CASE T = {}
  BY <1>1, <1>2, <1>3, FS_EmptySet
<1>4. CASE T # {}
  <2>1. PICK x \in T : \A y \in T : y <= x
    BY <1>1, <1>2, <1>4, Maximum
  <2> DEFINE L == {c \in S : c < x}
  <2>2. Cardinality(L) < k
    BY <2>1 DEF First
  <2>3. IsFiniteSet(L) /\ Cardinality(L) \in Nat
    BY FS_Subset, FS_CardinalityType
  <2>4. T \ {x} \subseteq L
    <3>1. ASSUME NEW y \in T, y # x PROVE y \in S /\ y < x
      <4>1. y \in Nat /\ x \in Nat /\ y <= x
        BY <1>1, <2>1
      <4> QED
        BY <1>1, <3>1, <4>1
    <3> QED
      BY <3>1
  <2> HIDE DEF L, T
  <2>5. Cardinality(T \ {x}) <= Cardinality(L)
    BY <2>3, <2>4, FS_Subset
  <2>6. Cardinality(T \ {x}) = Cardinality(T) - 1
    BY <1>2, <2>1, FS_RemoveElement
  <2>7. Cardinality(T) <= k
    BY <1>2, <2>2, <2>3, <2>5, <2>6
  <2> QED
    BY <1>1, <1>2, <2>7 DEF T
<1> QED
  BY <1>3, <1>4

-----------------------------------------------------------------------------
(* The blocks S are shared out to the buckets and the rest: each to one    *)
(* place, those in a bucket to one on their path, no bucket overfull.      *)

SharedOut(S, pos, bucket, rest) ==
    /\ rest \subseteq S /\ bucket \in [Node -> SUBSET S]
    /\ \A n \in Node :
          /\ Cardinality(bucket[n]) <= Z
          /\ \A b \in bucket[n] :
                /\ n \in Path[pos[b]]
                /\ b \notin rest
                /\ \A k \in Node \ {n} : b \notin bucket[k]
    /\ \A b \in S : b \in rest \/ \E n \in Node : b \in bucket[n]

\* Blocks with leaves.
Blocks(S, pos) == S \subseteq Nat /\ IsFiniteSet(S) /\ \A b \in S : pos[b] \in Leaf

-----------------------------------------------------------------------------
(* WriteBack.                                                              *)

\* The state of WriteBack when depth d is written.
WrittenTo(S, pos, nodes, d) ==
    {u \in [rest : SUBSET S, bucket : [Node -> SUBSET S]] :
        /\ SharedOut(S, pos, u.bucket, u.rest)
        /\ \A n \in Node : u.bucket[n] # {} => n \in nodes /\ DepthOf[n] \in d .. depth}

\* WritePath at one depth leaves the blocks shared out.
LEMMA WriteLevelFact ==
    ASSUME NEW S, NEW pos, NEW nodes, Blocks(S, pos), nodes \subseteq Node,
           NEW d \in 0 .. depth, NEW u \in WrittenTo(S, pos, nodes, d + 1)
    PROVE  WriteLevel(u, pos, nodes, d) \in WrittenTo(S, pos, nodes, d)
<1> DEFINE N == {n \in nodes : DepthOf[n] = d}
           at(n) == {b \in u.rest : n \in Path[pos[b]]}
           into == [n \in N |-> First(Z, at(n))]
           r == u.rest \ UNION {into[n] : n \in N}
           t == [n \in Node |-> IF n \in N THEN into[n] ELSE u.bucket[n]]
<1>0. u.rest \subseteq S /\ u.bucket \in [Node -> SUBSET S] /\ SharedOut(S, pos, u.bucket, u.rest)
  BY DEF WrittenTo
<1>1. WriteLevel(u, pos, nodes, d) = [rest |-> r, bucket |-> t]
  BY DEF WriteLevel, GetIntersectingBlocks
<1>2. ASSUME NEW n \in N
      PROVE  /\ into[n] \subseteq at(n) /\ Cardinality(into[n]) <= Z
             /\ n \in Node /\ DepthOf[n] = d /\ n \in nodes
  <2>1. at(n) \subseteq Nat /\ IsFiniteSet(at(n)) /\ Z \in Nat
    BY <1>0, FS_Subset, BucketTreeAssumption DEF Blocks
  <2>2. into[n] = First(Z, at(n))
    OBVIOUS
  <2>3. First(Z, at(n)) \subseteq at(n) /\ Cardinality(First(Z, at(n))) <= Z
    BY <2>1, FirstFact
  <2> QED
    BY <2>2, <2>3
<1>3. ASSUME NEW n \in N, NEW b \in into[n]
      PROVE  b \in S /\ b \in u.rest /\ n \in Path[pos[b]] /\ b \notin r
  <2>1. b \in at(n)
    BY <1>2
  <2>2. b \in S /\ b \in u.rest /\ n \in Path[pos[b]]
    BY <1>0, <2>1
  <2>3. b \in UNION {into[k] : k \in N}
    BY <1>3
  <2> HIDE DEF into, N, at
  <2>4. b \notin r
    BY <2>3
  <2> QED
    BY <2>2, <2>4
<1>4. ASSUME NEW n \in N, NEW k \in N, NEW b \in into[n], b \in into[k] PROVE n = k
  <2>1. pos[b] \in Leaf
    BY <1>3 DEF Blocks
  <2>2. n \in Path[pos[b]] /\ k \in Path[pos[b]]
    BY <1>3, <1>4
  <2>3. DepthOf[n] = DepthOf[k]
    OBVIOUS
  <2> QED
    BY <2>1, <2>2, <2>3, PathOne
<1>5. \A n \in N : t[n] = into[n]
  BY <1>2
<1>6. \A n \in Node \ N : t[n] = u.bucket[n]
  OBVIOUS
<1>7. r \subseteq S /\ t \in [Node -> SUBSET S]
  BY <1>0, <1>3
<1>8. ASSUME NEW n \in Node
      PROVE  /\ Cardinality(t[n]) <= Z
             /\ t[n] # {} => n \in nodes /\ DepthOf[n] \in d .. depth
  <2>1. CASE n \in N
    <3>1. d \in d .. depth
      BY BucketTreeAssumption
    <3>2. /\ t[n] = into[n] /\ Cardinality(into[n]) <= Z
          /\ DepthOf[n] = d /\ n \in nodes
      BY <1>2, <1>5, <2>1
    <3> HIDE DEF t, into, N
    <3> QED
      BY <3>1, <3>2
  <2>2. CASE n \notin N
    <3>1. u.bucket[n] # {} => n \in nodes /\ DepthOf[n] \in d + 1 .. depth
      BY DEF WrittenTo
    <3>2. DepthOf[n] \in d + 1 .. depth => DepthOf[n] \in d .. depth
      BY BucketTreeAssumption
    <3> QED
      BY <1>0, <1>6, <2>2, <3>1, <3>2 DEF SharedOut
  <2> QED
    BY <2>1, <2>2
<1>9. ASSUME NEW n \in Node, NEW b \in t[n]
      PROVE  n \in Path[pos[b]] /\ b \notin r /\ \A k \in Node \ {n} : b \notin t[k]
  <2>1. CASE n \in N
    <3>1. b \in into[n]
      BY <1>5, <2>1
    <3>2. b \in u.rest /\ n \in Path[pos[b]] /\ b \notin r
      BY <1>3, <2>1, <3>1
    <3>3. ASSUME NEW k \in Node \ {n} PROVE b \notin t[k]
      <4>1. CASE k \in N
        BY <1>4, <1>5, <2>1, <3>1, <4>1
      <4>2. CASE k \notin N
        <5>1. t[k] = u.bucket[k]
          BY <1>6, <4>2
        <5> QED
          BY <1>0, <3>2, <5>1 DEF SharedOut
      <4> QED
        BY <4>1, <4>2
    <3> QED
      BY <3>2, <3>3
  <2>2. CASE n \notin N
    <3>1. b \in u.bucket[n]
      BY <1>6, <2>2
    <3>2. n \in Path[pos[b]] /\ b \notin u.rest /\ \A k \in Node \ {n} : b \notin u.bucket[k]
      BY <1>0, <3>1 DEF SharedOut
    <3>3. ASSUME NEW k \in Node \ {n} PROVE b \notin t[k]
      <4>1. CASE k \in N
        BY <1>3, <1>5, <3>2, <4>1
      <4>2. CASE k \notin N
        BY <1>6, <3>2, <4>2
      <4> QED
        BY <4>1, <4>2
    <3> QED
      BY <3>2, <3>3
  <2> QED
    BY <2>1, <2>2
<1>10. ASSUME NEW b \in S PROVE b \in r \/ \E n \in Node : b \in t[n]
  <2>1. CASE \E n \in N : b \in into[n]
    BY <1>2, <1>5, <2>1
  <2>2. CASE ~ \E n \in N : b \in into[n]
    <3>1. CASE b \in u.rest
      BY <2>2, <3>1
    <3>2. CASE b \notin u.rest
      <4>1. PICK n \in Node : b \in u.bucket[n]
        BY <1>0, <3>2 DEF SharedOut
      <4>2. n \notin N
        <5>1. n \in N => DepthOf[n] = d /\ d \in Int
          BY BucketTreeAssumption
        <5>2. DepthOf[n] \in d + 1 .. depth
          BY <4>1 DEF WrittenTo
        <5> QED
          BY <5>1, <5>2
      <4> QED
        BY <1>6, <4>1, <4>2
    <3> QED
      BY <3>1, <3>2
  <2> QED
    BY <2>1, <2>2
<1> HIDE DEF r, t, N, into
<1>11. SharedOut(S, pos, t, r)
  BY <1>7, <1>8, <1>9, <1>10 DEF SharedOut
<1> QED
  BY <1>1, <1>7, <1>8, <1>11 DEF WrittenTo

\* The write-back shares all blocks out to its buckets and the rest.
LEMMA WriteBackFact ==
    ASSUME NEW S, NEW pos, NEW nodes, Blocks(S, pos), nodes \subseteq Node
    PROVE  LET w == WriteBack(S, pos, nodes)
           IN  /\ SharedOut(S, pos, w.bucket, w.rest)
               /\ \A n \in Node \ nodes : w.bucket[n] = {}
<1> DEFINE base == [rest |-> S, bucket |-> [n \in Node |-> {}]]
           X == [d \in 0 .. depth + 1 |-> WrittenTo(S, pos, nodes, d)]
           G == [d \in 0 .. depth |-> [u \in X[d + 1] |-> WriteLevel(u, pos, nodes, d)]]
           Fits(f) == f = [d \in 0 .. depth + 1 |->
                              IF d = depth + 1 THEN base ELSE WriteLevel(f[d + 1], pos, nodes, d)]
           W == WrittenFrom(S, pos, nodes)
<1>0. depth \in Nat /\ depth + 1 \in Nat /\ (depth + 1) - 1 = depth
  BY BucketTreeAssumption
<1>1. base \in X[depth + 1]
  <2>1. base.rest = S /\ base.bucket = [n \in Node |-> {}]
    OBVIOUS
  <2>2. Cardinality({}) <= Z
    BY FS_EmptySet, BucketTreeAssumption
  <2>3. SharedOut(S, pos, base.bucket, base.rest)
    BY <2>2 DEF SharedOut
  <2>4. base \in [rest : SUBSET S, bucket : [Node -> SUBSET S]]
    OBVIOUS
  <2>5. \A n \in Node : base.bucket[n] = {}
    OBVIOUS
  <2> HIDE DEF base
  <2>6. base \in WrittenTo(S, pos, nodes, depth + 1)
    BY <2>3, <2>4, <2>5 DEF WrittenTo
  <2> QED
    BY <1>0, <2>6
<1>2. ASSUME NEW d \in 0 .. depth, NEW u \in X[d + 1]
      PROVE  WriteLevel(u, pos, nodes, d) \in X[d]
  BY <1>0, WriteLevelFact
<1>3. \E f : Fits(f)
  <2>1. StepsDown(depth + 1, X, G)
    <3>1. ASSUME NEW d \in 0 .. depth, NEW u \in X[d + 1] PROVE G[d][u] \in X[d]
      <4>1. G[d][u] = WriteLevel(u, pos, nodes, d)
        OBVIOUS
      <4> HIDE DEF G, X
      <4> QED
        BY <1>2, <4>1
    <3> HIDE DEF G, X
    <3> QED
      BY <1>0, <3>1 DEF StepsDown
  <2> HIDE DEF X, base
  <2>2. PICK h : Falls(h, depth + 1, X, base, G)
    BY <1>0, <1>1, <2>1, RecursionDown
  <2>3. ASSUME NEW d \in 0 .. depth + 1
        PROVE  h[d] = IF d = depth + 1 THEN base ELSE WriteLevel(h[d + 1], pos, nodes, d)
    <3>1. CASE d = depth + 1
      BY <2>2, <3>1 DEF Falls
    <3>2. CASE d # depth + 1
      <4>1. d \in 0 .. depth /\ d + 1 \in 0 .. depth + 1
        BY <1>0, <3>2
      <4>2. h[d] = G[d][h[d + 1]] /\ h[d + 1] \in X[d + 1]
        BY <1>0, <2>2, <4>1 DEF Falls
      <4> QED
        BY <3>2, <4>1, <4>2
    <3> QED
      BY <3>1, <3>2
  <2>4. h = [d \in 0 .. depth + 1 |-> h[d]]
    BY <2>2 DEF Falls
  <2>5. Fits(h)
    BY <2>3, <2>4
  <2> QED
    BY <2>5
<1>4. W = CHOOSE f : Fits(f)
  BY DEF WrittenFrom
<1>5. Fits(W)
  BY <1>3, <1>4, Zenon
<1> HIDE DEF W, base
<1>6. /\ W[depth + 1] = base
      /\ \A d \in 0 .. depth : W[d] = WriteLevel(W[d + 1], pos, nodes, d)
  BY <1>0, <1>5
<1>7. \A d \in 0 .. depth : W[d + 1] \in X[d + 1] => W[d] \in X[d]
  BY <1>2, <1>6
<1> HIDE DEF X
<1>8. \A d \in 0 .. depth + 1 : W[d] \in X[d]
  BY <1>0, <1>1, <1>6, <1>7, InductionDown
<1>9. W[0] \in WrittenTo(S, pos, nodes, 0)
  BY <1>0, <1>8 DEF X
<1>10. WriteBack(S, pos, nodes) = W[0]
  BY DEF WriteBack, W
<1> QED
  BY <1>9, <1>10 DEF WrittenTo

-----------------------------------------------------------------------------
(* Sorted.                                                                 *)

Ascending(f, pos) ==
    \A i, j \in 1 .. Len(f) : i < j => f[i] # f[j] /\ pos[f[i]] <= pos[f[j]]

\* The first k blocks.
SortedTo(S, pos, k) ==
    {f \in Seq(S) :
        /\ Len(f) = k
        /\ Ascending(f, pos)
        /\ \A c \in S \ Range(f) : \A j \in 1 .. k : pos[f[j]] <= pos[c]}

\* A block of the lowest leaf extends the sorted blocks.
LEMMA SortedStep ==
    ASSUME NEW S, NEW pos, Blocks(S, pos), NEW k \in Nat, NEW f \in SortedTo(S, pos, k),
           NEW b \in Lowest(S \ Range(f), pos)
    PROVE  Append(f, b) \in SortedTo(S, pos, k + 1)
<1> DEFINE g == Append(f, b)
<1>0. f \in Seq(S) /\ Len(f) = k /\ Ascending(f, pos)
  BY DEF SortedTo
<1>1. /\ b \in S /\ b \notin Range(f)
      /\ \A c \in S \ Range(f) : pos[b] <= pos[c]
  BY DEF Lowest
<1>2. /\ g \in Seq(S) /\ Len(g) = k + 1 /\ g[k + 1] = b
      /\ \A j \in 1 .. k : g[j] = f[j]
  BY <1>0, <1>1
<1>3. DOMAIN f = 1 .. k /\ DOMAIN g = 1 .. k + 1
  BY <1>0, <1>2
<1> HIDE DEF g
<1>4. Range(g) = Range(f) \cup {b}
  <2>1. ASSUME NEW x \in Range(g) PROVE x \in Range(f) \cup {b}
    <3>1. PICK j \in 1 .. k + 1 : x = g[j]
      BY <1>3 DEF Range
    <3>2. CASE j = k + 1
      BY <1>2, <3>1, <3>2
    <3>3. CASE j # k + 1
      <4>1. j \in 1 .. k
        BY <3>3
      <4> QED
        BY <1>2, <1>3, <3>1, <4>1 DEF Range
    <3> QED
      BY <3>2, <3>3
  <2>2. ASSUME NEW x \in Range(f) PROVE x \in Range(g)
    <3>1. PICK j \in 1 .. k : x = f[j]
      BY <1>3 DEF Range
    <3>2. j \in 1 .. k + 1 /\ g[j] = x
      BY <1>2, <3>1
    <3> QED
      BY <1>3, <3>2 DEF Range
  <2>3. b \in Range(g)
    <3>1. k + 1 \in 1 .. k + 1
      OBVIOUS
    <3> QED
      BY <1>2, <1>3, <3>1 DEF Range
  <2> QED
    BY <2>1, <2>2, <2>3
<1>5. ASSUME NEW j \in 1 .. k PROVE f[j] # b /\ pos[f[j]] <= pos[b]
  BY <1>0, <1>1, <1>3 DEF Range, SortedTo
<1>6. Ascending(g, pos)
  <2> SUFFICES ASSUME NEW i \in 1 .. k + 1, NEW j \in 1 .. k + 1, i < j
               PROVE  g[i] # g[j] /\ pos[g[i]] <= pos[g[j]]
    BY <1>2 DEF Ascending
  <2>0. i \in 1 .. k /\ g[i] = f[i]
    BY <1>2
  <2>1. CASE j = k + 1
    BY <1>2, <1>5, <2>0, <2>1
  <2>2. CASE j # k + 1
    <3>1. j \in 1 .. k /\ g[j] = f[j]
      BY <1>2, <2>2
    <3> QED
      BY <1>0, <2>0, <3>1 DEF Ascending
  <2> QED
    BY <2>1, <2>2
<1>7. ASSUME NEW c \in S \ Range(g), NEW j \in 1 .. k + 1 PROVE pos[g[j]] <= pos[c]
  <2>0. c \in S \ Range(f)
    BY <1>4
  <2>1. CASE j = k + 1
    BY <1>1, <1>2, <2>0, <2>1
  <2>2. CASE j # k + 1
    <3>1. j \in 1 .. k /\ g[j] = f[j]
      BY <1>2, <2>2
    <3> QED
      BY <2>0, <3>1 DEF SortedTo
  <2> QED
    BY <2>1, <2>2
<1>8. g \in SortedTo(S, pos, k + 1)
  BY <1>2, <1>6, <1>7 DEF SortedTo
<1> QED
  BY <1>8 DEF g

\* Sorted yields each block, leaves ascending.
LEMMA SortedFact ==
    ASSUME NEW S, NEW pos, Blocks(S, pos), NEW f \in Sorted(S, pos)
    PROVE  /\ f \in Seq(S)
           /\ Ascending(f, pos)
           /\ \A b \in S : \E j \in 1 .. Len(f) : f[j] = b
<1> DEFINE n == Cardinality(S)
           Longer(x) == UNION {{Append(g, b) : b \in Lowest(S \ Range(g), pos)} : g \in x}
           X == [k \in 0 .. n |-> SUBSET SortedTo(S, pos, k)]
           G == [k \in 1 .. n |-> [x \in X[k - 1] |-> Longer(x)]]
           Fits(h) == h = [k \in 0 .. n |-> IF k = 0 THEN {<<>>} ELSE Longer(h[k - 1])]
           W == SortedPrefixes(S, pos)
<1>0. n \in Nat
  BY FS_CardinalityType DEF Blocks
<1>1. {<<>>} \in X[0]
  <2>1. <<>> \in SortedTo(S, pos, 0)
    BY DEF SortedTo, Ascending
  <2> QED
    BY <1>0, <2>1
<1>2. ASSUME NEW k \in 1 .. n, NEW x \in X[k - 1] PROVE Longer(x) \in X[k]
  <2>1. PICK j \in 0 .. n - 1 : k = j + 1
    BY <1>0, k - 1 \in 0 .. n - 1, k = (k - 1) + 1
  <2>2. x \subseteq SortedTo(S, pos, j)
    BY <1>0, <2>1
  <2>3. ASSUME NEW g \in x, NEW b \in Lowest(S \ Range(g), pos)
        PROVE  Append(g, b) \in SortedTo(S, pos, j + 1)
    <3>1. g \in SortedTo(S, pos, j) /\ j \in Nat
      BY <1>0, <2>2
    <3> QED
      BY <3>1, SortedStep
  <2>4. ASSUME NEW y \in Longer(x) PROVE y \in SortedTo(S, pos, j + 1)
    <3>1. PICK g \in x : y \in {Append(g, b) : b \in Lowest(S \ Range(g), pos)}
      OBVIOUS
    <3>2. PICK b \in Lowest(S \ Range(g), pos) : y = Append(g, b)
      BY <3>1
    <3> QED
      BY <2>3, <3>2
  <2> HIDE DEF Longer, n
  <2>5. Longer(x) \in SUBSET SortedTo(S, pos, j + 1)
    BY <2>4
  <2>6. X[k] = SUBSET SortedTo(S, pos, j + 1)
    BY <2>1
  <2> QED
    BY <2>5, <2>6
<1>3. \E h : Fits(h)
  <2>1. StepsUp(n, X, G)
    <3>1. ASSUME NEW k \in 1 .. n, NEW x \in X[k - 1] PROVE G[k][x] \in X[k]
      <4>1. G[k][x] = Longer(x)
        OBVIOUS
      <4> HIDE DEF G, X, Longer
      <4> QED
        BY <1>2, <4>1
    <3> HIDE DEF G, X
    <3> QED
      BY <3>1 DEF StepsUp
  <2> HIDE DEF X, n, Longer
  <2>2. PICK h : Rises(h, n, X, {<<>>}, G)
    BY <1>0, <1>1, <2>1, RecursionUp
  <2>3. ASSUME NEW k \in 0 .. n
        PROVE  h[k] = IF k = 0 THEN {<<>>} ELSE Longer(h[k - 1])
    <3>1. CASE k = 0
      BY <2>2, <3>1 DEF Rises
    <3>2. CASE k # 0
      <4>1. k \in 1 .. n /\ k - 1 \in 0 .. n
        BY <1>0, <3>2
      <4>2. h[k] = G[k][h[k - 1]] /\ h[k - 1] \in X[k - 1]
        BY <1>0, <2>2, <4>1 DEF Rises
      <4> QED
        BY <3>2, <4>1, <4>2
    <3> QED
      BY <3>1, <3>2
  <2>4. h = [k \in 0 .. n |-> h[k]]
    BY <2>2 DEF Rises
  <2>5. Fits(h)
    BY <2>3, <2>4
  <2> QED
    BY <2>5
<1>4. W = CHOOSE h : Fits(h)
  BY DEF SortedPrefixes
<1>5. Fits(W)
  BY <1>3, <1>4, Zenon
<1> HIDE DEF W, n, Longer
<1>6. /\ W[0] = {<<>>}
      /\ \A k \in 1 .. n : W[k] = Longer(W[k - 1])
  <2>1. \A k \in 0 .. n : W[k] = IF k = 0 THEN {<<>>} ELSE Longer(W[k - 1])
    BY <1>5
  <2>2. 0 \in 0 .. n /\ \A k \in 1 .. n : k \in 0 .. n /\ k # 0
    BY <1>0
  <2> QED
    BY <2>1, <2>2
<1>7. ASSUME NEW k \in 0 .. n - 1, W[k] \in X[k] PROVE W[k + 1] \in X[k + 1]
  <2>1. k + 1 \in 1 .. n /\ (k + 1) - 1 = k
    BY <1>0
  <2>2. W[k + 1] = Longer(W[k])
    BY <1>6, <2>1
  <2> HIDE DEF X
  <2> QED
    BY <1>2, <1>7, <2>1, <2>2
<1> HIDE DEF X
<1>8. \A k \in 0 .. n : W[k] \in X[k]
  BY <1>0, <1>1, <1>6, <1>7, InductionUp
<1>9. W[n] \subseteq SortedTo(S, pos, n)
  BY <1>0, <1>8 DEF X
<1>10. f \in SortedTo(S, pos, n)
  BY <1>9 DEF Sorted, W, n
<1>11. f \in Seq(S) /\ Len(f) = n /\ Ascending(f, pos)
  BY <1>10 DEF SortedTo
<1>12. f \in Injection(1 .. n, S)
  <2>1. f \in [1 .. n -> S] /\ DOMAIN f = 1 .. n
    BY <1>11
  <2>2. ASSUME NEW i \in 1 .. n, NEW j \in 1 .. n, f[i] = f[j] PROVE i = j
    BY <1>0, <1>11, <2>2 DEF Ascending
  <2> QED
    BY <2>1, <2>2 DEF Injection, IsInjective
<1>13. Cardinality(1 .. n) = n
  BY <1>0, FS_Interval
<1>14. f \in Surjection(1 .. n, S)
  BY <1>12, <1>13, FS_Injection DEF Blocks, n
<1> QED
  BY <1>11, <1>14 DEF Surjection

-----------------------------------------------------------------------------
(* Packed.                                                                 *)

\* The blocks before the i-th.
Before(f, i) == {f[j] : j \in 1 .. i - 1}

PackState(S) ==
    [i : Nat, curPos : Leaf, cannotInsert : BOOLEAN,
     buckets : [Node -> SUBSET S], stash : SUBSET S]

\* The blocks before the i-th are shared out, the others have leaves that
\* are at least the current one.
Packing(S, pos, f, s) ==
    /\ s \in PackState(S)
    /\ s.i \in 1 .. Len(f) + 1
    /\ SharedOut(Before(f, s.i), pos, s.buckets, s.stash)
    /\ \A j \in s.i .. Len(f) : s.curPos <= pos[f[j]]

\* A bucket with room for new blocks on their path takes them.
LEMMA SharedMore ==
    ASSUME NEW P, NEW A, NEW pos, NEW bucket, NEW rest, SharedOut(P, pos, bucket, rest),
           NEW n \in Node, A \cap P = {}, \A b \in A : n \in Path[pos[b]],
           Cardinality(bucket[n] \cup A) <= Z
    PROVE  SharedOut(P \cup A, pos, [bucket EXCEPT ![n] = bucket[n] \cup A], rest)
<1> DEFINE t == [bucket EXCEPT ![n] = bucket[n] \cup A]
<1>0. /\ rest \subseteq P /\ bucket \in [Node -> SUBSET P]
      /\ \A k \in Node : Cardinality(bucket[k]) <= Z
      /\ \A k \in Node : \A b \in bucket[k] : /\ k \in Path[pos[b]] /\ b \notin rest
                                              /\ \A j \in Node \ {k} : b \notin bucket[j]
      /\ \A b \in P : b \in rest \/ \E k \in Node : b \in bucket[k]
  BY DEF SharedOut
<1>1. t[n] = bucket[n] \cup A /\ \A k \in Node \ {n} : t[k] = bucket[k]
  BY <1>0
<1>2. rest \subseteq P \cup A /\ t \in [Node -> SUBSET (P \cup A)]
  BY <1>0
<1> HIDE DEF t
<1>3. ASSUME NEW k \in Node PROVE Cardinality(t[k]) <= Z
  BY <1>0, <1>1
<1>4. ASSUME NEW k \in Node, NEW b \in t[k]
      PROVE  k \in Path[pos[b]] /\ b \notin rest /\ \A j \in Node \ {k} : b \notin t[j]
  <2>1. CASE b \in A
    <3>1. \A j \in Node : b \notin bucket[j]
      BY <1>0, <2>1
    <3>2. k = n
      BY <1>1, <3>1
    <3> QED
      BY <1>0, <1>1, <2>1, <3>1, <3>2
  <2>2. CASE b \notin A
    <3>1. \A j \in Node : b \in t[j] <=> b \in bucket[j]
      BY <1>1, <2>2
    <3> QED
      BY <1>0, <3>1
  <2> QED
    BY <2>1, <2>2
<1>5. ASSUME NEW b \in P \cup A PROVE b \in rest \/ \E k \in Node : b \in t[k]
  BY <1>0, <1>1
<1>6. SharedOut(P \cup A, pos, t, rest)
  BY <1>2, <1>3, <1>4, <1>5 DEF SharedOut
<1> QED
  BY <1>6 DEF t

\* A new block goes to the rest.
LEMMA SharedRest ==
    ASSUME NEW P, NEW b, NEW pos, NEW bucket, NEW rest, SharedOut(P, pos, bucket, rest),
           b \notin P
    PROVE  SharedOut(P \cup {b}, pos, bucket, rest \cup {b})
<1>1. rest \subseteq P /\ bucket \in [Node -> SUBSET P]
  BY DEF SharedOut
<1>2. bucket \in [Node -> SUBSET (P \cup {b})]
  BY <1>1
<1> QED
  BY <1>1, <1>2 DEF SharedOut

\* The next c blocks have the current leaf, c being SameLeaf.
LEMMA SameLeafFact ==
    ASSUME NEW S, NEW pos, Blocks(S, pos), NEW f \in Seq(S), Ascending(f, pos),
           NEW s, Packing(S, pos, f, s), NEW c, c = SameLeaf(f, pos, s)
    PROVE  /\ c \in Nat /\ s.i + c <= Len(f) + 1
           /\ \A j \in s.i .. s.i + c - 1 : pos[f[j]] = s.curPos
           /\ s.i <= Len(f) /\ pos[f[s.i]] = s.curPos => c > 0
<1> DEFINE L == Len(f)
           A == {k \in s.i .. L : pos[f[k]] = s.curPos}
           B == (s.i .. L) \ A
<1>0. L \in Nat /\ s.i \in 1 .. L + 1 /\ s.i \in Nat /\ s.curPos \in Nat
  BY DEF Packing, PackState, Leaf
<1>1. c = Cardinality(A)
  BY DEF SameLeaf
<1>2. ASSUME NEW k \in s.i .. L PROVE pos[f[k]] \in Nat /\ s.curPos <= pos[f[k]]
  <2>1. k \in 1 .. L /\ f[k] \in S
    BY <1>0
  <2> QED
    <3>1. pos[f[k]] \in Leaf
      BY <2>1 DEF Blocks
    <3>2. pos[f[k]] \in Nat
      BY <3>1 DEF Leaf
    <3>3. s.curPos <= pos[f[k]]
      BY DEF Packing
    <3> QED
      BY <3>2, <3>3
<1>3. PICK m \in s.i .. L + 1 : A = s.i .. m - 1
  <2>1. CASE B = {}
    <3>1. A = s.i .. (L + 1) - 1 /\ L + 1 \in s.i .. L + 1
      BY <1>0, <2>1
    <3> QED
      BY <3>1
  <2>2. CASE B # {}
    <3>1. PICK m \in B : \A y \in B : m <= y
      <4>1. B \subseteq Nat
        BY <1>0
      <4> HIDE DEF B
      <4> QED
        BY <2>2, <4>1, Minimum
    <3>2. m \in s.i .. L /\ pos[f[m]] # s.curPos
      BY <3>1
    <3>3. ASSUME NEW k \in s.i .. L, k < m PROVE k \in A
      BY <1>0, <3>1, <3>2, <3>3
    <3>4. ASSUME NEW k \in s.i .. L, m <= k PROVE k \notin A
      <4>1. pos[f[m]] <= pos[f[k]]
        <5>1. CASE k = m
          BY <1>2, <5>1
        <5>2. CASE k # m
          <6>1. m \in 1 .. L /\ k \in 1 .. L /\ m < k
            BY <1>0, <3>2, <3>4, <5>2
          <6> QED
            BY <6>1 DEF Ascending
        <5> QED
          BY <5>1, <5>2
      <4> QED
        BY <1>0, <1>2, <3>2, <4>1
    <3>5. A = s.i .. m - 1
      <4> HIDE DEF B
      <4>1. ASSUME NEW k \in A PROVE k \in s.i .. m - 1
        <5>1. k \in s.i .. L /\ ~(m <= k)
          BY <3>4
        <5> QED
          BY <1>0, <3>2, <5>1
      <4>2. ASSUME NEW k \in s.i .. m - 1 PROVE k \in A
        <5>1. k \in s.i .. L /\ k < m
          BY <1>0, <3>2
        <5> QED
          BY <3>3, <5>1
      <4> QED
        BY <4>1, <4>2
    <3> QED
      BY <1>0, <3>2, <3>5
  <2> QED
    BY <2>1, <2>2
<1>4. c = m - s.i
  <2>1. PICK a \in Int, b \in Int : a = s.i /\ b = m - 1 /\ a <= b + 1
    BY <1>0
  <2>2. Cardinality(a .. b) = IF a > b THEN 0 ELSE b - a + 1
    BY FS_Interval
  <2>3. c = Cardinality(a .. b)
    <3>1. A = a .. b
      BY <1>3, <2>1
    <3> HIDE DEF A
    <3> QED
      BY <1>1, <3>1
  <2>4. c = IF a > b THEN 0 ELSE b - a + 1
    BY <2>2, <2>3
  <2>5. m \in Int /\ s.i \in Int
    BY <1>0
  <2> QED
    BY <2>1, <2>4, <2>5
<1>5. \A j \in s.i .. m - 1 : pos[f[j]] = s.curPos
  BY <1>3
<1>6. s.i + c - 1 = m - 1
  BY <1>0, <1>4
<1>7. s.i <= L /\ pos[f[s.i]] = s.curPos => c > 0
  <2> SUFFICES ASSUME s.i <= L, pos[f[s.i]] = s.curPos PROVE c > 0
    OBVIOUS
  <2>1. s.i \in A
    BY <1>0
  <2> HIDE DEF A
  <2> QED
    BY <1>0, <1>3, <1>4, <2>1
<1>8. \A j \in s.i .. s.i + c - 1 : pos[f[j]] = s.curPos
  BY <1>5, <1>6
<1> HIDE DEF A, B
<1>9. c \in Nat /\ s.i + c <= Len(f) + 1
  BY <1>0, <1>4
<1>10. s.i <= Len(f) /\ pos[f[s.i]] = s.curPos => c > 0
  BY <1>7
<1> QED
  BY <1>8, <1>9, <1>10

\* One bucket takes blocks of the current leaf, or is full.
LEMMA FillFact ==
    ASSUME NEW S, NEW pos, Blocks(S, pos), NEW f \in Seq(S), Ascending(f, pos),
           NEW s, Packing(S, pos, f, s), NEW d \in 0 .. depth,
           NEW u, u = Fill(f, pos, s, d)
    PROVE  /\ Packing(S, pos, f, u)
           /\ u.curPos = s.curPos
           /\ s.i <= u.i
           /\ s.cannotInsert => u.cannotInsert
           /\ s.i <= Len(f) /\ pos[f[s.i]] = s.curPos => s.i < u.i \/ u.cannotInsert
<1>c. PICK c : c = SameLeaf(f, pos, s)
  OBVIOUS
<1>0. /\ s \in PackState(S) /\ Len(f) \in Nat /\ s.i \in 1 .. Len(f) + 1
      /\ s.curPos \in Leaf /\ s.buckets \in [Node -> SUBSET S] /\ s.stash \subseteq S
      /\ SharedOut(Before(f, s.i), pos, s.buckets, s.stash)
      /\ \A j \in s.i .. Len(f) : s.curPos <= pos[f[j]]
  BY DEF Packing, PackState
<1>1. /\ c \in Nat /\ s.i + c <= Len(f) + 1
      /\ \A j \in s.i .. s.i + c - 1 : pos[f[j]] = s.curPos
      /\ s.i <= Len(f) /\ pos[f[s.i]] = s.curPos => c > 0
  BY <1>c, SameLeafFact
<1>2. CASE c = 0
  <2>1. u = s
    BY <1>c, <1>2 DEF Fill
  <2> QED
    BY <1>0, <1>1, <1>2, <2>1
<1>3. CASE c # 0
  <2>n. PICK n : n = GetNodeOnPath(s.curPos, d)
    OBVIOUS
  <2>k. PICK k : k = Min({Z - Cardinality(s.buckets[n]), c})
    OBVIOUS
  <2>a. PICK A : A = {f[j] : j \in s.i .. s.i + k - 1}
    OBVIOUS
  <2>1. n \in Node /\ n \in Path[s.curPos]
    <3>1. n \in Path[s.curPos]
      BY <1>0, <2>n DEF Path
    <3> QED
      BY <1>0, <3>1, PathFact
  <2>2. u = [s EXCEPT !.buckets[n] = @ \cup A, !.i = @ + k, !.cannotInsert = @ \/ k = 0]
    BY <1>c, <1>3, <2>n, <2>k, <2>a DEF Fill
  <2>3. IsFiniteSet(s.buckets[n]) /\ Cardinality(s.buckets[n]) \in 0 .. Z
    <3>1. s.buckets[n] \subseteq S
      BY <1>0, <2>1
    <3>2. IsFiniteSet(s.buckets[n])
      BY <3>1, FS_Subset DEF Blocks
    <3> QED
      BY <1>0, <2>1, <3>2, FS_CardinalityType, BucketTreeAssumption DEF SharedOut
  <2>4. k \in Nat /\ k <= c /\ k <= Z - Cardinality(s.buckets[n])
    <3>1. PICK z \in Nat : z = Z - Cardinality(s.buckets[n])
      BY <2>3, BucketTreeAssumption
    <3>2. k = CHOOSE x \in {z, c} : \A y \in {z, c} : x <= y
      BY <2>k, <3>1 DEF Min
    <3>3. \E x \in {z, c} : \A y \in {z, c} : x <= y
      BY <1>1
    <3>4. k \in {z, c} /\ \A y \in {z, c} : k <= y
      BY <3>2, <3>3
    <3> QED
      BY <1>1, <3>1, <3>4
  <2>5. /\ u.i = s.i + k /\ u.curPos = s.curPos /\ u.stash = s.stash
        /\ u.buckets = [s.buckets EXCEPT ![n] = s.buckets[n] \cup A]
        /\ u.cannotInsert = (s.cannotInsert \/ k = 0)
        /\ s.cannotInsert \in BOOLEAN
    BY <1>0, <2>1, <2>2 DEF PackState
  <2>6. s.i \in Nat \ {0} /\ u.i \in 1 .. Len(f) + 1 /\ s.i <= u.i
    BY <1>0, <1>1, <2>4, <2>5
  <2>7. ASSUME NEW j \in s.i .. s.i + k - 1
        PROVE  j \in 1 .. Len(f) /\ f[j] \in S /\ pos[f[j]] = s.curPos
    <3>0. PICK i \in Nat \ {0}, L \in Nat : i = s.i /\ L = Len(f)
      BY <2>6
    <3>a. i + c <= L + 1 /\ k <= c /\ k \in Nat /\ c \in Nat /\ j \in i .. i + k - 1
      BY <1>0, <1>1, <2>4, <3>0
    <3>b. j \in 1 .. L /\ j \in i .. i + c - 1
      BY <3>a
    <3>1. j \in 1 .. Len(f) /\ j \in s.i .. s.i + c - 1
      BY <3>0, <3>b
    <3> QED
      BY <1>1, <3>1
  <2>8. IsFiniteSet(A) /\ Cardinality(A) <= k
    <3> DEFINE J == s.i .. s.i + k - 1
               h == [j \in J |-> f[j]]
    <3>1. h \in Surjection(J, A)
      BY <2>a DEF Surjection
    <3>2. IsFiniteSet(J) /\ Cardinality(J) = k
      <4>1. PICK a \in Int, b \in Int : a = s.i /\ b = s.i + k - 1
        BY <2>4, <2>6
      <4>2. IsFiniteSet(a .. b) /\ Cardinality(a .. b) = IF a > b THEN 0 ELSE b - a + 1
        BY FS_Interval
      <4> QED
        BY <2>4, <2>6, <4>1, <4>2
    <3> HIDE DEF J, h
    <3>3. IsFiniteSet(A) /\ Cardinality(A) <= Cardinality(J)
      BY <3>1, <3>2, FS_Surjection
    <3> QED
      BY <3>2, <3>3
  <2>9. Cardinality(s.buckets[n] \cup A) <= Z
    <3>1. IsFiniteSet(s.buckets[n] \cap A)
      BY <2>3, FS_Intersection
    <3>2. Cardinality(s.buckets[n] \cap A) \in Nat /\ Cardinality(A) \in Nat
      BY <2>8, <3>1, FS_CardinalityType
    <3>3. Cardinality(s.buckets[n] \cup A) =
            Cardinality(s.buckets[n]) + Cardinality(A) - Cardinality(s.buckets[n] \cap A)
      BY <2>3, <2>8, FS_Union
    <3> QED
      BY <2>3, <2>4, <2>8, <3>2, <3>3, BucketTreeAssumption
  <2>10. A \cap Before(f, s.i) = {}
    <3> SUFFICES ASSUME NEW j \in s.i .. s.i + k - 1, NEW m \in 1 .. s.i - 1 PROVE f[m] # f[j]
      BY <2>a DEF Before
    <3>1. m \in 1 .. Len(f) /\ j \in 1 .. Len(f) /\ m < j
      BY <2>6, <2>7, <1>0
    <3> QED
      BY <3>1 DEF Ascending
  <2>11. Before(f, u.i) = Before(f, s.i) \cup A
    <3>1. PICK a \in Nat \ {0}, b \in Nat : a = s.i /\ b = k /\ u.i = a + b
      BY <2>4, <2>5, <2>6
    <3>2. 1 .. (a + b) - 1 = (1 .. a - 1) \cup (a .. a + b - 1)
      OBVIOUS
    <3>3. {f[j] : j \in 1 .. (a + b) - 1}
            = {f[j] : j \in 1 .. a - 1} \cup {f[j] : j \in a .. a + b - 1}
      BY <3>2
    <3> QED
      BY <2>a, <3>1, <3>3 DEF Before
  <2>12. \A b \in A : n \in Path[pos[b]]
    BY <2>1, <2>7, <2>a
  <2>13. SharedOut(Before(f, u.i), pos, u.buckets, u.stash)
    <3>1. SharedOut(Before(f, s.i) \cup A, pos, [s.buckets EXCEPT ![n] = s.buckets[n] \cup A],
                    s.stash)
      BY <1>0, <2>1, <2>9, <2>10, <2>12, SharedMore
    <3> QED
      BY <2>5, <2>11, <3>1
  <2>14. u \in PackState(S)
    <3>1. A \subseteq S
      BY <2>7, <2>a
    <3>2. u.buckets \in [Node -> SUBSET S]
      BY <1>0, <2>1, <2>5, <3>1
    <3>3. u.i \in Nat /\ u.cannotInsert \in BOOLEAN
      BY <2>4, <2>5, <2>6
    <3>4. u = [i |-> u.i, curPos |-> s.curPos, cannotInsert |-> u.cannotInsert,
               buckets |-> u.buckets, stash |-> s.stash]
      BY <1>0, <2>2 DEF PackState
    <3> QED
      BY <1>0, <3>2, <3>3, <3>4 DEF PackState
  <2>15. \A j \in u.i .. Len(f) : u.curPos <= pos[f[j]]
    BY <1>0, <2>4, <2>5, <2>6
  <2>16. s.i < u.i \/ u.cannotInsert
    <3>1. CASE k = 0
      BY <2>5, <3>1
    <3>2. CASE k # 0
      BY <2>4, <2>5, <2>6, <3>2
    <3> QED
      BY <3>1, <3>2
  <2> QED
    BY <2>5, <2>6, <2>13, <2>14, <2>15, <2>16 DEF Packing
<1> QED
  BY <1>2, <1>3

\* The states of the pass that begins in s, when depth d is done.
FilledTo(S, pos, f, s, d) ==
    {u \in PackState(S) :
        /\ Packing(S, pos, f, u)
        /\ u.curPos = s.curPos
        /\ s.i <= u.i
        /\ d = depth + 1 => u.i = s.i
        /\ d # depth + 1 => s.i < u.i \/ u.cannotInsert}

\* The buckets of the current path, from the leaf up, take blocks.
LEMMA FilledFact ==
    ASSUME NEW S, NEW pos, Blocks(S, pos), NEW f \in Seq(S), Ascending(f, pos),
           NEW s, Packing(S, pos, f, s), s.i <= Len(f), pos[f[s.i]] = s.curPos
    PROVE  FilledFrom(f, pos, s)[0] \in FilledTo(S, pos, f, s, 0)
<1> DEFINE X == [d \in 0 .. depth + 1 |-> FilledTo(S, pos, f, s, d)]
           G == [d \in 0 .. depth |-> [u \in X[d + 1] |-> Fill(f, pos, u, d)]]
           Fits(h) == h = [d \in 0 .. depth + 1 |->
                              IF d = depth + 1 THEN s ELSE Fill(f, pos, h[d + 1], d)]
           W == FilledFrom(f, pos, s)
<1>0. /\ depth \in Nat /\ depth + 1 \in Nat /\ (depth + 1) - 1 = depth
      /\ Len(f) \in Nat /\ s.i \in Nat /\ s \in PackState(S)
  BY BucketTreeAssumption DEF Packing
<1>1. s \in X[depth + 1]
  <2>1. s \in FilledTo(S, pos, f, s, depth + 1)
    BY <1>0 DEF FilledTo
  <2> QED
    BY <1>0, <2>1
<1>2. ASSUME NEW d \in 0 .. depth, NEW u \in X[d + 1] PROVE Fill(f, pos, u, d) \in X[d]
  <2>1. PICK v : v = Fill(f, pos, u, d)
    OBVIOUS
  <2>2. /\ Packing(S, pos, f, u) /\ u.curPos = s.curPos /\ s.i <= u.i
        /\ d + 1 = depth + 1 => u.i = s.i
        /\ d + 1 # depth + 1 => s.i < u.i \/ u.cannotInsert
    <3>1. u \in FilledTo(S, pos, f, s, d + 1)
      BY <1>0
    <3> QED
      BY <3>1 DEF FilledTo
  <2>3. /\ Packing(S, pos, f, v) /\ v.curPos = u.curPos /\ u.i <= v.i
        /\ u.cannotInsert => v.cannotInsert
        /\ u.i <= Len(f) /\ pos[f[u.i]] = u.curPos => u.i < v.i \/ v.cannotInsert
    BY <2>1, <2>2, FillFact
  <2>4. u.i \in Nat /\ v.i \in Nat /\ v \in PackState(S)
    BY <2>2, <2>3 DEF Packing
  <2>5. s.i < v.i \/ v.cannotInsert
    <3>1. CASE d = depth
      BY <1>0, <2>2, <2>3, <3>1
    <3>2. CASE d # depth
      <4>1. s.i < u.i \/ u.cannotInsert
        BY <1>0, <2>2, <3>2
      <4>2. CASE s.i < u.i
        BY <1>0, <2>3, <2>4, <4>2
      <4>3. CASE u.cannotInsert
        BY <2>3, <4>3
      <4> QED
        BY <4>1, <4>2, <4>3
    <3> QED
      BY <3>1, <3>2
  <2>6. s.i <= v.i /\ d # depth + 1
    BY <1>0, <2>2, <2>3, <2>4
  <2>7. v \in FilledTo(S, pos, f, s, d)
    BY <2>2, <2>3, <2>4, <2>5, <2>6 DEF FilledTo
  <2> QED
    BY <1>0, <2>1, <2>7
<1>3. \E h : Fits(h)
  <2>1. StepsDown(depth + 1, X, G)
    <3>1. ASSUME NEW d \in 0 .. depth, NEW u \in X[d + 1] PROVE G[d][u] \in X[d]
      <4>1. G[d][u] = Fill(f, pos, u, d)
        OBVIOUS
      <4> HIDE DEF G, X
      <4> QED
        BY <1>2, <4>1
    <3> HIDE DEF G, X
    <3> QED
      BY <1>0, <3>1 DEF StepsDown
  <2> HIDE DEF X
  <2>2. PICK h : Falls(h, depth + 1, X, s, G)
    BY <1>0, <1>1, <2>1, RecursionDown
  <2>3. ASSUME NEW d \in 0 .. depth + 1
        PROVE  h[d] = IF d = depth + 1 THEN s ELSE Fill(f, pos, h[d + 1], d)
    <3>1. CASE d = depth + 1
      BY <2>2, <3>1 DEF Falls
    <3>2. CASE d # depth + 1
      <4>1. d \in 0 .. depth /\ d + 1 \in 0 .. depth + 1
        BY <1>0, <3>2
      <4>2. h[d] = G[d][h[d + 1]] /\ h[d + 1] \in X[d + 1]
        BY <1>0, <2>2, <4>1 DEF Falls
      <4> QED
        BY <3>2, <4>1, <4>2
    <3> QED
      BY <3>1, <3>2
  <2>4. h = [d \in 0 .. depth + 1 |-> h[d]]
    BY <2>2 DEF Falls
  <2>5. Fits(h)
    BY <2>3, <2>4
  <2> QED
    BY <2>5
<1>4. W = CHOOSE h : Fits(h)
  BY DEF FilledFrom
<1>5. Fits(W)
  BY <1>3, <1>4, Zenon
<1> HIDE DEF W
<1>6. /\ W[depth + 1] = s
      /\ \A d \in 0 .. depth : W[d] = Fill(f, pos, W[d + 1], d)
  BY <1>0, <1>5
<1>7. \A d \in 0 .. depth : W[d + 1] \in X[d + 1] => W[d] \in X[d]
  BY <1>2, <1>6
<1> HIDE DEF X
<1>8. \A d \in 0 .. depth + 1 : W[d] \in X[d]
  BY <1>0, <1>1, <1>6, <1>7, InductionDown
<1> QED
  BY <1>0, <1>8 DEF X, W

\* One more block is done with.
LEMMA BeforeNext ==
    ASSUME NEW f, NEW i \in Nat \ {0}
    PROVE  Before(f, i + 1) = Before(f, i) \cup {f[i]}
<1>1. 1 .. (i + 1) - 1 = (1 .. i - 1) \cup {i}
  OBVIOUS
<1> QED
  BY <1>1 DEF Before

\* A pass places a block, and the next one begins with the leaf of the next.
LEMMA PassFact ==
    ASSUME NEW S, NEW pos, Blocks(S, pos), NEW f \in Seq(S), Ascending(f, pos),
           NEW s, Packing(S, pos, f, s), s.i <= Len(f), pos[f[s.i]] = s.curPos,
           NEW o, o = Pass(f, pos, s)
    PROVE  /\ Packing(S, pos, f, o)
           /\ s.i < o.i
           /\ o.i <= Len(f) => pos[f[o.i]] = o.curPos
<1>u. PICK u : u = FilledFrom(f, pos, s)[0]
  OBVIOUS
<1>0. /\ Len(f) \in Nat /\ s.i \in Nat /\ depth \in Nat
  BY BucketTreeAssumption DEF Packing
<1>1. /\ Packing(S, pos, f, u) /\ u.curPos = s.curPos
      /\ s.i <= u.i /\ (s.i < u.i \/ u.cannotInsert)
  BY <1>0, <1>u, FilledFact DEF FilledTo
<1>2. /\ u \in PackState(S) /\ u.i \in 1 .. Len(f) + 1 /\ u.i \in Nat \ {0}
      /\ u.stash \subseteq S /\ u.buckets \in [Node -> SUBSET S] /\ u.curPos \in Leaf
      /\ SharedOut(Before(f, u.i), pos, u.buckets, u.stash)
      /\ \A j \in u.i .. Len(f) : u.curPos <= pos[f[j]]
  BY <1>0, <1>1 DEF Packing, PackState
<1>3. o = Overflow(f, pos, u)
  BY <1>u DEF Pass
<1>4. CASE u.i > Len(f)
  <2>1. o = u
    BY <1>3, <1>4 DEF Overflow
  <2> QED
    BY <1>0, <1>1, <1>2, <1>4, <2>1
<1>5. CASE u.i <= Len(f)
  <2>i. PICK i : i = IF u.cannotInsert THEN u.i + 1 ELSE u.i
    OBVIOUS
  <2>1. o = [u EXCEPT !.stash = IF u.cannotInsert THEN @ \cup {f[u.i]} ELSE @,
                      !.i = i,
                      !.cannotInsert = FALSE,
                      !.curPos = IF i <= Len(f) THEN pos[f[i]] ELSE @]
    BY <1>0, <1>2, <1>3, <1>5, <2>i DEF Overflow
  <2>2. o = [i |-> i, curPos |-> IF i <= Len(f) THEN pos[f[i]] ELSE u.curPos,
             cannotInsert |-> FALSE, buckets |-> u.buckets,
             stash |-> IF u.cannotInsert THEN u.stash \cup {f[u.i]} ELSE u.stash]
    BY <1>2, <2>1 DEF PackState
  <2>3. i \in 1 .. Len(f) + 1 /\ i \in Nat /\ s.i < i
    BY <1>0, <1>1, <1>2, <1>5, <2>i
  <2>4. u.i \in 1 .. Len(f) /\ f[u.i] \in S
    BY <1>2, <1>5
  <2>5. o \in PackState(S)
    <3>1. i <= Len(f) => pos[f[i]] \in Leaf
      <4>1. i <= Len(f) => f[i] \in S
        BY <2>3
      <4> QED
        BY <4>1 DEF Blocks
    <3>2. (IF i <= Len(f) THEN pos[f[i]] ELSE u.curPos) \in Leaf
      BY <1>2, <3>1
    <3>3. (IF u.cannotInsert THEN u.stash \cup {f[u.i]} ELSE u.stash) \in SUBSET S
      BY <1>2, <2>4
    <3> QED
      BY <1>2, <2>2, <2>3, <3>2, <3>3 DEF PackState
  <2>6. SharedOut(Before(f, o.i), pos, o.buckets, o.stash)
    <3>0. o.i = i /\ o.buckets = u.buckets
      BY <2>2
    <3>1. CASE u.cannotInsert
      <4>1. f[u.i] \notin Before(f, u.i)
        <5> SUFFICES ASSUME NEW j \in 1 .. u.i - 1 PROVE f[j] # f[u.i]
          BY DEF Before
        <5>1. j \in 1 .. Len(f) /\ j < u.i
          BY <1>2, <2>4
        <5> QED
          BY <2>4, <5>1 DEF Ascending
      <4>2. SharedOut(Before(f, u.i) \cup {f[u.i]}, pos, u.buckets, u.stash \cup {f[u.i]})
        BY <1>2, <4>1, SharedRest
      <4>3. Before(f, u.i + 1) = Before(f, u.i) \cup {f[u.i]}
        BY <1>2, BeforeNext
      <4>4. o.stash = u.stash \cup {f[u.i]} /\ i = u.i + 1
        BY <2>2, <2>i, <3>1
      <4> QED
        BY <3>0, <4>2, <4>3, <4>4
    <3>2. CASE ~u.cannotInsert
      BY <1>2, <2>2, <2>i, <3>0, <3>2
    <3> QED
      BY <3>1, <3>2
  <2>7. o.i = i /\ (i <= Len(f) => o.curPos = pos[f[i]])
    BY <2>2
  <2>8. ASSUME NEW j \in i .. Len(f) PROVE o.curPos <= pos[f[j]]
    <3>1. i <= Len(f) /\ i \in 1 .. Len(f) /\ j \in 1 .. Len(f)
      BY <1>0, <2>3
    <3>2. f[i] \in S /\ f[j] \in S
      BY <3>1
    <3>3. pos[f[i]] \in Leaf /\ pos[f[j]] \in Leaf
      BY <3>2 DEF Blocks
    <3>4. pos[f[i]] \in Nat /\ pos[f[j]] \in Nat
      BY <3>3 DEF Leaf
    <3>5. CASE i = j
      BY <2>7, <3>1, <3>4, <3>5
    <3>6. CASE i # j
      <4>1. i < j
        BY <3>1, <3>6
      <4>2. pos[f[i]] <= pos[f[j]]
        BY <3>1, <4>1 DEF Ascending
      <4> QED
        BY <2>7, <3>1, <4>2
    <3> QED
      BY <3>5, <3>6
  <2> QED
    BY <2>3, <2>5, <2>6, <2>7, <2>8 DEF Packing
<1> QED
  BY <1>0, <1>2, <1>4, <1>5

\* The states after p passes.
PackedAfter(S, pos, f, p) ==
    {s \in PackState(S) :
        /\ Packing(S, pos, f, s)
        /\ p < s.i
        /\ s.i <= Len(f) => pos[f[s.i]] = s.curPos}

\* setupInsert shares out all blocks of the setup phase.
LEMMA PackedFact ==
    ASSUME NEW S, NEW pos, Blocks(S, pos), NEW f \in Sorted(S, pos)
    PROVE  SharedOut(S, pos, Packed(f, pos).buckets, Packed(f, pos).stash)
<1> DEFINE n == Len(f)
           base == [i |-> 1, curPos |-> IF f = <<>> THEN 0 ELSE pos[f[1]],
                    cannotInsert |-> FALSE,
                    buckets |-> [k \in Node |-> {}], stash |-> {}]
           After(s) == IF s.i > Len(f) THEN s ELSE Pass(f, pos, s)
           X == [p \in 0 .. n |-> PackedAfter(S, pos, f, p)]
           G == [p \in 1 .. n |-> [s \in X[p - 1] |-> After(s)]]
           Fits(h) == h = [p \in 0 .. n |-> IF p = 0 THEN base ELSE After(h[p - 1])]
           W == Passes(f, pos)
<1>f. f \in Seq(S) /\ Ascending(f, pos) /\ \A b \in S : \E j \in 1 .. n : f[j] = b
  BY SortedFact
<1>0. n \in Nat /\ 0 \in 0 .. n
  BY <1>f
<1>1. base \in X[0]
  <2>1. ASSUME 1 <= n PROVE f[1] \in S /\ pos[f[1]] \in Leaf /\ f # <<>>
    <3>1. 1 \in 1 .. Len(f)
      BY <1>0, <2>1
    <3>2. f[1] \in S
      BY <1>f, <3>1
    <3>3. f # <<>>
      BY <3>1
    <3> QED
      BY <3>2, <3>3 DEF Blocks
  <2>2. base.curPos \in Leaf
    <3>1. CASE 1 <= n
      BY <2>1, <3>1
    <3>2. CASE ~(1 <= n)
      <4>1. f = <<>>
        BY <1>f, <1>0, <3>2
      <4>2. 2 ^ depth \in Nat \ {0}
        BY BucketTreeAssumption, PowerType
      <4> QED
        BY <4>1, <4>2 DEF Leaf
    <3> QED
      BY <3>1, <3>2
  <2>3. base \in PackState(S)
    BY <2>2 DEF PackState
  <2>4. Before(f, 1) = {}
    BY DEF Before
  <2>5. SharedOut({}, pos, [k \in Node |-> {}], {})
    <3>1. Cardinality({}) <= Z
      BY FS_EmptySet, BucketTreeAssumption
    <3> QED
      BY <3>1 DEF SharedOut
  <2>6. 1 <= n => pos[f[1]] = base.curPos
    BY <2>1
  <2>7. ASSUME NEW j \in 1 .. n PROVE base.curPos <= pos[f[j]]
    <3>1. f[j] \in S /\ f[1] \in S
      <4>1. 1 \in 1 .. Len(f) /\ j \in 1 .. Len(f)
        BY <1>0
      <4>2. f \in Seq(S)
        BY <1>f
      <4> HIDE DEF n
      <4> QED
        BY <4>1, <4>2
    <3>2. pos[f[j]] \in Leaf /\ pos[f[1]] \in Leaf
      BY <3>1 DEF Blocks
    <3>3. pos[f[j]] \in Nat /\ pos[f[1]] \in Nat
      BY <3>2 DEF Leaf
    <3>4. pos[f[1]] <= pos[f[j]]
      <4>1. CASE j = 1
        BY <3>3, <4>1
      <4>2. CASE j # 1
        <5>1. 1 \in 1 .. Len(f) /\ j \in 1 .. Len(f) /\ 1 < j
          BY <1>0, <4>2
        <5>2. Ascending(f, pos)
          BY <1>f
        <5> HIDE DEF n
        <5> QED
          BY <5>1, <5>2 DEF Ascending
      <4> QED
        BY <4>1, <4>2
    <3> QED
      BY <2>6, <3>1, <3>4
  <2>8. /\ base.i = 1 /\ base.buckets = [k \in Node |-> {}] /\ base.stash = {}
    OBVIOUS
  <2> HIDE DEF base
  <2>9. Packing(S, pos, f, base)
    <3>1. base.i \in 1 .. Len(f) + 1 /\ Before(f, base.i) = {}
      BY <1>0, <2>4, <2>8
    <3>2. SharedOut(Before(f, base.i), pos, base.buckets, base.stash)
      BY <2>5, <2>8, <3>1
    <3>3. \A j \in base.i .. Len(f) : base.curPos <= pos[f[j]]
      BY <2>7, <2>8
    <3> QED
      BY <2>3, <3>1, <3>2, <3>3 DEF Packing
  <2>10. base \in PackedAfter(S, pos, f, 0)
    BY <2>3, <2>6, <2>8, <2>9 DEF PackedAfter
  <2> QED
    BY <1>0, <2>10
<1>2. ASSUME NEW p \in 1 .. n, NEW s \in X[p - 1] PROVE After(s) \in X[p]
  <2>1. /\ s \in PackState(S) /\ Packing(S, pos, f, s) /\ p - 1 < s.i
        /\ s.i <= n => pos[f[s.i]] = s.curPos
    <3>1. s \in PackedAfter(S, pos, f, p - 1)
      BY <1>0
    <3> QED
      BY <3>1 DEF PackedAfter
  <2>2. s.i \in 1 .. n + 1
    BY <2>1 DEF Packing
  <2>3. CASE s.i > n
    <3>1. After(s) = s /\ p < s.i
      BY <1>0, <2>2, <2>3
    <3> HIDE DEF After
    <3> QED
      BY <1>0, <2>1, <3>1 DEF PackedAfter
  <2>4. CASE ~(s.i > n)
    <3>0. PICK o : o = Pass(f, pos, s)
      OBVIOUS
    <3>1. After(s) = o /\ s.i <= n
      BY <1>0, <2>2, <2>4, <3>0
    <3>2. /\ Packing(S, pos, f, o) /\ s.i < o.i
          /\ o.i <= n => pos[f[o.i]] = o.curPos
      <4>1. Packing(S, pos, f, s) /\ s.i <= Len(f) /\ pos[f[s.i]] = s.curPos
        BY <2>1, <3>1
      <4>2. f \in Seq(S) /\ Ascending(f, pos)
        BY <1>f
      <4> HIDE DEF n
      <4> QED
        BY <3>0, <4>1, <4>2, PassFact DEF n
    <3>3. o \in PackState(S) /\ o.i \in 1 .. n + 1
      BY <3>2 DEF Packing
    <3>4. p < o.i
      BY <1>0, <2>1, <2>2, <3>2, <3>3
    <3> HIDE DEF After
    <3> QED
      BY <1>0, <3>1, <3>2, <3>3, <3>4 DEF PackedAfter
  <2> QED
    BY <2>3, <2>4
<1>3. \E h : Fits(h)
  <2>1. StepsUp(n, X, G)
    <3>1. ASSUME NEW p \in 1 .. n, NEW s \in X[p - 1] PROVE G[p][s] \in X[p]
      <4>1. G[p][s] = After(s)
        OBVIOUS
      <4> HIDE DEF G, X, After
      <4> QED
        BY <1>2, <4>1
    <3> HIDE DEF G, X
    <3> QED
      BY <3>1 DEF StepsUp
  <2> HIDE DEF X, n, After, base
  <2>2. PICK h : Rises(h, n, X, base, G)
    BY <1>0, <1>1, <2>1, RecursionUp
  <2>3. ASSUME NEW p \in 0 .. n
        PROVE  h[p] = IF p = 0 THEN base ELSE After(h[p - 1])
    <3>1. CASE p = 0
      BY <2>2, <3>1 DEF Rises
    <3>2. CASE p # 0
      <4>1. p \in 1 .. n /\ p - 1 \in 0 .. n
        BY <1>0, <3>2
      <4>2. h[p] = G[p][h[p - 1]] /\ h[p - 1] \in X[p - 1]
        BY <1>0, <2>2, <4>1 DEF Rises
      <4> QED
        BY <3>2, <4>1, <4>2
    <3> QED
      BY <3>1, <3>2
  <2>4. h = [p \in 0 .. n |-> h[p]]
    BY <2>2 DEF Rises
  <2>5. Fits(h)
    BY <2>3, <2>4
  <2> QED
    BY <2>5
<1>4. W = CHOOSE h : Fits(h)
  BY DEF Passes
<1>5. Fits(W)
  BY <1>3, <1>4, Zenon
<1> HIDE DEF W, n, After, base
<1>6. /\ W[0] = base
      /\ \A p \in 1 .. n : W[p] = After(W[p - 1])
  <2>1. \A p \in 0 .. n : W[p] = IF p = 0 THEN base ELSE After(W[p - 1])
    BY <1>5
  <2>2. 0 \in 0 .. n /\ \A p \in 1 .. n : p \in 0 .. n /\ p # 0
    BY <1>0
  <2> QED
    BY <2>1, <2>2
<1>7. ASSUME NEW p \in 0 .. n - 1, W[p] \in X[p] PROVE W[p + 1] \in X[p + 1]
  <2>1. p + 1 \in 1 .. n /\ (p + 1) - 1 = p
    BY <1>0
  <2>2. W[p + 1] = After(W[p])
    BY <1>6, <2>1
  <2> HIDE DEF X
  <2> QED
    BY <1>2, <1>7, <2>1, <2>2
<1> HIDE DEF X
<1>8. \A p \in 0 .. n : W[p] \in X[p]
  BY <1>0, <1>1, <1>6, <1>7, InductionUp
<1>9. W[n] \in PackedAfter(S, pos, f, n)
  BY <1>0, <1>8 DEF X
<1>10. PICK s : s = Packed(f, pos)
  OBVIOUS
<1>11. s \in PackedAfter(S, pos, f, n)
  BY <1>9, <1>10 DEF Packed, W, n
<1>12. /\ s.i \in 1 .. n + 1 /\ n < s.i
       /\ SharedOut(Before(f, s.i), pos, s.buckets, s.stash)
  BY <1>11 DEF PackedAfter, Packing, n
<1>13. s.i = n + 1
  BY <1>0, <1>12
<1>14. Before(f, n + 1) = S
  <2>1. ASSUME NEW b \in S PROVE b \in Before(f, n + 1)
    <3>1. PICK j \in 1 .. n : f[j] = b
      BY <1>f DEF n
    <3>2. j \in 1 .. (n + 1) - 1
      BY <1>0
    <3> QED
      BY <3>1, <3>2 DEF Before
  <2>2. ASSUME NEW j \in 1 .. (n + 1) - 1 PROVE f[j] \in S
    <3>1. j \in 1 .. n
      BY <1>0
    <3> QED
      BY <1>f, <3>1 DEF n
  <2> QED
    BY <2>1, <2>2 DEF Before
<1> QED
  BY <1>10, <1>12, <1>13, <1>14
=============================================================================
