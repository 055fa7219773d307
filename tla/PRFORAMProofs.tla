---------------------------- MODULE PRFORAMProofs ----------------------------
(***************************************************************************)
(* Proofs about PRFORAM for every depth, bucket size, set of identifiers   *)
(* and assignment of leaves: a box lies in one place, nothing is lost, and *)
(* PRFORAM implements BoxMap.                                              *)
(***************************************************************************)
EXTENDS PRFORAM, BucketTreeProofs

-----------------------------------------------------------------------------
(* The inductive invariant.  The boxes given so far are shared out to the  *)
(* buckets and the stash, and lie there with their values.                 *)

BoxMaps(g) == DOMAIN g \subseteq Bid /\ g \in [DOMAIN g -> Value]

Lying == [n \in Node |-> DOMAIN tree[n]]

IInv ==
    /\ pos \in [Bid -> PRFLeaf]
    /\ BoxMaps(given)
    /\ tree = [n \in Node |-> Only(given, DOMAIN tree[n])]
    /\ stash = Only(given, DOMAIN stash)
    /\ SharedOut(DOMAIN given, pos, Lying, DOMAIN stash)

-----------------------------------------------------------------------------
(* Maps and paths.                                                         *)

\* The part of a map on a set of its identifiers.
LEMMA OnlyFact ==
    ASSUME NEW g, NEW D, D \subseteq DOMAIN g
    PROVE  /\ DOMAIN Only(g, D) = D
           /\ \A b \in D : Only(g, D)[b] = g[b]
           /\ Only(g, D) = [b \in D |-> g[b]]
<1>1. DOMAIN g \cap D = D
  OBVIOUS
<1> QED
  BY <1>1 DEF Only

\* Boxes put into a map.
LEMMA MergedFact ==
    ASSUME NEW g, NEW n
    PROVE  /\ DOMAIN Merged(g, n) = DOMAIN g \cup DOMAIN n
           /\ \A b \in DOMAIN n : Merged(g, n)[b] = n[b]
           /\ \A b \in DOMAIN g \ DOMAIN n : Merged(g, n)[b] = g[b]
BY DEF Merged

\* Horus::generatePosition yields leaves.
LEMMA LeavesFact == PRFLeaf \subseteq Leaf
<1>1. 2 ^ depth \in Nat \ {0}
  BY BucketTreeAssumption, PowerType
<1> QED
  BY <1>1 DEF PRFLeaf, Leaf

\* The buckets of some paths are buckets and hold each path.
LEMMA PathNodesFact ==
    ASSUME NEW leaves, leaves \subseteq Leaf
    PROVE  /\ PathNodes(leaves) \subseteq Node
           /\ \A l \in leaves : Path[l] \subseteq PathNodes(leaves)
<1>1. ASSUME NEW l \in leaves, NEW n \in Path[l] PROVE n \in Node
  BY PathFact
<1> QED
  BY <1>1 DEF PathNodes

\* Boxes have identifiers in an order and leaves.
LEMMA BoxesAreBlocks ==
    ASSUME pos \in [Bid -> PRFLeaf], NEW D, D \subseteq Bid
    PROVE  Blocks(D, pos)
<1>1. D \subseteq Nat /\ IsFiniteSet(D)
  BY PRFORAMAssumption, FS_Subset
<1>2. \A b \in D : pos[b] \in Leaf
  BY LeavesFact
<1> QED
  BY <1>1, <1>2 DEF Blocks

\* What the invariant says of the place of a box.
LEMMA Places ==
    ASSUME IInv
    PROVE  /\ DOMAIN given \subseteq Bid /\ DOMAIN stash \subseteq DOMAIN given
           /\ \A b \in DOMAIN stash : stash[b] = given[b]
           /\ \A n \in Node :
                 /\ DOMAIN tree[n] \subseteq DOMAIN given
                 /\ Cardinality(DOMAIN tree[n]) <= Z
                 /\ \A b \in DOMAIN tree[n] :
                       /\ tree[n][b] = given[b]
                       /\ n \in Path[pos[b]]
                       /\ b \notin DOMAIN stash
                       /\ \A k \in Node \ {n} : b \notin DOMAIN tree[k]
           /\ \A b \in DOMAIN given : b \in DOMAIN stash \/ \E n \in Node : b \in DOMAIN tree[n]
<1>0. \A n \in Node : Lying[n] = DOMAIN tree[n]
  BY DEF Lying
<1>1. DOMAIN given \subseteq Bid
  BY DEF IInv, BoxMaps
<1>2. DOMAIN stash \subseteq DOMAIN given
  BY DEF IInv, SharedOut
<1>3. \A b \in DOMAIN stash : stash[b] = given[b]
  BY <1>2, OnlyFact DEF IInv
<1>4. ASSUME NEW n \in Node
      PROVE  /\ DOMAIN tree[n] \subseteq DOMAIN given
             /\ Cardinality(DOMAIN tree[n]) <= Z
             /\ \A b \in DOMAIN tree[n] : tree[n][b] = given[b]
  <2>1. DOMAIN tree[n] \subseteq DOMAIN given /\ Cardinality(DOMAIN tree[n]) <= Z
    BY <1>0 DEF IInv, SharedOut
  <2>2. tree[n] = Only(given, DOMAIN tree[n])
    BY DEF IInv
  <2> QED
    BY <2>1, <2>2, OnlyFact
<1>5. ASSUME NEW n \in Node, NEW b \in DOMAIN tree[n]
      PROVE  /\ n \in Path[pos[b]] /\ b \notin DOMAIN stash
             /\ \A k \in Node \ {n} : b \notin DOMAIN tree[k]
  BY <1>0 DEF IInv, SharedOut
<1>6. \A b \in DOMAIN given : b \in DOMAIN stash \/ \E n \in Node : b \in DOMAIN tree[n]
  BY <1>0 DEF IInv, SharedOut
<1> QED
  BY <1>1, <1>2, <1>3, <1>4, <1>5, <1>6

-----------------------------------------------------------------------------
(* Fetching and writing back.                                              *)

Fetched(leaves) == DOMAIN stash \cup Boxes(PathNodes(leaves))

\* What FetchPath brings into the stash are boxes with their values.
LEMMA FetchFact ==
    ASSUME IInv, NEW leaves, leaves \subseteq Leaf
    PROVE  /\ Fetched(leaves) \subseteq DOMAIN given
           /\ FetchPath(leaves) = Only(given, Fetched(leaves))
<1>n. PICK nodes : nodes = PathNodes(leaves)
  OBVIOUS
<1> DEFINE new == Boxes(nodes) \ DOMAIN stash
           at(b) == CHOOSE n \in nodes : b \in DOMAIN tree[n]
           got == [b \in new |-> tree[at(b)][b]]
<1>0. nodes \subseteq Node
  BY <1>n, PathNodesFact
<1>1. ASSUME NEW b \in Boxes(nodes) PROVE b \in DOMAIN given /\ tree[at(b)][b] = given[b]
  <2>1. \E n \in nodes : b \in DOMAIN tree[n]
    BY DEF Boxes
  <2>2. at(b) \in nodes /\ b \in DOMAIN tree[at(b)]
    BY <2>1
  <2> HIDE DEF at
  <2> QED
    BY <1>0, <2>2, Places
<1>2. FetchPath(leaves) = Merged(stash, got)
  BY <1>n DEF FetchPath
<1>3. DOMAIN got = new /\ \A b \in new : got[b] = given[b]
  BY <1>1
<1>4. Fetched(leaves) = DOMAIN stash \cup new
  BY <1>n DEF Fetched
<1>5. Fetched(leaves) \subseteq DOMAIN given
  BY <1>1, <1>4, Places
<1>g. PICK g : g = got
  OBVIOUS
<1>f. g = got /\ DOMAIN g = new /\ \A b \in new : g[b] = given[b]
  BY <1>3, <1>g
<1> HIDE DEF new, got
<1>m. PICK m : m = Merged(stash, g)
  OBVIOUS
<1>a. /\ DOMAIN m = DOMAIN stash \cup DOMAIN g
      /\ \A b \in DOMAIN g : m[b] = g[b]
      /\ \A b \in DOMAIN stash \ DOMAIN g : m[b] = stash[b]
  BY <1>m DEF Merged
<1>8. m = [b \in DOMAIN m |-> m[b]]
  BY <1>m DEF Merged
<1>6. DOMAIN m = Fetched(leaves)
  BY <1>f, <1>4, <1>a
<1>7. ASSUME NEW b \in Fetched(leaves) PROVE m[b] = given[b]
  <2>1. CASE b \in new
    BY <1>f, <1>a, <2>1
  <2>2. CASE b \notin new
    <3>1. b \in DOMAIN stash /\ b \notin DOMAIN g
      BY <1>f, <1>4, <2>2
    <3> QED
      BY <1>a, <3>1, Places
  <2> QED
    BY <2>1, <2>2
<1>9. m = [b \in Fetched(leaves) |-> given[b]]
  BY <1>6, <1>7, <1>8
<1> QED
  BY <1>2, <1>5, <1>9, <1>f, <1>m, OnlyFact

\* Boxes of which nothing is stored yet.
LEMMA AddedFact ==
    ASSUME NEW g, NEW n, NEW D, D \subseteq DOMAIN g, DOMAIN n \cap DOMAIN g = {}
    PROVE  Merged(Only(g, D), n) = Only(Merged(g, n), D \cup DOMAIN n)
<1>1. DOMAIN Only(g, D) = D /\ \A b \in D : Only(g, D)[b] = g[b]
  BY OnlyFact
<1>2. /\ DOMAIN Merged(g, n) = DOMAIN g \cup DOMAIN n
      /\ \A b \in DOMAIN n : Merged(g, n)[b] = n[b]
      /\ \A b \in DOMAIN g : Merged(g, n)[b] = g[b]
  BY DEF Merged
<1>3. Merged(Only(g, D), n) = [b \in D \cup DOMAIN n |-> IF b \in DOMAIN n THEN n[b] ELSE g[b]]
  BY <1>1 DEF Merged
<1>4. Only(Merged(g, n), D \cup DOMAIN n) = [b \in D \cup DOMAIN n |-> Merged(g, n)[b]]
  BY <1>2, OnlyFact
<1> QED
  BY <1>2, <1>3, <1>4

\* Part of the buckets is emptied and filled again from what was in them, the
\* rest and new blocks: the blocks are shared out as before.
LEMMA SharedAgain ==
    ASSUME NEW S, NEW G, S \subseteq G, NEW leaf, NEW bucket, NEW rest,
           SharedOut(S, leaf, bucket, rest),
           NEW nodes, nodes \subseteq Node,
           NEW D, D = (G \ S) \cup rest \cup UNION {bucket[n] : n \in nodes},
           NEW into, NEW left, SharedOut(D, leaf, into, left),
           \A n \in Node \ nodes : into[n] = {},
           NEW c, c = [n \in Node |-> IF n \in nodes THEN into[n] ELSE bucket[n]]
    PROVE  SharedOut(G, leaf, c, left)
<1>1. /\ rest \subseteq S /\ bucket \in [Node -> SUBSET S]
      /\ \A n \in Node :
            /\ Cardinality(bucket[n]) <= Z
            /\ \A b \in bucket[n] :
                  /\ n \in Path[leaf[b]]
                  /\ b \notin rest
                  /\ \A k \in Node \ {n} : b \notin bucket[k]
      /\ \A b \in S : b \in rest \/ \E n \in Node : b \in bucket[n]
  BY DEF SharedOut
<1>2. /\ left \subseteq D /\ into \in [Node -> SUBSET D]
      /\ \A n \in Node :
            /\ Cardinality(into[n]) <= Z
            /\ \A b \in into[n] :
                  /\ n \in Path[leaf[b]]
                  /\ b \notin left
                  /\ \A k \in Node \ {n} : b \notin into[k]
      /\ \A b \in D : b \in left \/ \E n \in Node : b \in into[n]
  BY DEF SharedOut
<1>0. \A b : b \in D <=> \/ b \in rest
                         \/ \E n \in nodes : b \in bucket[n]
                         \/ b \in G /\ b \notin S
  <2>1. PICK U : U = UNION {bucket[n] : n \in nodes}
    OBVIOUS
  <2>2. \A b : b \in U <=> \E n \in nodes : b \in bucket[n]
    BY <2>1
  <2>3. \A b : b \in D <=> b \in rest \/ b \in U \/ (b \in G /\ b \notin S)
    BY <2>1
  <2> QED
    BY <2>2, <2>3
<1>3. D \subseteq G
  BY <1>0, <1>1
<1>4. ASSUME NEW n \in Node \ nodes, NEW b \in bucket[n] PROVE b \notin D
  <2>1. b \in S /\ b \notin rest
    BY <1>1
  <2>2. ASSUME NEW k \in nodes PROVE b \notin bucket[k]
    BY <1>1
  <2> QED
    BY <1>0, <2>1, <2>2
<1>5. left \subseteq G /\ c \in [Node -> SUBSET G]
  BY <1>1, <1>2, <1>3
<1>6. /\ \A n \in nodes : c[n] = into[n]
      /\ \A n \in Node \ nodes : c[n] = bucket[n]
  OBVIOUS
<1>7. ASSUME NEW n \in Node
      PROVE  /\ Cardinality(c[n]) <= Z
             /\ \A b \in c[n] : /\ n \in Path[leaf[b]]
                                /\ b \notin left
                                /\ \A k \in Node \ {n} : b \notin c[k]
  <2>1. CASE n \in nodes
    <3>1. ASSUME NEW b \in into[n], NEW k \in Node \ {n} PROVE b \notin c[k]
      <4>1. CASE k \in nodes
        BY <1>2, <1>6, <2>1, <4>1
      <4>2. CASE k \notin nodes
        <5>1. b \in D
          BY <1>2
        <5> QED
          BY <1>4, <1>6, <4>2, <5>1
      <4> QED
        BY <4>1, <4>2
    <3> QED
      BY <1>2, <1>6, <2>1, <3>1
  <2>2. CASE n \notin nodes
    <3>1. ASSUME NEW b \in bucket[n] PROVE b \notin left
      BY <1>2, <1>4, <2>2
    <3>2. ASSUME NEW b \in bucket[n], NEW k \in Node \ {n} PROVE b \notin c[k]
      <4>1. CASE k \in nodes
        <5>1. b \notin D
          BY <1>4, <2>2
        <5> QED
          BY <1>2, <1>6, <4>1, <5>1
      <4>2. CASE k \notin nodes
        BY <1>1, <1>6, <4>2
      <4> QED
        BY <4>1, <4>2
    <3> QED
      BY <1>1, <1>6, <2>2, <3>1, <3>2
  <2> QED
    BY <2>1, <2>2
<1>8. ASSUME NEW b \in G PROVE b \in left \/ \E n \in Node : b \in c[n]
  <2>1. CASE b \in D
    <3>1. ASSUME NEW n \in Node, b \in into[n] PROVE b \in c[n]
      BY <1>6, <3>1
    <3> QED
      BY <1>2, <2>1, <3>1
  <2>2. CASE b \notin D
    <3>1. b \in S /\ b \notin rest
      BY <1>0, <2>2
    <3>2. PICK n \in Node : b \in bucket[n]
      BY <1>1, <3>1
    <3>3. n \notin nodes
      BY <1>0, <2>2, <3>2
    <3> QED
      BY <1>6, <3>2, <3>3
  <2> QED
    BY <2>1, <2>2
<1> QED
  BY <1>5, <1>7, <1>8 DEF SharedOut

\* A subset of what is left of a map.
LEMMA OnlyOnly ==
    ASSUME NEW g, NEW D, D \subseteq DOMAIN g, NEW E, E \subseteq D
    PROVE  Only(Only(g, D), E) = Only(g, E)
<1>1. DOMAIN Only(g, D) = D /\ \A b \in D : Only(g, D)[b] = g[b]
  BY OnlyFact
<1>2. Only(Only(g, D), E) = [b \in E |-> Only(g, D)[b]]
  BY <1>1, OnlyFact
<1>3. Only(g, E) = [b \in E |-> g[b]]
  BY OnlyFact
<1> QED
  BY <1>1, <1>2, <1>3

\* The invariant from its parts, for the next state.
LEMMA IInvNext ==
    ASSUME pos \in [Bid -> PRFLeaf], pos' = pos, NEW g, BoxMaps(g), given' = g,
           NEW c, c \in [Node -> SUBSET DOMAIN g], NEW left, left \subseteq DOMAIN g,
           SharedOut(DOMAIN g, pos, c, left),
           tree' = [n \in Node |-> Only(g, c[n])], stash' = Only(g, left)
    PROVE  IInv'
<1>1. ASSUME NEW n \in Node PROVE DOMAIN tree'[n] = c[n]
  <2>1. tree'[n] = Only(g, c[n]) /\ c[n] \subseteq DOMAIN g
    OBVIOUS
  <2> QED
    BY <2>1, OnlyFact
<1>2. DOMAIN stash' = left
  BY OnlyFact
<1>3. Lying' = c
  <2>1. Lying' = [n \in Node |-> DOMAIN tree'[n]]
    BY DEF Lying
  <2> QED
    BY <1>1, <2>1
<1>4. tree' = [n \in Node |-> Only(given', DOMAIN tree'[n])]
  BY <1>1
<1>5. stash' = Only(given', DOMAIN stash')
  BY <1>2
<1>6. SharedOut(DOMAIN given', pos', Lying', DOMAIN stash')
  BY <1>2, <1>3
<1>7. BoxMaps(given')
  OBVIOUS
<1> QED
  BY <1>4, <1>5, <1>6, <1>7 DEF IInv

\* The leaves of identifiers.
LEMMA LeavesOf ==
    ASSUME pos \in [Bid -> PRFLeaf], NEW q, q \subseteq Bid
    PROVE  {pos[b] : b \in q} \subseteq Leaf
BY LeavesFact

\* A fetch and the write back of the same paths, with new boxes in between.
LEMMA WritePathFact ==
    ASSUME IInv, pos' = pos, NEW g, BoxMaps(g), given' = g,
           DOMAIN given \subseteq DOMAIN g, \A b \in DOMAIN given : g[b] = given[b],
           NEW leaves, leaves \subseteq Leaf,
           NEW D, D = Fetched(leaves) \cup (DOMAIN g \ DOMAIN given),
           WritePath(Only(g, D), leaves)
    PROVE  IInv'
<1>n. PICK nodes : nodes = PathNodes(leaves)
  OBVIOUS
<1>0. nodes \subseteq Node
  BY <1>n, PathNodesFact
<1>1. D \subseteq DOMAIN g /\ D \subseteq Bid
  BY FetchFact DEF BoxMaps
<1>2. DOMAIN Only(g, D) = D
  BY <1>1, OnlyFact
<1>w. PICK w : w = WriteBack(D, pos, nodes)
  OBVIOUS
<1>3. SharedOut(D, pos, w.bucket, w.rest) /\ \A n \in Node \ nodes : w.bucket[n] = {}
  <2>1. pos \in [Bid -> PRFLeaf]
    BY DEF IInv
  <2>2. Blocks(D, pos)
    BY <1>1, <2>1, BoxesAreBlocks
  <2> QED
    BY <1>0, <1>w, <2>2, WriteBackFact
<1>4. w.rest \subseteq D /\ w.bucket \in [Node -> SUBSET D]
  BY <1>3 DEF SharedOut
<1>5. stash' = Only(g, w.rest)
  <2>1. stash' = Only(Only(g, D), w.rest)
    BY <1>2, <1>n, <1>w DEF WritePath
  <2> QED
    BY <1>1, <1>4, <2>1, OnlyOnly
<1>c. PICK c : c = [n \in Node |-> IF n \in nodes THEN w.bucket[n] ELSE Lying[n]]
  OBVIOUS
<1>6. tree' = [n \in Node |-> Only(g, c[n])]
  <2>1. tree' = [n \in Node |-> IF n \in nodes THEN Only(Only(g, D), w.bucket[n]) ELSE tree[n]]
    BY <1>2, <1>n, <1>w DEF WritePath
  <2>2. ASSUME NEW n \in nodes PROVE Only(Only(g, D), w.bucket[n]) = Only(g, c[n])
    <3>1. w.bucket[n] \subseteq D
      BY <1>0, <1>4
    <3>2. c[n] = w.bucket[n]
      BY <1>0, <1>c
    <3> QED
      BY <1>1, <3>1, <3>2, OnlyOnly
  <2>3. ASSUME NEW n \in Node \ nodes PROVE tree[n] = Only(g, c[n])
    <3>1. c[n] = DOMAIN tree[n]
      BY <1>c DEF Lying
    <3>2. DOMAIN tree[n] \subseteq DOMAIN given
      BY Places
    <3>3. tree[n] = [b \in DOMAIN tree[n] |-> given[b]]
      BY <3>2, OnlyFact DEF IInv
    <3>4. Only(g, DOMAIN tree[n]) = [b \in DOMAIN tree[n] |-> g[b]]
      BY <3>2, OnlyFact
    <3>5. [b \in DOMAIN tree[n] |-> given[b]] = [b \in DOMAIN tree[n] |-> g[b]]
      BY <3>2
    <3> QED
      BY <3>1, <3>3, <3>4, <3>5
  <2> QED
    BY <2>1, <2>2, <2>3
<1>7. SharedOut(DOMAIN g, pos, c, w.rest)
  <2>1. SharedOut(DOMAIN given, pos, Lying, DOMAIN stash)
    BY DEF IInv
  <2>2. Boxes(nodes) = UNION {Lying[n] : n \in nodes}
    <3>1. \A n \in nodes : Lying[n] = DOMAIN tree[n]
      BY <1>0 DEF Lying
    <3> QED
      BY <3>1 DEF Boxes
  <2>3. D = (DOMAIN g \ DOMAIN given) \cup DOMAIN stash \cup UNION {Lying[n] : n \in nodes}
    BY <1>n, <2>2 DEF Fetched
  <2>l. PICK lying : lying = Lying
    OBVIOUS
  <2>4. c = [n \in Node |-> IF n \in nodes THEN w.bucket[n] ELSE lying[n]]
    BY <1>c, <2>l
  <2> QED
    BY <1>0, <1>3, <2>1, <2>3, <2>4, <2>l, SharedAgain
<1>8. c \in [Node -> SUBSET DOMAIN g] /\ w.rest \subseteq DOMAIN g
  BY <1>7 DEF SharedOut
<1>9. pos \in [Bid -> PRFLeaf]
  BY DEF IInv
<1> QED
  BY <1>5, <1>6, <1>7, <1>8, <1>9, IInvNext

\* The packing of the setup phase.
LEMMA SetupFact ==
    ASSUME IInv, NEW q \in SUBSET Bid, NEW n \in [q -> Value], setupInsert(n)
    PROVE  IInv'
<1>1. DOMAIN n = q
  OBVIOUS
<1>2. PICK nodes \in Sorted(q, pos) :
         LET s == Packed(nodes, pos)
         IN  /\ tree' = [k \in Node |-> Only(n, s.buckets[k])]
             /\ stash' = Only(n, s.stash)
  BY <1>1 DEF setupInsert
<1>s. PICK s : s = Packed(nodes, pos)
  OBVIOUS
<1>3. tree' = [k \in Node |-> Only(n, s.buckets[k])] /\ stash' = Only(n, s.stash)
  BY <1>2, <1>s
<1>4. pos \in [Bid -> PRFLeaf] /\ pos' = pos /\ given' = n
  BY DEF IInv, setupInsert
<1>5. Blocks(q, pos)
  BY <1>4, BoxesAreBlocks
<1>6. SharedOut(q, pos, s.buckets, s.stash)
  BY <1>5, <1>s, PackedFact
<1>7. s.buckets \in [Node -> SUBSET q] /\ s.stash \subseteq q
  BY <1>6 DEF SharedOut
<1>8. BoxMaps(n)
  BY DEF BoxMaps
<1> QED
  BY <1>1, <1>3, <1>4, <1>6, <1>7, <1>8, IInvNext

\* A read returns what was written.
LEMMA ReadFact ==
    ASSUME IInv, NEW q, q \subseteq Bid, NEW b \in q
    PROVE  ReadData(q, b) = IF b \in DOMAIN given THEN given[b] ELSE Absent
<1>l. PICK leaves : leaves = {pos[c] : c \in {c \in q : c <= b}}
  OBVIOUS
<1>0. pos \in [Bid -> PRFLeaf]
  BY DEF IInv
<1>1. leaves \subseteq Leaf /\ pos[b] \in leaves
  <2>1. {c \in q : c <= b} \subseteq Bid
    OBVIOUS
  <2>2. b \in {c \in q : c <= b}
    BY PRFORAMAssumption
  <2> QED
    BY <1>0, <1>l, <2>1, <2>2, LeavesOf
<1>2. Fetched(leaves) \subseteq DOMAIN given /\ FetchPath(leaves) = Only(given, Fetched(leaves))
  BY <1>1, FetchFact
<1>m. PICK m : m = Only(given, Fetched(leaves))
  OBVIOUS
<1>3. DOMAIN m = Fetched(leaves) /\ \A c \in Fetched(leaves) : m[c] = given[c]
  BY <1>2, <1>m, OnlyFact
<1>4. ReadData(q, b) = IF b \in DOMAIN m THEN m[b] ELSE Absent
  BY <1>2, <1>l, <1>m DEF ReadData
<1>5. ASSUME b \in DOMAIN given PROVE b \in Fetched(leaves)
  <2>1. CASE b \in DOMAIN stash
    BY <2>1 DEF Fetched
  <2>2. CASE \E n \in Node : b \in DOMAIN tree[n]
    <3>1. PICK n \in Node : b \in DOMAIN tree[n]
      BY <2>2
    <3>2. n \in Path[pos[b]]
      BY <3>1, Places
    <3>3. n \in PathNodes(leaves)
      BY <1>1, <3>2, PathNodesFact
    <3>4. b \in Boxes(PathNodes(leaves))
      BY <3>1, <3>3 DEF Boxes
    <3> QED
      BY <3>4 DEF Fetched
  <2> QED
    BY <1>5, <2>1, <2>2, Places
<1> QED
  BY <1>2, <1>3, <1>4, <1>5

-----------------------------------------------------------------------------
(* The invariant is inductive.                                             *)

\* Nothing is stored yet.
LEMMA InitFact == Init => IInv
<1> SUFFICES ASSUME Init PROVE IInv
  OBVIOUS
<1>0. DOMAIN NoBoxes = {} /\ NoBoxes \in [{} -> Value]
  BY DEF NoBoxes
<1>1. Only(NoBoxes, {}) = NoBoxes
  BY DEF Only, NoBoxes
<1>2. /\ pos \in [Bid -> PRFLeaf]
      /\ given = NoBoxes /\ stash = NoBoxes
      /\ tree = [n \in Node |-> NoBoxes]
  BY DEF Init
<1>3. BoxMaps(given)
  BY <1>0, <1>2 DEF BoxMaps
<1>4. tree = [n \in Node |-> Only(given, DOMAIN tree[n])]
  BY <1>0, <1>1, <1>2
<1>5. stash = Only(given, DOMAIN stash)
  BY <1>0, <1>1, <1>2
<1>6. \A n \in Node : Lying[n] = {}
  BY <1>0, <1>2 DEF Lying
<1>7. Cardinality({}) <= Z
  BY BucketTreeAssumption, FS_EmptySet
<1>8. Lying \in [Node -> SUBSET {}]
  BY <1>6 DEF Lying
<1>9. DOMAIN given = {} /\ DOMAIN stash = {}
  BY <1>0, <1>2
<1>10. SharedOut({}, pos, Lying, {})
  BY <1>6, <1>7, <1>8 DEF SharedOut
<1> QED
  BY <1>2, <1>3, <1>4, <1>5, <1>9, <1>10 DEF IInv

\* The boxes n, of which none is stored yet, are written; for a batch and for
\* a single box.
LEMMA WriteFact ==
    ASSUME IInv, pos' = pos, NEW q, q \subseteq Fresh, NEW n \in [q -> Value],
           NEW leaves, leaves \subseteq Leaf,
           WritePath(Merged(FetchPath(leaves), n), leaves), given' = Merged(given, n)
    PROVE  IInv'
<1>g. PICK g : g = Merged(given, n)
  OBVIOUS
<1>1. DOMAIN n = q /\ q \subseteq Bid /\ q \cap DOMAIN given = {}
  BY DEF Fresh
<1>2. /\ DOMAIN g = DOMAIN given \cup q
      /\ \A b \in q : g[b] = n[b]
      /\ \A b \in DOMAIN given : g[b] = given[b]
  BY <1>1, <1>g DEF Merged
<1>3. BoxMaps(g)
  <2>1. DOMAIN given \subseteq Bid /\ \A b \in DOMAIN given : given[b] \in Value
    BY DEF IInv, BoxMaps
  <2>2. \A b \in DOMAIN g : g[b] \in Value
    BY <1>2, <2>1
  <2>3. g = [b \in DOMAIN g |-> g[b]]
    BY <1>g DEF Merged
  <2>4. g \in [DOMAIN g -> Value]
    BY <2>2, <2>3
  <2> QED
    BY <1>1, <1>2, <2>1, <2>4 DEF BoxMaps
<1>D. PICK D : D = Fetched(leaves) \cup (DOMAIN g \ DOMAIN given)
  OBVIOUS
<1>4. D = Fetched(leaves) \cup q
  BY <1>1, <1>2, <1>D
<1>5. Merged(FetchPath(leaves), n) = Only(g, D)
  <2>1. /\ Fetched(leaves) \subseteq DOMAIN given
        /\ FetchPath(leaves) = Only(given, Fetched(leaves))
    BY FetchFact
  <2>2. Merged(Only(given, Fetched(leaves)), n) = Only(Merged(given, n), Fetched(leaves) \cup DOMAIN n)
    BY <1>1, <2>1, AddedFact
  <2> QED
    BY <1>1, <1>4, <1>g, <2>1, <2>2
<1>6. WritePath(Only(g, D), leaves)
  BY <1>5
<1>7. given' = g /\ DOMAIN given \subseteq DOMAIN g
  BY <1>2, <1>g
<1> QED
  BY <1>2, <1>3, <1>6, <1>7, <1>D, WritePathFact

\* A batch of reads moves boxes between the stash and the buckets.
LEMMA BatchReadFact ==
    ASSUME IInv, NEW q, q \subseteq Bid, batchRead(q)
    PROVE  IInv'
<1>l. PICK leaves : leaves = {pos[b] : b \in q}
  OBVIOUS
<1>1. leaves \subseteq Leaf
  BY <1>l, LeavesOf DEF IInv
<1>g. PICK g : g = given
  OBVIOUS
<1>D. PICK D : D = Fetched(leaves)
  OBVIOUS
<1>2. pos' = pos /\ given' = given /\ WritePath(FetchPath(leaves), leaves)
  BY <1>l DEF batchRead
<1>3. FetchPath(leaves) = Only(g, D)
  BY <1>1, <1>D, <1>g, FetchFact
<1>4. WritePath(Only(g, D), leaves)
  BY <1>2, <1>3
<1>5. D = Fetched(leaves) \cup (DOMAIN g \ DOMAIN given)
  BY <1>D, <1>g
<1>6. BoxMaps(g)
  BY <1>g DEF IInv
<1> QED
  BY <1>1, <1>2, <1>4, <1>5, <1>6, <1>g, WritePathFact

\* A step that moves nothing.
LEMMA StillFact ==
    ASSUME IInv, UNCHANGED <<pos, tree, stash, given>>
    PROVE  IInv'
<1>1. Lying' = Lying
  BY DEF Lying
<1> QED
  BY <1>1 DEF IInv, BoxMaps

\* Every operation keeps the invariant.
LEMMA NextFact == IInv /\ [Next]_vars => IInv'
<1> SUFFICES ASSUME IInv, [Next]_vars PROVE IInv'
  OBVIOUS
<1>0. pos \in [Bid -> PRFLeaf]
  BY DEF IInv
<1>1. ASSUME NEW b \in Fresh, NEW v \in Value, WriteBox(b, v) PROVE IInv'
  <2>1. CASE emptyNodes = 0
    BY <1>1, <2>1, StillFact DEF WriteBox
  <2>2. CASE emptyNodes # 0
    <3>n. PICK n : n = [c \in {b} |-> v]
      OBVIOUS
    <3>1. n \in [{b} -> Value] /\ {b} \subseteq Fresh
      BY <3>n
    <3>2. {pos[b]} \subseteq Leaf
      BY <1>0, LeavesFact DEF Fresh
    <3>3. /\ WritePath(Merged(FetchPath({pos[b]}), n), {pos[b]})
          /\ given' = Merged(given, n) /\ pos' = pos
      BY <1>1, <2>2, <3>n DEF WriteBox
    <3> QED
      BY <3>1, <3>2, <3>3, WriteFact
  <2> QED
    BY <2>1, <2>2
<1>2. ASSUME NEW q \in Batch, batchRead(q) PROVE IInv'
  BY <1>2, BatchReadFact DEF Batch
<1>3. ASSUME NEW q \in SUBSET Fresh, NEW n \in [q -> Value], batchWrite(n) PROVE IInv'
  <2>1. CASE emptyNodes < Cardinality(DOMAIN n)
    BY <1>3, <2>1, StillFact DEF batchWrite
  <2>2. CASE ~(emptyNodes < Cardinality(DOMAIN n))
    <3>l. PICK leaves : leaves = {pos[b] : b \in q}
      OBVIOUS
    <3>1. DOMAIN n = q /\ q \subseteq Bid
      BY DEF Fresh
    <3>2. leaves \subseteq Leaf
      BY <1>0, <3>1, <3>l, LeavesOf
    <3>3. /\ WritePath(Merged(FetchPath(leaves), n), leaves)
          /\ given' = Merged(given, n) /\ pos' = pos
      BY <1>3, <2>2, <3>1, <3>l DEF batchWrite
    <3> QED
      BY <3>2, <3>3, WriteFact
  <2> QED
    BY <2>1, <2>2
<1>4. ASSUME NEW q \in SUBSET Bid, NEW n \in [q -> Value], setupInsert(n) PROVE IInv'
  BY <1>4, SetupFact
<1>5. CASE UNCHANGED vars
  BY <1>5, StillFact DEF vars
<1> QED
  BY <1>1, <1>2, <1>3, <1>4, <1>5 DEF Next

-----------------------------------------------------------------------------
(* The theorems.                                                           *)

\* At any time the boxes given so far are shared out to the buckets and the
\* stash, with their values.
LEMMA SharedAlways == Spec => []IInv
<1>1. Init => IInv
  BY InitFact
<1>2. IInv /\ [Next]_vars => IInv'
  BY NextFact
<1> QED
  BY <1>1, <1>2, PTL DEF Spec

NothingYet == setup => DOMAIN given = {}

\* The setup phase is over with the first operation.
LEMMA SetupFirst == Spec => []NothingYet
<1>1. Init => NothingYet
  BY DEF Init, NothingYet, NoBoxes
<1>2. NothingYet /\ [Next]_vars => NothingYet'
  <2> SUFFICES ASSUME NothingYet, [Next]_vars PROVE NothingYet'
    OBVIOUS
  <2>1. ~setup' \/ UNCHANGED vars
    BY DEF Next, WriteBox, batchRead, batchWrite, setupInsert
  <2> QED
    BY <2>1 DEF NothingYet, vars
<1> QED
  BY <1>1, <1>2, PTL DEF Spec

(***************************************************************************)
(* A box lies in one place, the stash or one bucket on the path to its     *)
(* leaf, and no bucket holds more than Z boxes: however FetchPath and      *)
(* WritePath of PRFORAM.cpp move the boxes, and however setupInsert packs  *)
(* them.                                                                   *)
(***************************************************************************)
THEOREM OneBoxOnePlace == Spec => []OnePlace
<1>1. IInv => OnePlace
  <2> SUFFICES ASSUME IInv, NEW n \in Node
               PROVE  /\ Cardinality(DOMAIN tree[n]) <= Z
                      /\ \A b \in DOMAIN tree[n] :
                            /\ n \in PathNodes({pos[b]})
                            /\ b \notin DOMAIN stash
                            /\ \A k \in Node \ {n} : b \notin DOMAIN tree[k]
    BY DEF OnePlace
  <2>1. ASSUME NEW b \in DOMAIN tree[n] PROVE n \in PathNodes({pos[b]})
    <3>1. n \in Path[pos[b]] /\ b \in Bid
      BY Places
    <3>2. {pos[b]} \subseteq Leaf
      BY <3>1, LeavesFact DEF IInv
    <3> QED
      BY <3>1, <3>2, PathNodesFact
  <2> QED
    BY <2>1, Places
<1> QED
  BY <1>1, SharedAlways, PTL

\* -1 stands for the stash and is no bucket.
LEMMA NoNode == -1 \notin Node
<1>1. depth + 1 \in Nat
  BY BucketTreeAssumption
<1>2. 2 ^ (depth + 1) \in Nat \ {0}
  BY <1>1, PowerType
<1> QED
  BY <1>2 DEF Node

(***************************************************************************)
(* No box is lost and none returns to an old value: buckets and stash      *)
(* together hold what was written, also the boxes for which WritePath or   *)
(* setupInsert found no room in a bucket.                                  *)
(***************************************************************************)
THEOREM BoxesKept == Spec => []NothingLost
<1>1. IInv => NothingLost
  <2> SUFFICES ASSUME IInv PROVE Contents = given
    BY DEF NothingLost
  <2> DEFINE all == Boxes(Node) \cup DOMAIN stash
             at(b) == CHOOSE n \in DOMAIN Everywhere : b \in DOMAIN Everywhere[n]
  <2>1. /\ DOMAIN Everywhere = Node \cup {-1}
        /\ Everywhere[-1] = stash
        /\ \A n \in Node : Everywhere[n] = tree[n]
    BY NoNode DEF Everywhere
  <2>2. all = DOMAIN given
    <3>1. ASSUME NEW b PROVE b \in Boxes(Node) <=> \E n \in Node : b \in DOMAIN tree[n]
      BY DEF Boxes
    <3> QED
      BY <3>1, Places
  <2>3. ASSUME NEW b \in DOMAIN given PROVE Everywhere[at(b)][b] = given[b]
    <3>1. \E n \in DOMAIN Everywhere : b \in DOMAIN Everywhere[n]
      BY <2>1, Places
    <3>2. PICK n : n = at(b)
      OBVIOUS
    <3>3. n \in Node \cup {-1} /\ b \in DOMAIN Everywhere[n]
      BY <2>1, <3>1, <3>2
    <3>4. Everywhere[n][b] = given[b]
      <4>1. CASE n = -1
        BY <2>1, <3>3, <4>1, Places
      <4>2. CASE n \in Node
        BY <2>1, <3>3, <4>2, Places
      <4> QED
        BY <3>3, <4>1, <4>2
    <3> QED
      BY <3>2, <3>4
  <2>4. Contents = [b \in all |-> Everywhere[at(b)][b]]
    BY DEF Contents
  <2>5. given = [b \in DOMAIN given |-> given[b]]
    BY DEF IInv, BoxMaps
  <2> HIDE DEF all, at
  <2> QED
    BY <2>2, <2>3, <2>4, <2>5
<1> QED
  BY <1>1, SharedAlways, PTL

(***************************************************************************)
(* PRFORAM implements BoxMap: batchRead returns, for each of its boxes,    *)
(* what was written, or Absent; WriteBox, batchWrite and setupInsert only  *)
(* add boxes, and those whose exception ends the program change nothing.   *)
(***************************************************************************)
THEOREM Refinement == Spec => RefinesMap
<1>1. Init => Map!AInit
  BY DEF Init, Map!AInit, NoBoxes
<1>2. ASSUME IInv, IInv', NothingYet, [Next]_vars PROVE [Map!ANext]_(Map!avars)
  <2>t. /\ DOMAIN given' \subseteq Bid
        /\ given' \in [DOMAIN given' -> Value]
    BY <1>2 DEF IInv, BoxMaps
  <2>w. ASSUME DOMAIN given \subseteq DOMAIN given', UNCHANGED answer PROVE Map!AWrite
    BY <2>t, <2>w DEF Map!AWrite
  <2>m. ASSUME NEW n PROVE DOMAIN given \subseteq DOMAIN Merged(given, n)
    BY MergedFact
  <2>1. ASSUME NEW b \in Fresh, NEW v \in Value, WriteBox(b, v)
        PROVE  Map!AWrite \/ UNCHANGED Map!avars
    <3>1. CASE emptyNodes = 0
      BY <2>1, <3>1 DEF WriteBox, Map!avars
    <3>2. CASE emptyNodes # 0
      BY <2>1, <2>m, <2>w, <3>2 DEF WriteBox
    <3> QED
      BY <3>1, <3>2
  <2>2. ASSUME NEW q \in Batch, batchRead(q) PROVE Map!ARead
    <3>1. q \subseteq Bid
      BY DEF Batch
    <3>2. answer' = [b \in q |-> ReadData(q, b)] /\ given' = given
      BY <2>2 DEF batchRead
    <3>3. answer' = [b \in q |-> IF b \in DOMAIN given THEN given[b] ELSE Absent]
      BY <1>2, <3>1, <3>2, ReadFact
    <3>4. DOMAIN answer' = q
      BY <3>3
    <3> QED
      BY <3>1, <3>2, <3>3, <3>4 DEF Map!ARead, Map!ValueOf
  <2>3. ASSUME NEW q \in SUBSET Fresh, NEW n \in [q -> Value], batchWrite(n)
        PROVE  Map!AWrite \/ UNCHANGED Map!avars
    <3>1. CASE emptyNodes < Cardinality(DOMAIN n)
      BY <2>3, <3>1 DEF batchWrite, Map!avars
    <3>2. CASE ~(emptyNodes < Cardinality(DOMAIN n))
      BY <2>3, <2>m, <2>w, <3>2 DEF batchWrite
    <3> QED
      BY <3>1, <3>2
  <2>4. ASSUME NEW q \in SUBSET Bid, NEW n \in [q -> Value], setupInsert(n)
        PROVE  Map!AWrite
    <3>1. DOMAIN given = {} /\ UNCHANGED answer
      BY <1>2, <2>4 DEF NothingYet, setupInsert
    <3> QED
      BY <2>w, <3>1
  <2>5. CASE UNCHANGED vars
    BY <2>5 DEF vars, Map!avars
  <2> QED
    BY <1>2, <2>1, <2>2, <2>3, <2>4, <2>5 DEF Next, Map!ANext
<1> QED
  BY <1>1, <1>2, SharedAlways, SetupFirst, PTL DEF Spec, RefinesMap, Map!ASpec
=============================================================================
