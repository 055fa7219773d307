----------------------------- MODULE BucketTree -----------------------------
(***************************************************************************)
(* The tree of buckets of the repository's Path ORAMs.  ORAM.cpp (one copy *)
(* per scheme) and horus/PRFORAM.cpp have the same code for it: which      *)
(* bucket lies where on a path, how a path is written back, and how the    *)
(* blocks of the setup phase are packed.  Blocks are known here by their   *)
(* identifiers and their leaves, pos[b].                                   *)
(***************************************************************************)
EXTENDS Integers, FiniteSets, FiniteSetsExt, Sequences, Functions

CONSTANTS depth,  \* depth of the tree, the root has depth 0
          Z       \* blocks per bucket (4 in the code)

ASSUME BucketTreeAssumption == depth \in Nat /\ Z \in Nat \ {0}

Node == 0 .. 2 ^ (depth + 1) - 2

blockCount == Z * (2 ^ (depth + 1) - 1)

\* Halving leaf + 1 once per level, as the loop does.
GetNodeOnPath(leaf, d) == (leaf + 2 ^ depth) \div 2 ^ (depth - d) - 1

Leaf == 0 .. 2 ^ depth - 1

Path == [l \in Leaf |-> {GetNodeOnPath(l, d) : d \in 0 .. depth}]

PathNodes(leaves) == UNION {Path[l] : l \in leaves}

DepthOf == [n \in Node |-> CHOOSE d \in 0 .. depth : n \in 2 ^ d - 1 .. 2 ^ (d + 1) - 2]

\* The first k identifiers of S in their order.
First(k, S) == {b \in S : Cardinality({c \in S : c < b}) < k}

\* The blocks of S to go into bucket n.
GetIntersectingBlocks(S, pos, n) == First(Z, {b \in S : n \in Path[pos[b]]})

(***************************************************************************)
(* WritePath writes the given buckets, each once, leaves first.  At depth  *)
(* d, each bucket gets what it can of u.rest, the blocks still to place.   *)
(***************************************************************************)
WriteLevel(u, pos, nodes, d) ==
    LET into == [n \in {n \in nodes : DepthOf[n] = d} |->
                    GetIntersectingBlocks(u.rest, pos, n)]
    IN  [rest   |-> u.rest \ UNION {into[n] : n \in DOMAIN into},
         bucket |-> [n \in Node |-> IF n \in DOMAIN into THEN into[n] ELSE u.bucket[n]]]

\* After the depths d .. depth.
WrittenFrom(S, pos, nodes) ==
    LET Up[d \in 0 .. depth + 1] ==
            IF d = depth + 1 THEN [rest |-> S, bucket |-> [n \in Node |-> {}]]
            ELSE WriteLevel(Up[d + 1], pos, nodes, d)
    IN  Up

\* Which of the blocks S each bucket gets, and the rest, for which no bucket
\* had room.
WriteBack(S, pos, nodes) == WrittenFrom(S, pos, nodes)[0]

(***************************************************************************)
(* The packing of setupInsert.  nodes are the blocks sorted by leaf, equal *)
(* leaves in any order.  One pass of the loop hands the blocks of the      *)
(* current leaf out to the buckets of its path, from the leaf up; if a     *)
(* bucket was full, the next block, of whatever leaf, goes to the stash.   *)
(***************************************************************************)

\* The blocks with the lowest leaf.
Lowest(T, pos) == {b \in T : \A c \in T : pos[b] <= pos[c]}

\* The first k of the sorted blocks, in any order of equal leaves.
SortedPrefixes(S, pos) ==
    LET F[k \in 0 .. Cardinality(S)] ==
            IF k = 0 THEN {<<>>}
            ELSE UNION {{Append(f, b) : b \in Lowest(S \ Range(f), pos)} : f \in F[k - 1]}
    IN  F

Sorted(S, pos) == SortedPrefixes(S, pos)[Cardinality(S)]

\* How many blocks from the i-th on have the leaf of the i-th, s.curPos.
SameLeaf(nodes, pos, s) ==
    Cardinality({k \in s.i .. Len(nodes) : pos[nodes[k]] = s.curPos})

\* The bucket of depth d takes what it has room for.
Fill(nodes, pos, s, d) ==
    LET n == GetNodeOnPath(s.curPos, d)
        k == Min({Z - Cardinality(s.buckets[n]), SameLeaf(nodes, pos, s)})
    IN  IF SameLeaf(nodes, pos, s) = 0 THEN s
        ELSE [s EXCEPT !.buckets[n] = @ \cup {nodes[j] : j \in s.i .. s.i + k - 1},
                       !.i = @ + k,
                       !.cannotInsert = @ \/ k = 0]

\* Mutant: the block that did not fit is skipped.
OverflowLost(nodes, pos, s) ==
    LET i == IF s.cannotInsert THEN s.i + 1 ELSE s.i
    IN  IF s.i > Len(nodes) THEN s
        ELSE [s EXCEPT !.i = i,
                       !.cannotInsert = FALSE,
                       !.curPos = IF i <= Len(nodes) THEN pos[nodes[i]] ELSE @]

\* The end of a pass.
Overflow(nodes, pos, s) ==
    LET i == IF s.cannotInsert THEN s.i + 1 ELSE s.i
    IN  IF s.i > Len(nodes) THEN s
        ELSE [s EXCEPT !.stash = IF s.cannotInsert THEN @ \cup {nodes[s.i]} ELSE @,
                       !.i = i,
                       !.cannotInsert = FALSE,
                       !.curPos = IF i <= Len(nodes) THEN pos[nodes[i]] ELSE @]

\* The inner loop of a pass, after the depths d .. depth.
FilledFrom(nodes, pos, s) ==
    LET Up[d \in 0 .. depth + 1] ==
            IF d = depth + 1 THEN s ELSE Fill(nodes, pos, Up[d + 1], d)
    IN  Up

Pass(nodes, pos, s) == Overflow(nodes, pos, FilledFrom(nodes, pos, s)[0])

\* After p passes; each places a block, so that there are at most as many
\* passes as blocks.
Passes(nodes, pos) ==
    LET After[p \in 0 .. Len(nodes)] ==
            IF p = 0
            THEN [i |-> 1, curPos |-> IF nodes = <<>> THEN 0 ELSE pos[nodes[1]],
                  cannotInsert |-> FALSE,
                  buckets |-> [n \in Node |-> {}], stash |-> {}]
            ELSE LET s == After[p - 1]
                 IN  IF s.i > Len(nodes) THEN s ELSE Pass(nodes, pos, s)
    IN  After

Packed(nodes, pos) == Passes(nodes, pos)[Len(nodes)]
=============================================================================
