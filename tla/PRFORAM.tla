------------------------------ MODULE PRFORAM ------------------------------
(***************************************************************************)
(* The Path ORAM of the Horus scheme (src/src/horus/PRFORAM.cpp), whose    *)
(* positions are not random but a pseudo-random function of the box's      *)
(* identifier, fixed for ever.  The boxes lie in a tree of buckets of Z    *)
(* boxes, each on the path from the root to its leaf, or in the client's   *)
(* stash.  An operation fetches the paths of the boxes it is about into    *)
(* the stash and then writes these paths back, filling the buckets from    *)
(* the leaves up, each with the first Z boxes, by identifier, that may lie *)
(* there.  setupInsert packs all boxes of the setup phase at once.         *)
(*                                                                         *)
(* The exception of a full store is caught by nobody and ends the program. *)
(* Encryption and the layout of a bucket are left out.                     *)
(*                                                                         *)
(* Bounds of the model: MaxBatch caps the boxes of a batch.                *)
(***************************************************************************)
EXTENDS BucketTree

CONSTANTS Bid,      \* identifiers of boxes, numbered in their order
          Value,    \* their values
          Absent,   \* what a read of a missing box returns
          MaxBatch  \* bound on the boxes of a batch

ASSUME PRFORAMAssumption ==
    /\ Bid \subseteq Nat /\ IsFiniteSet(Bid)
    /\ Absent \notin Value

VARIABLES pos,         \* pos[b]: the leaf of box b, chosen once by the PRF
          tree,        \* tree[n]: bucket n, identifier -> value
          stash,       \* the same, for the boxes at the client
          emptyNodes,  \* the store's count of free blocks
          setup,       \* TRUE until the first operation
          thrown,      \* the exception of a full store was thrown
          given,       \* all boxes written so far (the caller's view)
          answer       \* what the last batchRead returned

vars == <<pos, tree, stash, emptyNodes, setup, thrown, given, answer>>

\* Horus::generatePosition reduces modulo 2^depth - 1/2, rounded down: the
\* last leaf is never used.
PRFLeaf == 0 .. 2 ^ depth - 2

NoBoxes == [b \in {} |-> Absent]

Only(m, S) == [b \in DOMAIN m \cap S |-> m[b]]

\* The map m with the boxes of n put into it.
Merged(m, n) ==
    [b \in DOMAIN m \cup DOMAIN n |-> IF b \in DOMAIN n THEN n[b] ELSE m[b]]

Init ==
    /\ pos \in [Bid -> PRFLeaf]
    /\ tree = [n \in Node |-> NoBoxes]
    /\ stash = NoBoxes
    /\ emptyNodes = blockCount
    /\ setup = TRUE
    /\ thrown = FALSE
    /\ given = NoBoxes
    /\ answer = NoBoxes

(***************************************************************************)
(* FetchPath: the boxes of the given buckets join the stash; one that is   *)
(* already there keeps its value.                                          *)
(***************************************************************************)
Boxes(nodes) == UNION {DOMAIN tree[n] : n \in nodes}

FetchPath(leaves) ==
    LET nodes == PathNodes(leaves)
        new   == Boxes(nodes) \ DOMAIN stash
    IN  Merged(stash, [b \in new |-> tree[CHOOSE n \in nodes : b \in DOMAIN tree[n]][b]])

(***************************************************************************)
(* WritePath for all depths: the paths of the leaves take what they can of *)
(* the boxes m, the rest is the stash.                                     *)
(***************************************************************************)
WritePath(m, leaves) ==
    LET nodes == PathNodes(leaves)
        w     == WriteBack(DOMAIN m, pos, nodes)
    IN  /\ stash' = Only(m, w.rest)
        /\ tree' = [n \in Node |-> IF n \in nodes THEN Only(m, w.bucket[n]) ELSE tree[n]]

(***************************************************************************)
(* WriteBox.  WriteData throws when emptyNodes is 0, and lowers it         *)
(* otherwise.                                                              *)
(***************************************************************************)
WriteBox(b, v) ==
    /\ ~thrown
    /\ setup' = FALSE
    /\ IF emptyNodes = 0
       THEN thrown' = TRUE /\ UNCHANGED <<tree, stash, emptyNodes, given>>
       ELSE /\ WritePath(Merged(FetchPath({pos[b]}), [c \in {b} |-> v]), {pos[b]})
            /\ emptyNodes' = emptyNodes - 1
            /\ given' = Merged(given, [c \in {b} |-> v])
            /\ UNCHANGED thrown
    /\ UNCHANGED <<pos, answer>>

(***************************************************************************)
(* batchRead.  The query is in the order of the slots, which lead the      *)
(* identifiers; a box is looked up once its path and those before it are   *)
(* fetched.  (The test of stash.count(pos) compares a leaf with box        *)
(* identifiers and is never true.)                                         *)
(***************************************************************************)
\* Mutant: a box is looked up before its path is fetched.
ReadDataEarly(q, b) ==
    LET m == FetchPath({pos[c] : c \in {c \in q : c < b}})
    IN  IF b \in DOMAIN m THEN m[b] ELSE Absent

ReadData(q, b) ==
    LET m == FetchPath({pos[c] : c \in {c \in q : c <= b}})
    IN  IF b \in DOMAIN m THEN m[b] ELSE Absent

\* Mutant: only the path of the last box is written back.
batchReadOneLeaf(q) ==
    /\ ~thrown
    /\ setup' = FALSE
    /\ answer' = [b \in q |-> ReadData(q, b)]
    /\ WritePath(FetchPath({pos[b] : b \in q}), {pos[Max(q)]})
    /\ UNCHANGED <<pos, emptyNodes, thrown, given>>

batchRead(q) ==
    /\ ~thrown
    /\ setup' = FALSE
    /\ answer' = [b \in q |-> ReadData(q, b)]
    /\ WritePath(FetchPath({pos[b] : b \in q}), {pos[b] : b \in q})
    /\ UNCHANGED <<pos, emptyNodes, thrown, given>>

batchWrite(n) ==
    LET leaves == {pos[b] : b \in DOMAIN n}
    IN  /\ ~thrown
        /\ setup' = FALSE
        /\ IF emptyNodes < Cardinality(DOMAIN n)
           THEN thrown' = TRUE /\ UNCHANGED <<tree, stash, emptyNodes, given>>
           ELSE /\ WritePath(Merged(FetchPath(leaves), n), leaves)
                /\ emptyNodes' = emptyNodes - Cardinality(DOMAIN n)
                /\ given' = Merged(given, n)
                /\ UNCHANGED thrown
        /\ UNCHANGED <<pos, answer>>

(***************************************************************************)
(* setupInsert packs the boxes into the empty buckets.                     *)
(***************************************************************************)
setupInsert(n) ==
    /\ setup
    /\ setup' = FALSE
    /\ \E nodes \in Sorted(DOMAIN n, pos) :
          LET s == Packed(nodes, pos)
          IN  /\ tree' = [k \in Node |-> Only(n, s.buckets[k])]
              /\ stash' = Only(n, s.stash)
    /\ given' = n
    /\ UNCHANGED <<pos, emptyNodes, thrown, answer>>

Batch == {q \in SUBSET Bid : q # {} /\ Cardinality(q) <= MaxBatch}

\* Horus writes no box twice (Horus!BoxesWrittenOnce).
Fresh == Bid \ DOMAIN given

Next ==
    \/ \E b \in Fresh, v \in Value : WriteBox(b, v)
    \/ \E q \in Batch : batchRead(q)
    \/ \E q \in Batch \cap SUBSET Fresh : \E n \in [q -> Value] : batchWrite(n)
    \/ \E q \in SUBSET Bid \ {{}} : \E n \in [q -> Value] : setupInsert(n)

Spec == Init /\ [][Next]_vars
-----------------------------------------------------------------------------
(***************************************************************************)
(* A box lies in one place: in the stash or in one bucket, and that one on *)
(* the path to its leaf.  A second copy, left behind in a bucket that was  *)
(* fetched and not written back, would return an old value later.  No      *)
(* bucket holds more than Z boxes, neither after WritePath nor after the   *)
(* packing of setupInsert, which fills a bucket in several passes.         *)
(***************************************************************************)
OnePlace ==
    \A n \in Node :
        /\ Cardinality(DOMAIN tree[n]) <= Z
        /\ \A b \in DOMAIN tree[n] :
              /\ n \in PathNodes({pos[b]})
              /\ b \notin DOMAIN stash
              /\ \A k \in Node \ {n} : b \notin DOMAIN tree[k]

Everywhere == [n \in Node \cup {-1} |-> IF n = -1 THEN stash ELSE tree[n]]

\* All boxes, wherever they lie.
Contents ==
    LET all == Boxes(Node) \cup DOMAIN stash
    IN  [b \in all |-> Everywhere[CHOOSE n \in DOMAIN Everywhere :
                                     b \in DOMAIN Everywhere[n]][b]]

(***************************************************************************)
(* Nothing is lost: the buckets and the stash together hold every box that *)
(* was written, with its value, also those that setupInsert found no room  *)
(* for and those that WritePath pushed back into the stash.                *)
(***************************************************************************)
NothingLost == Contents = given

Map == INSTANCE BoxMap WITH contents <- given

(***************************************************************************)
(* PRFORAM implements a map: a batch of reads, wherever its boxes lie and  *)
(* whatever it moves between stash and buckets, returns what was written.  *)
(***************************************************************************)
RefinesMap == Map!ASpec
=============================================================================
