-------------------------------- MODULE ORAM --------------------------------
(***************************************************************************)
(* The Path ORAM under the oblivious map (src/src/mitra/ORAM.cpp, with     *)
(* copies in qos, static and horus).  Its blocks are the nodes of an AVL   *)
(* tree; each lies in a bucket on the path to its leaf pos or in the       *)
(* cache, and its position is known only to its parent, which records it   *)
(* beside the identifier of the child.                                     *)
(*                                                                         *)
(* An operation of the map works on a session s: the buckets as they are   *)
(* at the server, the cache, the leaves to write back, the blocks whose    *)
(* position must change, and the number of paths read so far.  ended is    *)
(* "lost" when a block was not where it was looked for (the code then      *)
(* dereferences a null pointer or throws) and "full" when the store has no *)
(* free block for a new one: both end the program.                         *)
(*                                                                         *)
(* What the copies do differently is in the session too: maxHeight is the  *)
(* height up to which finilize counts; blocks with a Stamp up to dummy are *)
(* dead (static: the number of the merge in the last bytes of the          *)
(* identifier); free counts the blocks that may still be made (horus).     *)
(*                                                                         *)
(* readviewmap only saves reading a bucket twice in a session, which would *)
(* add nothing to the cache; encryption and layout are left out.           *)
(***************************************************************************)
EXTENDS BucketTree

CONSTANTS Stamp  \* Stamp[b]: the last four bytes of identifier b

\* The values of dummy and free in the copies that have no such thing.
AllLive == -1

Uncounted == -1

Side == {"left", "right"}

Keys(S) == {x.key : x \in S}

\* The block of S with the given key, and S with x in place of its namesake.
BlockOf(S, b) == CHOOSE x \in S : x.key = b

With(S, x) == {y \in S : y.key # x.key} \cup {x}

\* floor(log2(blockCount)) + 1, the height finilize counts up to.
maxHeightOfAVLTree ==
    CHOOSE h \in 1 .. blockCount + 1 : 2 ^ (h - 1) <= blockCount /\ blockCount < 2 ^ h

Session(tree, cache, maxHeight, dummy, free) ==
    [tree |-> tree, cache |-> cache, leafList |-> {}, modified |-> {}, readCnt |-> 0,
     batchWrite |-> FALSE, ended |-> "no", maxHeight |-> maxHeight, dummy |-> dummy,
     free |-> free]

Ended(s, how) == [s EXCEPT !.ended = how]

\* The blocks of the path, of which the dead ones are dropped.
OnPath(s, leaf) == {x \in UNION {s.tree[n] : n \in Path[leaf]} : Stamp[x.key] > s.dummy}

\* The blocks of the path join the cache; one that is there keeps its state.
FetchPath(s, leaf) ==
    LET found == OnPath(s, leaf)
        new   == Keys(found) \ Keys(s.cache)
    IN  [s EXCEPT !.cache = @ \cup {BlockOf(found, b) : b \in new},
                  !.readCnt = @ + 1]

\* Access: the block is in the cache now, or it is nowhere to be found.
Access(s, bid, leaf) ==
    IF bid \notin Keys(s.cache) THEN Ended(s, "lost")
    ELSE [s EXCEPT !.cache = With(@, [BlockOf(@, bid) EXCEPT !.pos = leaf]),
                   !.leafList = @ \cup {leaf},
                   !.modified = @ \cup {bid}]

(***************************************************************************)
(* ReadNode with lastLeaf = newLeaf, as all its callers have it.           *)
(***************************************************************************)
ReadNode(s, bid, leaf) ==
    IF s.ended # "no" \/ bid = 0 THEN s
    ELSE Access(IF bid \in Keys(s.cache) /\ leaf \in s.leafList THEN s
                                                              ELSE FetchPath(s, leaf),
                bid, leaf)

\* Mutant: the last free block is refused.
WriteDataEarly(s, node) ==
    IF s.free \in 0 .. 1 THEN Ended(s, "full")
    ELSE [s EXCEPT !.cache = With(@, node),
                   !.free = IF @ = Uncounted THEN @ ELSE @ - 1]

\* Where blocks are counted, a new one needs a free one.
WriteData(s, node) ==
    IF s.free = 0 THEN Ended(s, "full")
    ELSE [s EXCEPT !.cache = With(@, node),
                   !.free = IF @ = Uncounted THEN @ ELSE @ - 1]

\* WriteNode of a new node; what is in the cache is not replaced.  In a batch of
\* insertions the path that will be written back is not fetched.
WriteNode(s, node) ==
    IF node.key \in Keys(s.cache)
    THEN [s EXCEPT !.modified = @ \cup {node.key}]
    ELSE LET t == IF s.batchWrite THEN s ELSE FetchPath(s, node.pos)
         IN  [WriteData(t, node) EXCEPT !.leafList = @ \cup {node.pos},
                                        !.modified = @ \cup {node.key}]

(***************************************************************************)
(* finilize.  First come fake reads, up to 1.45 paths per level of the     *)
(* tree in all for a look-up and 4.35 for an insertion, none for a batch   *)
(* of insertions.                                                          *)
(***************************************************************************)
FakeReads(s, find) ==
    LET total == ((IF find THEN 145 ELSE 435) * depth + 99) \div 100
    IN  IF s.readCnt < total /\ ~s.batchWrite THEN total - s.readCnt ELSE 0

\* Mutant: the paths of the fake reads are not written back.
PaddedUnlisted(s, fakes) == FoldSet(LAMBDA l, t : FetchPath(t, l), s, fakes)

\* The session after the fake reads of the given leaves.
Padded(s, fakes) ==
    LET t == FoldSet(LAMBDA l, u : FetchPath(u, l), s, fakes)
    IN  [t EXCEPT !.leafList = @ \cup fakes]

\* The blocks that get a new leaf: those the loop over the heights reaches.
Moving(s) ==
    {b \in s.modified : BlockOf(s.cache, b).height <= s.maxHeight}

(***************************************************************************)
(* The loop over the heights: a modified block gets its new leaf, and a    *)
(* parent records the leaves of its children, which are lower and have     *)
(* theirs already.                                                         *)
(***************************************************************************)
Repositioned(s, new) ==
    LET keys     == Keys(s.cache)
        pos(x)   == IF x.key \in DOMAIN new THEN new[x.key] ELSE x.pos
        at(x, d) == IF x.id[d] \in keys THEN pos(BlockOf(s.cache, x.id[d])) ELSE x.at[d]
    IN  {IF x.height > s.maxHeight THEN x
         ELSE [x EXCEPT !.pos = pos(x),
                        !.at = [left |-> at(x, "left"), right |-> at(x, "right")]] :
            x \in s.cache}

\* The buckets and the cache after the paths of the session are written.
Written(s, cache) ==
    LET nodes == PathNodes(s.leafList)
        w     == WriteBack(Keys(cache), [b \in Keys(cache) |-> BlockOf(cache, b).pos], nodes)
    IN  [tree  |-> [n \in Node |-> IF n \in nodes
                                   THEN {x \in cache : x.key \in w.bucket[n]}
                                   ELSE s.tree[n]],
         cache |-> {x \in cache : x.key \in w.rest}]
=============================================================================
