----------------------------- MODULE StaticOMAP -----------------------------
(***************************************************************************)
(* The oblivious map of the de-amortized scheme (src/src/static/OMAP.cpp   *)
(* over AVLTree.cpp and ORAM.cpp).  A merge into a level counts the        *)
(* entries of its keywords under identifiers that end with the number of   *)
(* the merge, the Stamp.  setDummy ends a merge: its blocks are not        *)
(* removed, but dead from then on, wherever they lie.                      *)
(***************************************************************************)
EXTENDS OMAP

Init == copy = "static" /\ dummyValue = 0 /\ New(Uncounted)

start == Session(tree, cache, maxHeightOfAVLTree, dummyValue, Uncounted)

finilize(s, root, find) == Finalized(s, root, FakeReads(s, find))

\* A dead root is an empty tree.
search(key) == Walk(start, rootKey, rootPos, key)

find(key) ==
    LET w == Sought(search(key))
    IN  /\ Operates
        /\ \/ Fails(w.s)
           \/ /\ IF rootKey = 0 THEN UNCHANGED <<stored, ended>>
                                ELSE finilize(w.s, rootKey, TRUE)
              /\ Answers(key, Result(w, key))
              /\ UNCHANGED given

\* Where the walk ended at a dead node, the new one takes its place.
insert(w, key, text) == {Inserted(w, key, text, leaf) : leaf \in NewLeaf(w, key)}

Insert(key, v) ==
    /\ Operates
    /\ \E c \in insert(search(key), key, Text(v)) :
          \/ Fails(c.s)
          \/ /\ finilize(c.s, c.top, FALSE)
             /\ Writes(key, v)
             /\ UNCHANGED answer

\* AVLTree::incrementCnt at the node of the key.
incrementCnt(s, key) == Valued(s, key, to_string[stoi(TextOf(s, key)) + 1])

\* A missing key is inserted with 1, and the result is empty.
IncrementCnt(key) ==
    LET w == search(key)
    IN  /\ Operates
        /\ IF w.s.ended = "no" /\ Found(w, key)
           THEN LET v == <<given[key][1] + 1>>
                IN  /\ v \in Values[copy][key]
                    /\ finilize(incrementCnt(w.s, key), rootKey, FALSE)
                    /\ Writes(key, v)
                    /\ Answers(key, Result(w, key))
           ELSE \E c \in insert(w, key, Text(<<1>>)) :
                   \/ Fails(c.s)
                   \/ /\ finilize(c.s, c.top, FALSE)
                      /\ Writes(key, <<1>>)
                      /\ Answers(key, Absent)

\* The keys of v that are alive.
LiveIn(v) == [b \in {b \in DOMAIN v : Stamp[b] > dummyValue} |-> v[b]]

setDummy(i) ==
    /\ ended = "no"
    /\ dummyValue' = i
    /\ given' = [b \in {b \in DOMAIN given : Stamp[b] > i} |-> given[b]]
    /\ UNCHANGED <<copy, stored, setup, ended, answer>>

\* AVLTree::batchSearch and printTree, which looks at every node.  They do not
\* know dead nodes and do not survive a dead root.
batchSearch(s, keys) == Searched(s, rootKey, rootPos, keys)

printTree(s) == Searched(s, rootKey, rootPos, Key)

BatchSearch(keys) ==
    LET s == batchSearch(start, keys)
    IN  /\ Operates
        /\ \/ Fails(s)
           \/ finilize(s, rootKey, TRUE) /\ Results(s, keys) /\ UNCHANGED given

PrintTree ==
    LET s == printTree(start)
    IN  /\ Operates
        /\ \/ Fails(s)
           \/ finilize(s, rootKey, TRUE) /\ UNCHANGED <<given, answer>>

BatchInsert(v) == Operates /\ InsertsAll(start, v)

\* Mutant: the pairs of finished merges go into the tree too.
setupNodesUnfiltered(v) ==
    {MiddleTree([b \in DOMAIN v |-> Text(v[b])], leaf) : leaf \in Draws(DOMAIN v)}

\* AVLTree::setupInsert builds the tree over the keys that are alive.
setupNodes(v) ==
    LET live == LiveIn(v)
    IN  {MiddleTree([b \in DOMAIN live |-> Text(live[b])], leaf) : leaf \in Draws(DOMAIN live)}

\* ORAM::setupInsert packs its nodes into the buckets.
setupInsert(t, v) == \E p \in Packings(t.nodes) : SetUp(t, p, v)

SetupInsert(v) == \E t \in setupNodes(v) : setupInsert(t, LiveIn(v))

\* The identifiers of the merge in progress.
Current == {b \in Key : Stamp[b] = dummyValue + 1}

(***************************************************************************)
(* DeAmortized counts the keywords of one merge after the other.  endSetup *)
(* calls setDummy for the merges that are finished and hands setupInsert   *)
(* the pairs of all merges.  Nothing calls the batches and printTree: they *)
(* have the keys of the merge and a tree whose root is not dead.           *)
(***************************************************************************)
Next ==
    \/ \E key \in Key : find(key)
    \/ \E key \in Known(Current) : IncrementCnt(key) \/ \E v \in Values[copy][key] : Insert(key, v)
    \/ /\ rootKey \notin {b \in Key : Stamp[b] <= dummyValue}
       /\ (\E keys \in Batches[copy] : BatchSearch(keys)) \/ PrintTree
    \/ /\ \E b \in Key : Stamp[b] > dummyValue
       /\ setDummy(dummyValue + 1)
    \/ /\ setup
       /\ \E n \in 1 .. MaxSetup[copy] :
             LET keys == {Order[copy][i] : i \in 1 .. n}
             IN  /\ \A b \in keys : Stamp[b] <= dummyValue + 1
                 /\ \E v \in Setups(keys) : SetupInsert(v) \/ (keys \subseteq Current /\ BatchInsert(v))
=============================================================================
