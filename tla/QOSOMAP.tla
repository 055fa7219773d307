------------------------------ MODULE QOSOMAP ------------------------------
(***************************************************************************)
(* The oblivious map of QOS (src/src/qos/OMAP.cpp over AVLTree.cpp and     *)
(* ORAM.cpp).  Two counters under a key, src_cnt-a_w, each with an         *)
(* increment of its own.                                                   *)
(***************************************************************************)
EXTENDS OMAP

Init == copy = "qos" /\ dummyValue = AllLive /\ New(Uncounted)

start == Session(tree, cache, maxHeightOfAVLTree, AllLive, Uncounted)

finilize(s, root, find) == Finalized(s, root, FakeReads(s, find))

search(key) == Walk(start, rootKey, rootPos, key)

find(key) ==
    LET w == Sought(search(key))
    IN  /\ Operates
        /\ \/ Fails(w.s)
           \/ /\ IF rootKey = 0 THEN UNCHANGED <<stored, ended>>
                                ELSE finilize(w.s, rootKey, TRUE)
              /\ Answers(key, Result(w, key))
              /\ UNCHANGED given

insert(w, key, text) == {Inserted(w, key, text, leaf) : leaf \in NewLeaf(w, key)}

Insert(key, v) ==
    /\ Operates
    /\ \E c \in insert(search(key), key, Text(v)) :
          \/ Fails(c.s)
          \/ /\ finilize(c.s, c.top, FALSE)
             /\ Writes(key, v)
             /\ UNCHANGED answer

\* AVLTree::incrementSrcCnt at the node of the key: the second part of the text
\* keeps its zero bytes.
incrementSrcCnt(s, key) ==
    LET parts   == splitData(TextOf(s, key))
        src_cnt == stoi(parts[1])
    IN  Valued(s, key, to_string[src_cnt + 1] \o <<dash>> \o parts[2])

(***************************************************************************)
(* AVLTree::incrementAwCnt at the node of the key, of which it increments  *)
(* the second counter if it is the root.  Below the root it goes on as     *)
(* incrementSrcCnt and increments the first one.                           *)
(***************************************************************************)
incrementAwCnt(s, key) ==
    LET parts  == splitData(TextOf(s, key))
        aw_cnt == stoi(parts[2])
    IN  IF key = rootKey
        THEN Valued(s, key, parts[1] \o <<dash>> \o to_string[aw_cnt + 1])
        ELSE incrementSrcCnt(s, key)

\* The counters after the two increments.
SrcCounted(v) == <<v[1] + 1, v[2]>>

AwCounted(key, v) == IF key = rootKey THEN <<v[1], v[2] + 1>> ELSE SrcCounted(v)

\* The session s has changed the key in place, which had the result res.
Changed(s, key, v, res) ==
    /\ v \in Values[copy][key]
    /\ finilize(s, rootKey, TRUE)
    /\ Writes(key, v)
    /\ Answers(key, res)

\* A missing key is not inserted: the result is empty.
IncrementSrcCnt(key) ==
    LET w == Sought(search(key))
    IN  /\ Operates
        /\ IF w.s.ended = "no" /\ Found(w, key)
           THEN Changed(incrementSrcCnt(w.s, key), key, SrcCounted(given[key]), Result(w, key))
           ELSE \/ Fails(w.s)
                \/ /\ finilize(w.s, rootKey, TRUE)
                   /\ Answers(key, Absent)
                   /\ UNCHANGED given

\* A missing key is inserted with 0-0, and the result is empty.
IncrementAwCnt(key) ==
    LET w == search(key)
    IN  /\ Operates
        /\ IF w.s.ended = "no" /\ Found(w, key)
           THEN Changed(incrementAwCnt(w.s, key), key, AwCounted(key, given[key]), Result(w, key))
           ELSE \E c \in insert(w, key, Text(<<0, 0>>)) :
                   \/ Fails(c.s)
                   \/ /\ finilize(c.s, c.top, TRUE)
                      /\ Writes(key, <<0, 0>>)
                      /\ Answers(key, Absent)

\* AVLTree::batchSearch and printTree, which looks at every node.
batchSearch(s, keys) == Searched(s, rootKey, rootPos, keys)

printTree(s) == Searched(s, rootKey, rootPos, Key)

BatchSearch(keys) ==
    LET s == batchSearch(start, keys)
    IN  /\ Operates
        /\ \/ Fails(s)
           \/ finilize(s, rootKey, TRUE) /\ Results(s, keys) /\ UNCHANGED given

PrintTree ==
    LET s == printTree(start)
    IN  /\ Operates
        /\ \/ Fails(s)
           \/ finilize(s, rootKey, TRUE) /\ UNCHANGED <<given, answer>>

BatchInsert(v) == Operates /\ InsertsAll(start, v)

\* AVLTree::setupInsert builds the tree over the keys with their texts.
setupNodes(v) ==
    {MiddleTree([b \in DOMAIN v |-> Text(v[b])], leaf) : leaf \in Draws(DOMAIN v)}

\* ORAM::setupInsert packs its nodes into the buckets.
setupInsert(t, v) == \E p \in Packings(t.nodes) : SetUp(t, p, v)

SetupInsert(v) == \E t \in setupNodes(v) : setupInsert(t, v)

Next ==
    \/ \E key \in Known(Key) :
          \/ find(key) \/ IncrementSrcCnt(key) \/ IncrementAwCnt(key)
          \/ \E v \in Values[copy][key] : Insert(key, v)
    \/ (\E keys \in Batches[copy] : BatchSearch(keys)) \/ PrintTree
    \/ /\ setup
       /\ \E n \in 1 .. MaxSetup[copy] :
             \E v \in Setups({Order[copy][i] : i \in 1 .. n}) : SetupInsert(v) \/ BatchInsert(v)
=============================================================================
