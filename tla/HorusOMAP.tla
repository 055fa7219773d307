----------------------------- MODULE HorusOMAP -----------------------------
(***************************************************************************)
(* The oblivious maps of Horus (src/src/horus/OMAP.cpp over AVLTree.cpp,   *)
(* ORAM.cpp and RAMStore.cpp).  One counter under a key.  The store counts *)
(* the blocks that are made and refuses one too many; finilize counts the  *)
(* heights up to depth + 2.                                                *)
(***************************************************************************)
EXTENDS OMAP

Init == copy = "horus" /\ dummyValue = AllLive /\ New(blockCount)

\* Mutant: finilize stops one level lower.
startLow == Session(tree, cache, depth + 1, AllLive, emptyNodes)

start == Session(tree, cache, depth + 2, AllLive, emptyNodes)

finilize(s, root, find) == Finalized(s, root, FakeReads(s, find))

search(key) == Walk(start, rootKey, rootPos, key)

find(key) ==
    LET w == Sought(search(key))
    IN  /\ Operates
        /\ \/ Fails(w.s)
           \/ /\ IF rootKey = 0 THEN UNCHANGED <<stored, ended>>
                                ELSE finilize(w.s, rootKey, TRUE)
              /\ Answers(key, Result(w, key))
              /\ UNCHANGED given

insert(w, key, text) == {Inserted(w, key, text, leaf) : leaf \in NewLeaf(w, key)}

Insert(key, v) ==
    /\ Operates
    /\ \E c \in insert(search(key), key, Text(v)) :
          \/ Fails(c.s)
          \/ /\ finilize(c.s, c.top, FALSE)
             /\ Writes(key, v)
             /\ UNCHANGED answer

\* AVLTree::incrementSrcCnt, incrementUpdtCnt and decrementUpdtCnt at the node
\* of the key.
incrementSrcCnt(s, key) == Valued(s, key, to_string[stoi(TextOf(s, key)) + 1])

incrementUpdtCnt(s, key) == Valued(s, key, to_string[stoi(TextOf(s, key)) + 1])

decrementUpdtCnt(s, key) == Valued(s, key, to_string[stoi(TextOf(s, key)) - 1])

(***************************************************************************)
(* The operation that counts the key by n; changed is the session in which *)
(* the tree has done so.  A missing key is not inserted, the result is     *)
(* empty; on an empty tree only the fake reads are made.                   *)
(***************************************************************************)
Counts(w, key, n, changed) ==
    /\ Operates
    /\ IF w.s.ended = "no" /\ Found(w, key)
       THEN LET v == <<given[key][1] + n>>
            IN  /\ v \in Values[copy][key]
                /\ finilize(changed, rootKey, TRUE)
                /\ Writes(key, v)
                /\ Answers(key, Result(w, key))
       ELSE \/ Fails(w.s)
            \/ /\ finilize(w.s, rootKey, TRUE)
               /\ Answers(key, Absent)
               /\ UNCHANGED given

IncrementSrcCnt(key) ==
    LET w == Sought(search(key)) IN Counts(w, key, 1, incrementSrcCnt(w.s, key))

IncrementUpdtCnt(key) ==
    LET w == Sought(search(key)) IN Counts(w, key, 1, incrementUpdtCnt(w.s, key))

DecrementUpdtCnt(key) ==
    LET w == Sought(search(key)) IN Counts(w, key, -1, decrementUpdtCnt(w.s, key))

\* AVLTree::batchSearch and printTree, which looks at every node.
batchSearch(s, keys) == Searched(s, rootKey, rootPos, keys)

printTree(s) == Searched(s, rootKey, rootPos, Key)

BatchSearch(keys) ==
    LET s == batchSearch(start, keys)
    IN  /\ Operates
        /\ \/ Fails(s)
           \/ finilize(s, rootKey, TRUE) /\ Results(s, keys) /\ UNCHANGED given

PrintTree ==
    LET s == printTree(start)
    IN  /\ Operates
        /\ \/ Fails(s)
           \/ finilize(s, rootKey, TRUE) /\ UNCHANGED <<given, answer>>

BatchInsert(v) == Operates /\ InsertsAll(start, v)

\* AVLTree::setupInsert builds the tree over the keys with their texts.
setupNodes(v) ==
    {MiddleTree([b \in DOMAIN v |-> Text(v[b])], leaf) : leaf \in Draws(DOMAIN v)}

\* ORAM::setupInsert packs its nodes into the buckets, which it does not count.
setupInsert(t, v) == \E p \in Packings(t.nodes) : SetUp(t, p, v)

SetupInsert(v) == \E t \in setupNodes(v) : setupInsert(t, v)

Next ==
    \/ \E key \in Known(Key) :
          \/ find(key) \/ IncrementSrcCnt(key) \/ IncrementUpdtCnt(key) \/ DecrementUpdtCnt(key)
          \/ \E v \in Values[copy][key] : Insert(key, v)
    \/ (\E keys \in Batches[copy] : BatchSearch(keys)) \/ PrintTree
    \/ /\ setup
       /\ \E n \in 1 .. MaxSetup[copy] :
             \E v \in Setups({Order[copy][i] : i \in 1 .. n}) : SetupInsert(v) \/ BatchInsert(v)
=============================================================================
