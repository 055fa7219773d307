----------------------------- MODULE MitraOMAP -----------------------------
(***************************************************************************)
(* Mitra's oblivious map (src/src/mitra/OMAP.cpp over AVLTree.cpp and      *)
(* ORAM.cpp).  Two counters under a key, fileCnt-srcCnt.                   *)
(***************************************************************************)
EXTENDS OMAP

Init == copy = "mitra" /\ dummyValue = AllLive /\ New(Uncounted)

start == Session(tree, cache, maxHeightOfAVLTree, AllLive, Uncounted)

finilize(s, root, find) == Finalized(s, root, FakeReads(s, find))

search(key) == Walk(start, rootKey, rootPos, key)

\* On an empty tree find returns at once.
find(key) ==
    LET w == Sought(search(key))
    IN  /\ Operates
        /\ \/ Fails(w.s)
           \/ /\ IF rootKey = 0 THEN UNCHANGED <<stored, ended>>
                                ELSE finilize(w.s, rootKey, TRUE)
              /\ Answers(key, Result(w, key))
              /\ UNCHANGED given

insert(w, key, text) == {Inserted(w, key, text, leaf) : leaf \in NewLeaf(w, key)}

Insert(key, v) ==
    /\ Operates
    /\ \E c \in insert(search(key), key, Text(v)) :
          \/ Fails(c.s)
          \/ /\ finilize(c.s, c.top, FALSE)
             /\ Writes(key, v)
             /\ UNCHANGED answer

\* Mutant: the text is put together without the second counter.
incrementFileCntAlone(s, key) == Valued(s, key, to_string[stoi(TextOf(s, key)) + 1])

(***************************************************************************)
(* AVLTree::incrementFileCnt at the node of the key.  The second part of   *)
(* the text keeps the zero bytes up to the end of the array.               *)
(***************************************************************************)
incrementFileCnt(s, key) ==
    LET parts   == splitData(TextOf(s, key))
        fileCnt == stoi(parts[1])
    IN  Valued(s, key, to_string[fileCnt + 1] \o <<dash>> \o parts[2])

\* A key that is there is changed in place; a new one is inserted with 1-0 in
\* the same session, and 0-0 returned.
IncrementFileCnt(key) ==
    LET w == search(key)
    IN  /\ Operates
        /\ IF w.s.ended = "no" /\ Found(w, key)
           THEN LET v == <<given[key][1] + 1, given[key][2]>>
                IN  /\ v \in Values[copy][key]
                    /\ finilize(incrementFileCnt(w.s, key), rootKey, TRUE)
                    /\ Writes(key, v)
                    /\ Answers(key, Result(w, key))
           ELSE \E c \in insert(w, key, Text(<<1, 0>>)) :
                   \/ Fails(c.s)
                   \/ /\ finilize(c.s, c.top, TRUE)
                      /\ Writes(key, <<1, 0>>)
                      /\ Answers(key, <<0, 0>>)

\* AVLTree::batchSearch and printTree, which looks at every node.
batchSearch(s, keys) == Searched(s, rootKey, rootPos, keys)

printTree(s) == Searched(s, rootKey, rootPos, Key)

BatchSearch(keys) ==
    LET s == batchSearch(start, keys)
    IN  /\ Operates
        /\ \/ Fails(s)
           \/ finilize(s, rootKey, TRUE) /\ Results(s, keys) /\ UNCHANGED given

PrintTree ==
    LET s == printTree(start)
    IN  /\ Operates
        /\ \/ Fails(s)
           \/ finilize(s, rootKey, TRUE) /\ UNCHANGED <<given, answer>>

BatchInsert(v) == Operates /\ InsertsAll(start, v)

\* AVLTree::setupInsert builds the tree over the keys with their texts.
setupNodes(v) ==
    {MiddleTree([b \in DOMAIN v |-> Text(v[b])], leaf) : leaf \in Draws(DOMAIN v)}

\* ORAM::setupInsert packs its nodes into the buckets.
setupInsert(t, v) == \E p \in Packings(t.nodes) : SetUp(t, p, v)

SetupInsert(v) == \E t \in setupNodes(v) : setupInsert(t, v)

Next ==
    \/ \E key \in Known(Key) :
          find(key) \/ IncrementFileCnt(key) \/ \E v \in Values[copy][key] : Insert(key, v)
    \/ (\E keys \in Batches[copy] : BatchSearch(keys)) \/ PrintTree
    \/ /\ setup
       /\ \E n \in 1 .. MaxSetup[copy] :
             \E v \in Setups({Order[copy][i] : i \in 1 .. n}) : SetupInsert(v) \/ BatchInsert(v)
=============================================================================
