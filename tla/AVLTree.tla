------------------------------ MODULE AVLTree ------------------------------
(***************************************************************************)
(* The AVL tree of the oblivious map (src/src/mitra/AVLTree.cpp, with      *)
(* copies in qos, static and horus), whose nodes are blocks of the ORAM:   *)
(* every node it looks at is read by its identifier and the position its   *)
(* parent records.  Operators take a session of the ORAM and return the    *)
(* session after them.                                                     *)
(*                                                                         *)
(* Left and right are mirror images in the code; here a side is a          *)
(* parameter.  id[d] and at[d] are the identifier and the position of the  *)
(* child on side d; the position of a child 0 is never used (the code      *)
(* leaves a random one there, the model -1).                               *)
(***************************************************************************)
EXTENDS ORAM, CounterText

CONSTANTS Bid  \* the keys, numbered in the order of Bid::operator<

ASSUME AVLTreeAssumption ==
    /\ Bid \subseteq Nat \ {0} /\ IsFiniteSet(Bid)
    /\ Stamp \in [Bid -> Nat]

Other(d) == IF d = "left" THEN "right" ELSE "left"

newNode(key, text, leaf) ==
    [key |-> key, value |-> Field(text), id |-> [left |-> 0, right |-> 0],
     at |-> [left |-> -1, right |-> -1], pos |-> leaf, height |-> 1]

Height(s, bid) == IF bid = 0 THEN 0 ELSE BlockOf(s.cache, bid).height

\* height of both children, which reads them.
ReadChildren(s, b) ==
    LET n == BlockOf(s.cache, b)
    IN  ReadNode(ReadNode(s, n.id["left"], n.at["left"]), n.id["right"], n.at["right"])

\* The height of b from the children's, which the session has read.
SetHeight(s, b) ==
    LET n == BlockOf(s.cache, b)
    IN  IF s.ended # "no" THEN s
        ELSE [s EXCEPT !.cache = With(@, [n EXCEPT !.height =
                 1 + Max({Height(s, n.id["left"]), Height(s, n.id["right"])})])]

Measured(s, b) == SetHeight(ReadChildren(s, b), b)

\* Child top, at the given position, hangs on side d of b.
Linked(s, b, d, top, pos) ==
    [s EXCEPT !.cache = With(@, [BlockOf(@, b) EXCEPT !.id[d] = top, !.at[d] = pos])]

PosOf(s, b) == IF b = 0 THEN -1 ELSE BlockOf(s.cache, b).pos

\* Mutant: the height of y is not computed again.
RotatedStale(s, y, d) ==
    LET x  == BlockOf(s.cache, y).id[d]
        T2 == BlockOf(s.cache, x).id[Other(d)]
    IN  Measured(Linked(Linked(s, x, Other(d), y, PosOf(s, y)), y, d, T2, PosOf(s, T2)), x)

(***************************************************************************)
(* rightRotate (d = "left") and leftRotate (d = "right"): the child x of y *)
(* on side d goes up, and its inner subtree T2 moves over to y.            *)
(* ReadNodeFromCache throws if x or T2 is not in the cache.                *)
(***************************************************************************)
Rotated(s, y, d) ==
    LET x  == BlockOf(s.cache, y).id[d]
        T2 == BlockOf(s.cache, x).id[Other(d)]
    IN  IF s.ended # "no" \/ x \notin Keys(s.cache) \/ T2 \notin Keys(s.cache) \cup {0}
        THEN Ended(s, "lost")
        ELSE Measured(Measured(Linked(Linked(s, x, Other(d), y, PosOf(s, y)),
                                      y, d, T2, PosOf(s, T2)), y), x)

Toward(key, b) == IF key < b THEN "left" ELSE "right"

\* The second half of an inner case: top went up to the place below b.
RotatedTwice(s, b, d, top) ==
    [s |-> IF s.ended # "no" THEN s ELSE Rotated(Linked(s, b, d, top, PosOf(s, top)), b, d),
     top |-> top]

\* One of the four rotations if b is unbalanced.
Balanced(s, b, key) ==
    LET n       == BlockOf(s.cache, b)
        balance == Height(s, n.id["left"]) - Height(s, n.id["right"])
        d       == IF balance > 1 THEN "left" ELSE "right"
        x       == n.id[d]
        inner   == BlockOf(s.cache, x).id[Other(d)]
    IN  IF s.ended # "no" \/ balance \in -1 .. 1 \/ key = x THEN [s |-> s, top |-> b]
        ELSE IF Toward(key, x) = d THEN [s |-> Rotated(s, b, d), top |-> x]
        ELSE RotatedTwice(Rotated(s, x, Other(d)), b, d, inner)

(***************************************************************************)
(* What insert does at node b on its way back: the height, and a rotation  *)
(* if b became unbalanced.  The result is the session and the root of the  *)
(* subtree.                                                                *)
(***************************************************************************)
Rebalanced(s, b, key) == Balanced(Measured(s, b), b, key)

(***************************************************************************)
(* The way down of search, insert and the increments: the nodes read, from *)
(* the root to the key or to where it is missing.  A walk has one step per *)
(* node, so that there are at most as many as keys.                        *)
(***************************************************************************)
\* The walk w stands at node w.id, which the session s has read.
Down(w, s, key) ==
    LET n == BlockOf(s.cache, w.id)
        d == Toward(key, w.id)
    IN  IF s.ended # "no" THEN [w EXCEPT !.s = s]
        ELSE IF w.id = key THEN [w EXCEPT !.s = s, !.path = Append(@, key)]
        ELSE [s |-> s, path |-> Append(w.path, w.id), id |-> n.id[d], at |-> n.at[d]]

\* Child 0 ends the walk, and so does a dead node.
Missing(w) == w.id = 0 \/ Stamp[w.id] <= w.s.dummy

Step(w, key) ==
    IF w.s.ended # "no" \/ Missing(w) \/ w.id \in Range(w.path) THEN w
    ELSE Down(w, ReadNode(w.s, w.id, w.at), key)

Walk(s, rootKey, rootPos, key) ==
    FoldSet(LAMBDA b, w : Step(w, key),
            [s |-> s, path |-> <<>>, id |-> rootKey, at |-> rootPos], Bid)

Found(w, key) == key \in Range(w.path)

(***************************************************************************)
(* The walk of search and of the increments, which take a child that is    *)
(* not where its parent says for a missing key; insert does not survive    *)
(* it, and none of them survives a root that is not where it should be.    *)
(***************************************************************************)
Sought(w) == IF w.s.ended = "lost" /\ w.path # <<>> THEN [w EXCEPT !.s.ended = "no"] ELSE w

\* The climb back from the subtree with root top along the nodes of path.
Climb(s, top, path, key) ==
    FoldRight(LAMBDA b, c :
                  IF c.s.ended # "no" THEN c
                  ELSE Rebalanced(Linked(c.s, b, Toward(key, b), c.top, PosOf(c.s, c.top)), b, key),
              path, [s |-> s, top |-> top])

\* The text is copied into the node with the given key.
Valued(s, key, text) ==
    [s EXCEPT !.cache = With(@, [BlockOf(@, key) EXCEPT !.value = Field(text),
                                                        !.pos = SpilledOn(text, @)])]

(***************************************************************************)
(* insert, after the way down w: a key that is there gets the text, a new  *)
(* one a node with the given leaf.                                         *)
(***************************************************************************)
Inserted(w, key, text, leaf) ==
    IF w.s.ended # "no" THEN [s |-> w.s, top |-> 0]
    ELSE IF Found(w, key)
    THEN Climb(Valued(w.s, key, text), key, Front(w.path), key)
    ELSE Climb(WriteNode(w.s, newNode(key, text, leaf)), key, w.path, key)

\* batchSearch: the walks to all the keys, in one session.
Searched(s, rootKey, rootPos, keys) ==
    FoldSet(LAMBDA key, t : IF t.ended # "no" THEN t
                            ELSE Sought(Walk(t, rootKey, rootPos, key)).s,
            s, keys)

\* The insertions of the texts into an empty tree, by key, in one session.
InsertedAll(s, text, leaf) ==
    FoldLeft(LAMBDA c, key :
                 IF c.s.ended # "no" THEN c
                 ELSE Inserted(Walk(c.s, c.top, PosOf(c.s, c.top), key), key, text[key], leaf[key]),
             [s |-> s, top |-> 0], SetToSortSeq(DOMAIN text, <))

(***************************************************************************)
(* sortedArrayToBST: the tree over the keys of text, sorted, in which      *)
(* every subtree has the middle of its range as root.                      *)
(***************************************************************************)
MiddleTree(text, leaf) ==
    LET n == Cardinality(DOMAIN text)
        k == [i \in 0 .. n - 1 |-> CHOOSE b \in DOMAIN text :
                 Cardinality({c \in DOMAIN text : c < b}) = i]
        \* Height of a range of m keys: its right part is the larger one.
        H[m \in 0 .. n] == IF m = 0 THEN 0 ELSE 1 + H[m \div 2]
        Root(a, b) == IF a > b THEN 0 ELSE k[(a + b) \div 2]
        At(a, b)   == IF a > b THEN -1 ELSE leaf[Root(a, b)]
        T[r \in (0 .. n) \X (-1 .. n - 1)] ==
            LET a == r[1]
                b == r[2]
                m == (a + b) \div 2
            IN  IF a > b THEN {}
                ELSE T[<<a, m - 1>>] \cup T[<<m + 1, b>>] \cup
                     {[newNode(Root(a, b), text[Root(a, b)], At(a, b)) EXCEPT
                           !.id = [left |-> Root(a, m - 1), right |-> Root(m + 1, b)],
                           !.at = [left |-> At(a, m - 1), right |-> At(m + 1, b)],
                           !.height = H[b - a + 1]]}
    IN  [root |-> Root(0, n - 1), at |-> At(0, n - 1), nodes |-> T[<<0, n - 1>>]]

\* ORAM::setupInsert of the nodes, sorted by leaf: the buckets and the cache.
Packings(nodes) ==
    LET pos      == [b \in Keys(nodes) |-> BlockOf(nodes, b).pos]
        These(S) == {BlockOf(nodes, b) : b \in S}
        Put(p)   == [tree |-> [n \in Node |-> These(p.buckets[n])], cache |-> These(p.stash)]
    IN  {Put(Packed(f, pos)) : f \in Sorted(Keys(nodes), pos)}
=============================================================================
